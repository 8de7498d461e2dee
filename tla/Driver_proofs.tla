----------------------------- MODULE Driver_proofs -----------------------------
(****************************************************************************)
(* Theorems about the driver, in three parts, each of which rests on the    *)
(* one before and all for any finite set of calls and any capacity of       *)
(* funcQueue:                                                               *)
(*                                                                          *)
(*   UnboundedChan implements FifoQueue.  The refinement mapping is         *)
(*     Contents, ch.out, q and ch.in one after the other: a send appends to *)
(*     it, a receive takes its head, and no step of the forwarding          *)
(*     goroutine changes it.                                                *)
(*   MainLoop loses no wake-up, pendingFuncs counts what it should, and     *)
(*     DoAndWait waits for its func.  IInv, of MainLoop, is inductive.      *)
(*   AppRun is still the loop of MainLoop, and Run does not return before   *)
(*     the OnStopped event is over.  AppInv, of AppRun, is inductive.       *)
(****************************************************************************)
EXTENDS AppRun, SequenceTheorems, FiniteSetTheorems, TLAPS

-----------------------------------------------------------------------------
(*-- The unbounded channel -------------------------------------------------*)

(* Concatenation, in the three shapes the steps of the channel need. *)

(* Moving a head to the end of the sequence before it changes nothing. *)
LEMMA MoveHead ==
  ASSUME NEW S, NEW s \in Seq(S), NEW t \in Seq(S), t # <<>>
  PROVE  Append(s, Head(t)) \o Tail(t) = s \o t
<1> DEFINE l == Append(s, Head(t)) \o Tail(t)
           r == s \o t
<1>1. /\ Head(t) \in S /\ Tail(t) \in Seq(S)
      /\ Len(Tail(t)) = Len(t) - 1
      /\ \A i \in 1..Len(Tail(t)) : Tail(t)[i] = t[i+1]
      /\ Head(t) = t[1]
  BY HeadTailProperties
<1>2. /\ Append(s, Head(t)) \in Seq(S)
      /\ Len(Append(s, Head(t))) = Len(s) + 1
      /\ \A i \in 1..Len(s) : Append(s, Head(t))[i] = s[i]
      /\ Append(s, Head(t))[Len(s) + 1] = Head(t)
  BY <1>1, AppendProperties
<1>3. Len(s) \in Nat /\ Len(t) \in Nat \ {0}
  BY LenProperties, EmptySeq
<1>4. /\ l \in Seq(S)
      /\ Len(l) = Len(s) + Len(t)
      /\ \A i \in 1..Len(s) + Len(t) :
           l[i] = IF i <= Len(s) + 1 THEN Append(s, Head(t))[i]
                  ELSE Tail(t)[i - (Len(s) + 1)]
  <2>1. /\ l \in Seq(S)
        /\ Len(l) = (Len(s) + 1) + (Len(t) - 1)
        /\ \A i \in 1..(Len(s) + 1) + (Len(t) - 1) :
             l[i] = IF i <= Len(s) + 1 THEN Append(s, Head(t))[i]
                    ELSE Tail(t)[i - (Len(s) + 1)]
    BY <1>1, <1>2, ConcatProperties
  <2>2. (Len(s) + 1) + (Len(t) - 1) = Len(s) + Len(t)
    BY <1>3
  <2> QED BY <2>1, <2>2
<1>5. /\ r \in Seq(S)
      /\ Len(r) = Len(s) + Len(t)
      /\ \A i \in 1..Len(s) + Len(t) :
           r[i] = IF i <= Len(s) THEN s[i] ELSE t[i - Len(s)]
  BY ConcatProperties
<1>6. \A i \in 1..Len(l) : l[i] = r[i]
  <2> SUFFICES ASSUME NEW i \in 1..Len(s) + Len(t)
               PROVE  l[i] = r[i]
    BY <1>4
  <2> HIDE DEF l, r
  <2>1. CASE i <= Len(s)
    BY <2>1, <1>2, <1>3, <1>4, <1>5
  <2>2. CASE i = Len(s) + 1
    BY <2>2, <1>1, <1>2, <1>3, <1>4, <1>5
  <2>3. CASE i > Len(s) + 1
    <3>1. i - (Len(s) + 1) \in 1..Len(Tail(t))
      BY <2>3, <1>1, <1>3
    <3>2. Tail(t)[i - (Len(s) + 1)] = t[(i - (Len(s) + 1)) + 1]
      BY <3>1, <1>1
    <3>3. (i - (Len(s) + 1)) + 1 = i - Len(s)
      BY <1>3
    <3> QED BY <2>3, <3>2, <3>3, <1>3, <1>4, <1>5
  <2> QED BY <2>1, <2>2, <2>3, <1>3
<1> HIDE DEF l, r
<1>7. l = r
  BY <1>4, <1>5, <1>6, SeqEqual
<1> QED BY <1>7 DEF l, r

(* Appending to the last part appends to the whole. *)
LEMMA AppendLast ==
  ASSUME NEW S, NEW s \in Seq(S), NEW t \in Seq(S), NEW e \in S
  PROVE  s \o Append(t, e) = Append(s \o t, e)
<1>1. <<e>> \in Seq(S)
  OBVIOUS
<1>2. Append(t, e) = t \o <<e>> /\ Append(s \o t, e) = (s \o t) \o <<e>>
  BY AppendIsConcat, ConcatProperties
<1> QED BY <1>1, <1>2, ConcatAssociative

(* The head of a first part that is not empty is the head of the whole. *)
LEMMA TakeFirst ==
  ASSUME NEW S, NEW s \in Seq(S), NEW t \in Seq(S), s # <<>>
  PROVE  /\ s \o t # <<>>
         /\ Head(s \o t) = Head(s)
         /\ Tail(s \o t) = Tail(s) \o t
<1>1. <<>> \in Seq(S) /\ <<>> \o s = s
  BY EmptySeq, ConcatEmptySeq
<1>2. Head(s) \in S /\ Tail(s) \in Seq(S) /\ <<Head(s)>> \in Seq(S)
  BY HeadTailProperties
<1>3. s = <<Head(s)>> \o Tail(s)
  BY <1>1, <1>2, MoveHead, AppendProperties, AppendIsConcat, ConcatEmptySeq
<1>4. s \o t = <<Head(s)>> \o (Tail(s) \o t)
  BY <1>2, <1>3, ConcatAssociative
<1>5. Tail(s) \o t \in Seq(S)
  BY <1>2, ConcatProperties
<1> QED BY <1>2, <1>4, <1>5

-----------------------------------------------------------------------------
(* What each action does to Contents. *)

LEMMA ContentsType ==
  ASSUME ChanTypeOK
  PROVE  /\ q \o chin \in Seq(Elem)
         /\ Contents \in Seq(Elem)
         /\ Contents = chout \o (q \o chin)
BY ConcatProperties, ConcatAssociative DEF ChanTypeOK, Contents

LEMMA SendAppends ==
  ASSUME ChanTypeOK, NEW e \in Elem, ChanSend(e)
  PROVE  Contents' = Append(Contents, e)
<1>1. /\ chin \in Seq(Elem) /\ q \in Seq(Elem) /\ chout \in Seq(Elem)
      /\ chout \o q \in Seq(Elem)
  BY ConcatProperties DEF ChanTypeOK
<1> QED BY <1>1, AppendLast DEF ChanSend, Contents

LEMMA RecvTakes ==
  ASSUME ChanTypeOK, ChanRecv
  PROVE  /\ Contents # <<>>
         /\ Head(Contents) = Head(chout)
         /\ Contents' = Tail(Contents)
<1>1. /\ q \o chin \in Seq(Elem) /\ Contents = chout \o (q \o chin)
  BY ContentsType
<1>2. /\ Contents # <<>>
      /\ Head(Contents) = Head(chout)
      /\ Tail(Contents) = Tail(chout) \o (q \o chin)
  BY <1>1, TakeFirst DEF ChanTypeOK, ChanRecv
<1>3. Tail(chout) \in Seq(Elem) /\ q \in Seq(Elem) /\ chin \in Seq(Elem)
  BY HeadTailProperties DEF ChanTypeOK, ChanRecv
<1>4. Contents' = (Tail(chout) \o q) \o chin
  BY DEF ChanRecv, Contents
<1>5. Contents' = Tail(chout) \o (q \o chin)
  BY <1>3, <1>4, ConcatAssociative
<1> QED BY <1>2, <1>5

LEMMA ForwardKeeps ==
  ASSUME ChanTypeOK, Forward
  PROVE  Contents' = Contents
<1> USE DEF ChanTypeOK
<1>0. Contents = chout \o (q \o chin)
  BY ContentsType
<1>1. CASE Accept
  <2>1. q' \o chin' = q \o chin
    BY <1>1, MoveHead DEF Accept
  <2>2. chout \in Seq(Elem) /\ q' \in Seq(Elem) /\ chin' \in Seq(Elem)
    BY <1>1, HeadTailProperties, AppendProperties DEF Accept
  <2>3. Contents' = (chout \o q') \o chin'
    BY <1>1 DEF Accept, Contents
  <2>4. (chout \o q') \o chin' = chout \o (q' \o chin')
    <3> HIDE DEF ChanTypeOK
    <3> QED BY <2>2, ConcatAssociative
  <2> QED BY <2>1, <2>3, <2>4, <1>0
<1>2. CASE Push
  <2>1. chout' \o q' = chout \o q
    <3>1. chout' = Append(chout, Head(q)) /\ q' = Tail(q) /\ q # <<>>
      BY <1>2 DEF Push
    <3>2. chout \in Seq(Elem) /\ q \in Seq(Elem)
      OBVIOUS
    <3>3. Append(chout, Head(q)) \o Tail(q) = chout \o q
      BY <3>1, <3>2, MoveHead
    <3> HIDE DEF ChanTypeOK
    <3> QED BY <3>1, <3>3
  <2> QED BY <2>1, <1>2 DEF Push, Contents
<1>3. CASE CloseIn
  <2>1. q \o chin \in Seq(Elem)
    BY ConcatProperties
  <2>2. chout \o (q \o chin) \in Seq(Elem)
    BY <2>1, ConcatProperties
  <2>3. Contents' = (chout \o (q \o chin)) \o <<>>
    BY <1>3 DEF CloseIn, Contents
  <2> QED BY <2>2, <2>3, <1>0, ConcatEmptySeq
<1>4. CASE CloseOut
  BY <1>4 DEF CloseOut, Contents
<1> QED BY <1>1, <1>2, <1>3, <1>4 DEF Forward

-----------------------------------------------------------------------------
(* The types hold for ever, whatever the capacities. *)
LEMMA ChanTypeStep ==
  ASSUME ChanTypeOK, [ChanNext]_chanVars
  PROVE  ChanTypeOK'
<1> USE DEF ChanTypeOK, FwdStates
<1>1. ASSUME NEW e \in Elem, ChanSend(e) PROVE ChanTypeOK'
  BY <1>1, AppendProperties DEF ChanSend
<1>2. CASE ChanRecv
  BY <1>2, HeadTailProperties DEF ChanRecv
<1>3. CASE ChanClose
  BY <1>3 DEF ChanClose
<1>4. CASE Accept
  BY <1>4, HeadTailProperties, AppendProperties DEF Accept
<1>5. CASE Push
  BY <1>5, HeadTailProperties, AppendProperties DEF Push
<1>6. CASE CloseIn
  BY <1>6, ConcatProperties, EmptySeq DEF CloseIn
<1>7. CASE CloseOut
  BY <1>7 DEF CloseOut
<1>8. CASE UNCHANGED chanVars
  BY <1>8 DEF chanVars
<1> QED
  BY <1>1, <1>2, <1>3, <1>4, <1>5, <1>6, <1>7, <1>8 DEF ChanNext, Forward

(* The channel never holds anything but elements (chan.go 5-9). *)
THEOREM ChanTypeCorrect == ChanSpec => []ChanTypeOK
<1>1. ChanInit => ChanTypeOK
  BY EmptySeq DEF ChanInit, ChanTypeOK, FwdStates
<1>2. ChanTypeOK /\ [ChanNext]_chanVars => ChanTypeOK'
  BY ChanTypeStep
<1> QED BY <1>1, <1>2, PTL DEF ChanSpec

(* BuffersBounded with its type invariant is inductive: both Go channels    *)
(* keep to their capacity, and nothing is left in ch.in or q once the       *)
(* forwarding goroutine has closed them.                                    *)
THEOREM ChanBuffersBounded == ChanSpec => []BuffersBounded
<1>1. ChanInit => BuffersBounded
  BY ChanAssumption DEF ChanInit, BuffersBounded
<1>2. ChanTypeOK /\ BuffersBounded /\ [ChanNext]_chanVars => BuffersBounded'
  <2> SUFFICES ASSUME ChanTypeOK, BuffersBounded, [ChanNext]_chanVars
               PROVE  BuffersBounded'
    OBVIOUS
  <2> USE ChanAssumption DEF ChanTypeOK, FwdStates, BuffersBounded
  <2>1. ASSUME NEW e \in Elem, ChanSend(e) PROVE BuffersBounded'
    BY <2>1, AppendProperties, LenProperties DEF ChanSend, InOpen
  <2>2. CASE ChanRecv
    BY <2>2, HeadTailProperties, LenProperties DEF ChanRecv
  <2>3. CASE ChanClose
    BY <2>3 DEF ChanClose
  <2>4. CASE Accept
    BY <2>4, HeadTailProperties, LenProperties DEF Accept
  <2>5. CASE Push
    BY <2>5, AppendProperties, HeadTailProperties, LenProperties DEF Push
  <2>6. CASE CloseIn
    BY <2>6, EmptySeq DEF CloseIn
  <2>7. CASE CloseOut
    BY <2>7 DEF CloseOut
  <2>8. CASE UNCHANGED chanVars
    BY <2>8 DEF chanVars
  <2> QED
    BY <2>1, <2>2, <2>3, <2>4, <2>5, <2>6, <2>7, <2>8 DEF ChanNext, Forward
<1> QED BY <1>1, <1>2, ChanTypeCorrect, PTL DEF ChanSpec

-----------------------------------------------------------------------------
(* The channel is a FIFO queue, for every set of elements and every         *)
(* capacity of the two Go channels: no element is lost, duplicated or       *)
(* overtaken (chan.go 35-96).                                               *)
THEOREM ChanIsFifo == ChanSpec => IsFifo
<1>1. ChanInit => Fifo!FifoInit
  BY ConcatEmptySeq, EmptySeq DEF ChanInit, Fifo!FifoInit, Contents, InOpen
<1>2. ChanTypeOK /\ [ChanNext]_chanVars => [Fifo!FifoNext]_(Fifo!fifoVars)
  <2> SUFFICES ASSUME ChanTypeOK, [ChanNext]_chanVars
               PROVE  [Fifo!FifoNext]_(Fifo!fifoVars)
    OBVIOUS
  <2> USE DEF Fifo!FifoNext, Fifo!fifoVars
  <2>1. ASSUME NEW e \in Elem, ChanSend(e) PROVE Fifo!Put(e)
    <3>1. Contents' = Append(Contents, e)
      BY <2>1, SendAppends
    <3> QED BY <3>1, <2>1 DEF ChanSend, InOpen, Fifo!Put
  <2>2. CASE ChanRecv
    <3>1. Contents # <<>> /\ Contents' = Tail(Contents)
      BY <2>2, RecvTakes
    <3>2. InOpen' = InOpen
      BY <2>2 DEF ChanRecv, InOpen
    <3> QED BY <3>1, <3>2 DEF Fifo!Take
  <2>3. CASE ChanClose
    BY <2>3 DEF ChanClose, InOpen, Contents
  <2>4. CASE CloseIn
    <3>1. Contents' = Contents
      BY <2>4, ForwardKeeps DEF Forward
    <3> QED BY <3>1, <2>4 DEF CloseIn, InOpen, Fifo!Shut
  <2>5. CASE Accept \/ Push \/ CloseOut
    <3>1. Contents' = Contents
      BY <2>5, ForwardKeeps DEF Forward
    <3>2. InOpen' = InOpen
      BY <2>5 DEF Accept, Push, CloseOut, InOpen
    <3> QED BY <3>1, <3>2
  <2>6. CASE UNCHANGED chanVars
    BY <2>6 DEF chanVars, Contents, InOpen
  <2> QED
    BY <2>1, <2>2, <2>3, <2>4, <2>5, <2>6 DEF ChanNext, Forward
<1> QED
  BY <1>1, <1>2, ChanTypeCorrect, PTL DEF ChanSpec, IsFifo, Fifo!FifoSpec

-----------------------------------------------------------------------------
(*-- The driver loop -------------------------------------------------------*)

(* The elements of a sequence that grows at the end and shrinks in front.   *)

LEMMA ElementsAppend ==
  ASSUME NEW S, NEW s \in Seq(S), NEW e \in S
  PROVE  /\ Elements(Append(s, e)) = Elements(s) \cup {e}
         /\ Distinct(s) /\ e \notin Elements(s) => Distinct(Append(s, e))
<1>1. /\ Len(s) \in Nat
      /\ Len(Append(s, e)) = Len(s) + 1
      /\ \A i \in 1..Len(s) : Append(s, e)[i] = s[i]
      /\ Append(s, e)[Len(s) + 1] = e
  BY AppendProperties, LenProperties
<1>2. \A i \in 1..(Len(s) + 1) : i \in 1..Len(s) \/ i = Len(s) + 1
  BY <1>1
<1>3. Elements(Append(s, e)) = Elements(s) \cup {e}
  <2>1. ASSUME NEW x \in Elements(Append(s, e))
        PROVE  x \in Elements(s) \cup {e}
    BY <1>1, <1>2 DEF Elements
  <2>2. ASSUME NEW x \in Elements(s) \cup {e}
        PROVE  x \in Elements(Append(s, e))
    <3>1. CASE x = e
      <4>1. Len(s) + 1 \in 1..(Len(s) + 1)
        BY <1>1
      <4> QED BY <3>1, <4>1, <1>1 DEF Elements
    <3>2. CASE x \in Elements(s)
      <4>1. PICK i \in 1..Len(s) : x = s[i]
        BY <3>2 DEF Elements
      <4>2. i \in 1..(Len(s) + 1)
        BY <1>1
      <4> QED BY <4>1, <4>2, <1>1 DEF Elements
    <3> QED BY <3>1, <3>2
  <2> QED BY <2>1, <2>2
<1>4. ASSUME Distinct(s), e \notin Elements(s)
      PROVE  Distinct(Append(s, e))
  <2>1. \A i \in 1..Len(s) : s[i] # e
    BY <1>4 DEF Elements
  <2> QED BY <2>1, <1>1, <1>2, <1>4 DEF Distinct
<1> QED BY <1>3, <1>4

LEMMA ElementsTail ==
  ASSUME NEW S, NEW s \in Seq(S), s # <<>>, Distinct(s)
  PROVE  /\ Head(s) \in Elements(s) /\ Head(s) \in S
         /\ Elements(Tail(s)) = Elements(s) \ {Head(s)}
         /\ Distinct(Tail(s))
<1>1. /\ Len(s) \in Nat \ {0}
      /\ Head(s) = s[1] /\ Head(s) \in S
      /\ Len(Tail(s)) = Len(s) - 1
      /\ \A i \in 1..(Len(s) - 1) : Tail(s)[i] = s[i + 1]
  BY HeadTailProperties, EmptySeq
<1>2. \A i \in 1..(Len(s) - 1) : i + 1 \in 1..Len(s) /\ i + 1 # 1
  BY <1>1
<1>3. \A i \in 1..Len(s) : i # 1 => i - 1 \in 1..(Len(s) - 1) /\ (i - 1) + 1 = i
  BY <1>1
<1>4. 1 \in 1..Len(s)
  BY <1>1
<1>5. Elements(Tail(s)) = Elements(s) \ {Head(s)}
  <2>1. ASSUME NEW x \in Elements(Tail(s))
        PROVE  x \in Elements(s) \ {Head(s)}
    <3>1. PICK i \in 1..(Len(s) - 1) : x = s[i + 1]
      BY <1>1 DEF Elements
    <3> QED BY <3>1, <1>1, <1>2, <1>4 DEF Elements, Distinct
  <2>2. ASSUME NEW x \in Elements(s) \ {Head(s)}
        PROVE  x \in Elements(Tail(s))
    <3>1. PICK i \in 1..Len(s) : x = s[i] /\ i # 1
      BY <1>1 DEF Elements
    <3>2. i - 1 \in 1..Len(Tail(s)) /\ Tail(s)[i - 1] = x
      BY <3>1, <1>1, <1>3
    <3> QED BY <3>2 DEF Elements
  <2> QED BY <2>1, <2>2
<1>6. Distinct(Tail(s))
  <2> SUFFICES ASSUME NEW i \in 1..(Len(s) - 1), NEW j \in 1..(Len(s) - 1),
                      s[i + 1] = s[j + 1]
               PROVE  i = j
    BY <1>1 DEF Distinct
  <2>1. i + 1 = j + 1
    BY <1>2 DEF Distinct
  <2> QED BY <2>1
<1> QED BY <1>1, <1>4, <1>5, <1>6 DEF Elements

-----------------------------------------------------------------------------
(* What the steps of the model do to the queue. *)

LEMMA EnqueueEffect ==
  ASSUME TypeOK, QueuedOnce, NEW c \in Calls, Enqueue(c)
  PROVE  /\ c \notin InQueue
         /\ InQueue' = InQueue \cup {c}
         /\ Distinct(Contents)'
<1>1. c \notin InQueue
  BY DEF QueuedOnce, Enqueue
<1>2. Contents \in Seq(Elem) /\ c \in Elem
  BY ContentsType, CallsAssumption DEF TypeOK
<1>3. Contents' = Append(Contents, c)
  BY <1>2, SendAppends DEF TypeOK, Enqueue
<1> QED BY <1>1, <1>2, <1>3, ElementsAppend DEF QueuedOnce, InQueue

LEMMA RecvEffect ==
  ASSUME TypeOK, QueuedOnce, ChanRecv
  PROVE  /\ Head(chout) \in InQueue /\ Head(chout) \in Calls
         /\ InQueue' = InQueue \ {Head(chout)}
         /\ Distinct(Contents)'
<1>1. Contents \in Seq(Elem) /\ Distinct(Contents)
  BY ContentsType DEF TypeOK, QueuedOnce
<1>2. /\ Contents # <<>>
      /\ Head(Contents) = Head(chout)
      /\ Contents' = Tail(Contents)
  BY RecvTakes DEF TypeOK
<1> QED BY <1>1, <1>2, ElementsTail, CallsAssumption DEF InQueue

LEMMA QuietEffect ==
  ASSUME TypeOK, UNCHANGED chanVars \/ ForwardFunc \/ CloseQueue
  PROVE  Contents' = Contents /\ InQueue' = InQueue
<1>1. CASE UNCHANGED chanVars
  BY <1>1 DEF chanVars, Contents, InQueue
<1>2. CASE ForwardFunc
  BY <1>2, ForwardKeeps DEF ForwardFunc, TypeOK, InQueue
<1>3. CASE CloseQueue
  BY <1>3 DEF CloseQueue, ChanClose, Contents, InQueue
<1> QED BY <1>1, <1>2, <1>3

LEMMA UnrunFinite ==
  ASSUME TypeOK
  PROVE  Unrun \subseteq Calls /\ IsFiniteSet(Unrun)
<1>1. Contents \in Seq(Calls)
  BY ContentsType, CallsAssumption DEF TypeOK
<1>2. InQueue \subseteq Calls
  BY <1>1, ElementOfSeq DEF InQueue, Elements
<1> QED BY <1>2, CallsAssumption, FS_Subset DEF Unrun

-----------------------------------------------------------------------------
(* The steps that leave the queue, the calls and their funcs alone. *)

Moves == \/ Start \/ InitDriver \/ StartHooks \/ CreateWindow
         \/ DrainCheck \/ TakeDone \/ NothingQueued
         \/ Pace \/ PollEvents \/ DrawFrame \/ RestIdle \/ RestFrame \/ RestNot
         \/ ReleaseClaim \/ Recheck
         \/ WakeUp \/ FrameTimeout \/ IdleTimeout \/ RunCallbacks
         \/ Terminate \/ FlushEnd \/ SetDrained
         \/ QuitSwap \/ QuitClose \/ QuitPost
         \/ Input \/ Tick

LEMMA MovesFrame ==
  ASSUME Moves
  PROVE  UNCHANGED <<chanVars, call, fate, cur>> /\ pendingFuncs' = pendingFuncs
BY DEF Moves, Start, InitDriver, StartHooks, CreateWindow, DrainCheck, TakeDone,
       NothingQueued, Pace, PollEvents, DrawFrame, RestIdle, RestFrame, RestNot,
       ReleaseClaim, Recheck, WakeUp, FrameTimeout, IdleTimeout, RunCallbacks,
       Terminate, FlushEnd, SetDrained, QuitSwap, QuitClose, QuitPost, Input,
       Tick, loopFrame, callFrame, restFrame, callVars, driverVars

(* The steps of a call that leave the queue alone. *)
CallMoves(c) == \/ RunDirect(c) \/ Count(c) \/ SendPanics(c)
                \/ LoadRunning(c) \/ ClaimWake(c) \/ Post(c)

LEMMA NextCases ==
  ASSUME [Next]_vars
  PROVE  \/ Moves
         \/ \E c \in Calls : CallMoves(c) \/ Enqueue(c)
         \/ TakeFunc \/ RunFunc \/ Signal
         \/ FlushTake \/ FlushSignal \/ CloseQueue
         \/ ForwardFunc
         \/ UNCHANGED vars
BY DEF Next, LoopStep, Drain, Pass, Park, Shutdown, QuitStep, CallStep,
       CallMoves, Moves

-----------------------------------------------------------------------------
(* The types. *)

(* The types of the flags, which Zenon proves, and of the rest. *)
Flags == /\ running \in BOOLEAN /\ drained \in BOOLEAN /\ wakePosted \in BOOLEAN
         /\ done \in BOOLEAN /\ glfwUp \in BOOLEAN /\ osEvent \in BOOLEAN
         /\ due \in BOOLEAN /\ pendingFrame \in BOOLEAN

Places == /\ loop \in LoopStates
          /\ parkFor \in {"frame", "idle"}
          /\ quit \in {"none", "swapped", "closed", "posted"}

LEMMA MovesPlaces ==
  ASSUME Places, Moves
  PROVE  Places'
<1> USE DEF loopFrame, callFrame, restFrame, timeVars, quitVars, LoopStates,
            Places
<1>1. CASE Start
  BY <1>1 DEF Start
<1>2. CASE InitDriver
  BY <1>2 DEF InitDriver
<1>3. CASE StartHooks
  BY <1>3 DEF StartHooks
<1>4. CASE CreateWindow
  BY <1>4 DEF CreateWindow
<1>5. CASE DrainCheck
  BY <1>5 DEF DrainCheck
<1>6. CASE TakeDone
  BY <1>6 DEF TakeDone
<1>7. CASE NothingQueued
  BY <1>7 DEF NothingQueued
<1>8. CASE Pace
  BY <1>8 DEF Pace
<1>9. CASE PollEvents
  BY <1>9 DEF PollEvents
<1>10. CASE DrawFrame
  BY <1>10 DEF DrawFrame
<1>11. CASE RestIdle
  BY <1>11 DEF RestIdle
<1>12. CASE RestFrame
  BY <1>12 DEF RestFrame
<1>13. CASE RestNot
  BY <1>13 DEF RestNot
<1>14. CASE ReleaseClaim
  BY <1>14 DEF ReleaseClaim
<1>15. CASE Recheck
  BY <1>15 DEF Recheck
<1>16. CASE WakeUp
  BY <1>16 DEF WakeUp
<1>17. CASE FrameTimeout
  BY <1>17 DEF FrameTimeout
<1>18. CASE IdleTimeout
  BY <1>18 DEF IdleTimeout
<1>19. CASE RunCallbacks
  BY <1>19 DEF RunCallbacks
<1>20. CASE Terminate
  BY <1>20 DEF Terminate
<1>21. CASE FlushEnd
  BY <1>21 DEF FlushEnd
<1>22. CASE SetDrained
  BY <1>22 DEF SetDrained
<1>23. CASE QuitSwap
  BY <1>23 DEF QuitSwap
<1>24. CASE QuitClose
  BY <1>24 DEF QuitClose
<1>25. CASE QuitPost
  BY <1>25 DEF QuitPost
<1>26. CASE Input
  BY <1>26 DEF Input
<1>27. CASE Tick
  BY <1>27 DEF Tick
<1> QED
  BY <1>1, <1>2, <1>3, <1>4, <1>5, <1>6, <1>7, <1>8, <1>9, <1>10, <1>11, <1>12,
     <1>13, <1>14, <1>15, <1>16, <1>17, <1>18, <1>19, <1>20, <1>21, <1>22,
     <1>23, <1>24, <1>25, <1>26, <1>27 DEF Moves

LEMMA MovesFlags ==
  ASSUME Flags, Moves
  PROVE  Flags'
<1> USE DEF loopFrame, callFrame, restFrame, driverVars, timeVars, quitVars, Flags
<1>1. CASE Start
  BY <1>1, Zenon DEF Start
<1>2. CASE InitDriver
  BY <1>2, Zenon DEF InitDriver
<1>3. CASE StartHooks
  BY <1>3, Zenon DEF StartHooks
<1>4. CASE CreateWindow
  BY <1>4, Zenon DEF CreateWindow
<1>5. CASE DrainCheck
  BY <1>5, Zenon DEF DrainCheck
<1>6. CASE TakeDone
  BY <1>6, Zenon DEF TakeDone
<1>7. CASE NothingQueued
  BY <1>7, Zenon DEF NothingQueued
<1>8. CASE Pace
  BY <1>8, Zenon DEF Pace
<1>9. CASE PollEvents
  BY <1>9, Zenon DEF PollEvents
<1>10. CASE DrawFrame
  BY <1>10, Zenon DEF DrawFrame
<1>11. CASE RestIdle
  BY <1>11, Zenon DEF RestIdle
<1>12. CASE RestFrame
  BY <1>12, Zenon DEF RestFrame
<1>13. CASE RestNot
  BY <1>13, Zenon DEF RestNot
<1>14. CASE ReleaseClaim
  BY <1>14, Zenon DEF ReleaseClaim
<1>15. CASE Recheck
  BY <1>15, Zenon DEF Recheck
<1>16. CASE WakeUp
  BY <1>16, Zenon DEF WakeUp
<1>17. CASE FrameTimeout
  BY <1>17, Zenon DEF FrameTimeout
<1>18. CASE IdleTimeout
  BY <1>18, Zenon DEF IdleTimeout
<1>19. CASE RunCallbacks
  <2>1. UNCHANGED <<driverVars, due, glfwUp, done>>
    BY <1>19, Zenon DEF RunCallbacks
  <2>2. osEvent' \in BOOLEAN
    BY <1>19, Zenon DEF RunCallbacks
  <2>3. pendingFrame' \in BOOLEAN
    BY <1>19, Zenon DEF RunCallbacks
  <2> QED BY <2>1, <2>2, <2>3, Zenon
<1>20. CASE Terminate
  BY <1>20, Zenon DEF Terminate
<1>21. CASE FlushEnd
  BY <1>21, Zenon DEF FlushEnd
<1>22. CASE SetDrained
  BY <1>22, Zenon DEF SetDrained
<1>23. CASE QuitSwap
  BY <1>23, Zenon DEF QuitSwap
<1>24. CASE QuitClose
  BY <1>24, Zenon DEF QuitClose
<1>25. CASE QuitPost
  BY <1>25, Zenon DEF QuitPost
<1>26. CASE Input
  BY <1>26, Zenon DEF Input
<1>27. CASE Tick
  BY <1>27, Zenon DEF Tick
<1> QED
  BY <1>1, <1>2, <1>3, <1>4, <1>5, <1>6, <1>7, <1>8, <1>9, <1>10, <1>11, <1>12,
     <1>13, <1>14, <1>15, <1>16, <1>17, <1>18, <1>19, <1>20, <1>21, <1>22,
     <1>23, <1>24, <1>25, <1>26, <1>27, Zenon DEF Moves

LEMMA MovesType ==
  ASSUME TypeOK, Moves
  PROVE  TypeOK'
<1>1. ChanTypeOK'
  BY MovesFrame DEF TypeOK, ChanTypeOK, chanVars
<1>2. /\ cur' \in Calls \cup {"none"} /\ pendingFuncs' \in Nat
      /\ call' \in [Calls -> CallStates] /\ fate' \in [Calls -> Fates]
  BY MovesFrame DEF TypeOK
<1>3. Flags'
  BY MovesFlags, Zenon DEF TypeOK, Flags
<1>4. Places'
  BY MovesPlaces, Zenon DEF TypeOK, Places
<1> QED BY <1>1, <1>2, <1>3, <1>4, Zenon DEF TypeOK, Flags, Places

LEMMA CallType ==
  ASSUME TypeOK, NEW c \in Calls, CallMoves(c) \/ Enqueue(c)
  PROVE  TypeOK'
<1> USE DEF TypeOK, callVars, driverVars, timeVars, quitVars, CallStates, Fates
<1>1. AfterWake(c) \in CallStates
  BY DEF AfterWake
<1>0. UNCHANGED chanVars => ChanTypeOK'
  BY DEF ChanTypeOK, chanVars
<1>2. CASE RunDirect(c)
  BY <1>0, <1>1, <1>2 DEF RunDirect
<1>3. CASE Count(c)
  BY <1>0, <1>1, <1>3 DEF Count
<1>4. CASE SendPanics(c)
  BY <1>0, <1>1, <1>4 DEF SendPanics
<1>5. CASE LoadRunning(c)
  BY <1>0, <1>1, <1>5 DEF LoadRunning
<1>6. CASE ClaimWake(c)
  BY <1>0, <1>1, <1>6 DEF ClaimWake
<1>7. CASE Post(c)
  BY <1>0, <1>1, <1>7 DEF Post
<1>8. CASE Enqueue(c)
  <2>1. ChanSend(c) /\ c \in Elem
    BY <1>8, CallsAssumption DEF Enqueue
  <2>2. ChanTypeOK'
    BY <2>1, ChanTypeStep DEF ChanNext
  <2> QED BY <2>2, <1>8 DEF Enqueue
<1> QED BY <1>2, <1>3, <1>4, <1>5, <1>6, <1>7, <1>8 DEF CallMoves

(* What the loop takes was counted, so pendingFuncs stays a natural number. *)
LEMMA TakeCounts ==
  ASSUME TypeOK, QueuedOnce, CountIsExact, TakeFunc
  PROVE  /\ pendingFuncs' \in Nat
         /\ pendingFuncs' = Cardinality(Unrun')
<1>1. /\ Head(chout) \in InQueue
      /\ InQueue' = InQueue \ {Head(chout)}
  BY RecvEffect DEF TakeFunc
<1>2. call[Head(chout)] # "send" /\ call' = call
  BY <1>1 DEF QueuedOnce, TakeFunc, loopFrame, callVars
<1>3. Unrun' = Unrun \ {Head(chout)} /\ Head(chout) \in Unrun
  BY <1>1, <1>2 DEF Unrun
<1>4. IsFiniteSet(Unrun)
  BY UnrunFinite
<1>5. pendingFuncs = Cardinality(Unrun)
  BY DEF CountIsExact, TakeFunc
<1>6. Cardinality(Unrun') = Cardinality(Unrun) - 1
  BY <1>3, <1>4, FS_RemoveElement
<1>7. Cardinality(Unrun') \in Nat
  BY <1>3, <1>4, FS_RemoveElement, FS_CardinalityType
<1> QED BY <1>5, <1>6, <1>7 DEF TakeFunc

LEMMA TypeStep ==
  ASSUME TypeOK, QueuedOnce, Phases, CountIsExact, [Next]_vars
  PROVE  TypeOK'
<1> USE DEF callVars, driverVars, timeVars, quitVars, LoopStates, loopFrame
<1>1. CASE TakeFunc
  <2>1. ChanTypeOK'
    BY <1>1, ChanTypeStep DEF TakeFunc, ChanNext, TypeOK
  <2>2. Head(chout) \in Calls
    BY <1>1, RecvEffect DEF TakeFunc
  <2> QED BY <2>1, <2>2, <1>1, TakeCounts DEF TakeFunc, TypeOK
<1>2. CASE FlushTake
  <2>1. ChanTypeOK'
    BY <1>2, ChanTypeStep DEF FlushTake, ChanNext, TypeOK
  <2>2. Head(chout) \in Calls
    BY <1>2, RecvEffect DEF FlushTake
  <2> QED BY <2>1, <2>2, <1>2 DEF FlushTake, TypeOK, Fates
<1>3. CASE CloseQueue \/ ForwardFunc
  <2>1. ChanTypeOK'
    BY <1>3, ChanTypeStep DEF CloseQueue, ForwardFunc, ChanNext, TypeOK
  <2> QED BY <2>1, <1>3 DEF CloseQueue, ForwardFunc, TypeOK
<1>4. UNCHANGED chanVars => ChanTypeOK'
  BY DEF TypeOK, ChanTypeOK, chanVars
<1>5. CASE RunFunc
  BY <1>4, <1>5 DEF RunFunc, TypeOK, Fates, Phases
<1>6. CASE Signal
  BY <1>4, <1>6 DEF Signal, TypeOK, CallStates, Phases
<1>7. CASE FlushSignal
  BY <1>4, <1>7 DEF FlushSignal, TypeOK, CallStates, Phases
<1>8. CASE UNCHANGED vars
  BY <1>8 DEF vars, TypeOK, ChanTypeOK, chanVars
<1> QED
  BY <1>1, <1>2, <1>3, <1>5, <1>6, <1>7, <1>8, NextCases, MovesType, CallType

-----------------------------------------------------------------------------
(* A func is queued at most once. *)

LEMMA QueuedStep ==
  ASSUME TypeOK, QueuedOnce, Phases, [Next]_vars
  PROVE  QueuedOnce'
<1> USE DEF callVars, loopFrame, quitVars
<1>0. ASSUME Contents' = Contents, InQueue' = InQueue,
             \A c \in InQueue : call'[c] \in {"load", "claim", "post",
                                              "waiting", "returned"}
      PROVE  QueuedOnce'
  BY <1>0 DEF QueuedOnce
<1>1. CASE Moves
  <2>1. UNCHANGED <<chanVars, call>>
    BY <1>1, MovesFrame
  <2> QED BY <2>1, QuietEffect, <1>0 DEF QueuedOnce
<1>2. ASSUME NEW c \in Calls, Enqueue(c) PROVE QueuedOnce'
  <2>1. InQueue' = InQueue \cup {c} /\ Distinct(Contents)'
    BY <1>2, EnqueueEffect
  <2>2. InQueue \subseteq Calls
    BY UnrunFinite DEF Unrun
  <2>3. call'[c] = "load" /\ \A d \in Calls : d # c => call'[d] = call[d]
    BY <1>2 DEF Enqueue, TypeOK
  <2> QED BY <2>1, <2>2, <2>3 DEF QueuedOnce
<1>3. ASSUME NEW c \in Calls, CallMoves(c) PROVE QueuedOnce'
  <2>1. UNCHANGED chanVars
    BY <1>3 DEF CallMoves, RunDirect, Count, SendPanics, LoadRunning, ClaimWake,
       Post
  <2>2. c \in InQueue => call'[c] \in {"claim", "post", "waiting", "returned"}
    BY <1>3 DEF CallMoves, RunDirect, Count, SendPanics, LoadRunning, ClaimWake,
       Post, QueuedOnce, TypeOK, AfterWake
  <2>3. \A d \in Calls : d # c => call'[d] = call[d]
    BY <1>3 DEF CallMoves, RunDirect, Count, SendPanics, LoadRunning, ClaimWake,
       Post, TypeOK
  <2>4. InQueue \subseteq Calls
    BY UnrunFinite DEF Unrun
  <2> QED BY <2>1, <2>2, <2>3, <2>4, QuietEffect, <1>0 DEF QueuedOnce
<1>4. CASE TakeFunc \/ FlushTake
  <2>1. ChanRecv /\ call' = call
    BY <1>4 DEF TakeFunc, FlushTake
  <2> QED BY <2>1, RecvEffect DEF QueuedOnce
<1>5. CASE RunFunc \/ ForwardFunc \/ CloseQueue \/ UNCHANGED vars
  <2>1. call' = call /\ (UNCHANGED chanVars \/ ForwardFunc \/ CloseQueue)
    BY <1>5 DEF RunFunc, ForwardFunc, CloseQueue, vars
  <2> QED BY <2>1, QuietEffect, <1>0 DEF QueuedOnce
<1>6. CASE Signal \/ FlushSignal
  <2>1. UNCHANGED chanVars /\ call' = [call EXCEPT ![cur] = "returned"]
    BY <1>6 DEF Signal, FlushSignal
  <2>2. InQueue \subseteq Calls
    BY UnrunFinite DEF Unrun
  <2> QED BY <2>1, <2>2, QuietEffect, <1>0 DEF QueuedOnce, TypeOK
<1> QED BY <1>1, <1>2, <1>3, <1>4, <1>5, <1>6, NextCases

-----------------------------------------------------------------------------
(* The loop's place and the flags. *)

LEMMA PhasesStep ==
  ASSUME TypeOK, QueuedOnce, Phases, [Next]_vars
  PROVE  Phases'
<1> USE DEF callVars, loopFrame, callFrame, restFrame, quitVars, driverVars,
            Phases, ShutdownStates
<1>1. CASE Moves
  <2>1. UNCHANGED <<fwd, fate, cur>>
    BY <1>1, MovesFrame DEF chanVars
  <2>2. CASE Start
    BY <2>1, <2>2 DEF Start
  <2>3. CASE InitDriver
    BY <2>1, <2>3 DEF InitDriver
  <2>4. CASE StartHooks
    BY <2>1, <2>4 DEF StartHooks
  <2>5. CASE CreateWindow
    BY <2>1, <2>5 DEF CreateWindow
  <2>6. CASE DrainCheck
    BY <2>1, <2>6 DEF DrainCheck
  <2>7. CASE TakeDone
    BY <2>1, <2>7 DEF TakeDone
  <2>8. CASE NothingQueued
    BY <2>1, <2>8 DEF NothingQueued
  <2>9. CASE Pace
    BY <2>1, <2>9 DEF Pace
  <2>10. CASE PollEvents
    BY <2>1, <2>10 DEF PollEvents
  <2>11. CASE DrawFrame
    BY <2>1, <2>11 DEF DrawFrame
  <2>12. CASE RestIdle
    BY <2>1, <2>12 DEF RestIdle
  <2>13. CASE RestFrame
    BY <2>1, <2>13 DEF RestFrame
  <2>14. CASE RestNot
    BY <2>1, <2>14 DEF RestNot
  <2>15. CASE ReleaseClaim
    BY <2>1, <2>15 DEF ReleaseClaim
  <2>16. CASE Recheck
    BY <2>1, <2>16 DEF Recheck
  <2>17. CASE WakeUp
    BY <2>1, <2>17 DEF WakeUp
  <2>18. CASE FrameTimeout
    BY <2>1, <2>18 DEF FrameTimeout
  <2>19. CASE IdleTimeout
    BY <2>1, <2>19 DEF IdleTimeout
  <2>20. CASE RunCallbacks
    BY <2>1, <2>20 DEF RunCallbacks
  <2>21. CASE Terminate
    BY <2>1, <2>21 DEF Terminate
  <2>22. CASE FlushEnd
    BY <2>1, <2>22 DEF FlushEnd
  <2>23. CASE SetDrained
    BY <2>1, <2>23 DEF SetDrained
  <2>24. CASE QuitSwap
    BY <2>1, <2>24 DEF QuitSwap
  <2>25. CASE QuitClose
    BY <2>1, <2>25 DEF QuitClose
  <2>26. CASE QuitPost
    BY <2>1, <2>26 DEF QuitPost
  <2>27. CASE Input
    BY <2>1, <2>27 DEF Input
  <2>28. CASE Tick
    BY <2>1, <2>28 DEF Tick
  <2> QED
    BY <1>1, <2>2, <2>3, <2>4, <2>5, <2>6, <2>7, <2>8, <2>9, <2>10, <2>11, <2>12,
       <2>13, <2>14, <2>15, <2>16, <2>17, <2>18, <2>19, <2>20, <2>21, <2>22,
       <2>23, <2>24, <2>25, <2>26, <2>27, <2>28 DEF Moves
<1>2. ASSUME NEW c \in Calls, CallMoves(c) \/ Enqueue(c) PROVE Phases'
  <2>1. UNCHANGED <<fwd, loop, cur, running, drained, quitVars, glfwUp>>
    BY <1>2 DEF CallMoves, RunDirect, Count, SendPanics, LoadRunning, ClaimWake,
       Post, Enqueue, ChanSend, chanVars
  <2>2. loop = "signal" => fate'[cur] = "ran"
    <3>1. CASE RunDirect(c)
      <4>1. loop = "signal" => ~drained
        OBVIOUS
      <4> QED BY <3>1, <4>1 DEF RunDirect, MayCall, OnMain
    <3>2. CASE ~RunDirect(c)
      <4>1. fate' = fate
        BY <1>2, <3>2 DEF CallMoves, Count, SendPanics, LoadRunning, ClaimWake,
           Post, Enqueue
      <4> QED BY <4>1
    <3> QED BY <3>1, <3>2
  <2> QED BY <2>1, <2>2
<1>3. CASE TakeFunc \/ FlushTake
  <2>1. Head(chout) \in Calls
    BY <1>3, RecvEffect DEF TakeFunc, FlushTake
  <2> QED BY <2>1, <1>3 DEF TakeFunc, FlushTake, ChanRecv
<1>4. CASE RunFunc
  BY <1>4 DEF RunFunc, chanVars, TypeOK
<1>5. CASE Signal \/ FlushSignal
  BY <1>5 DEF Signal, FlushSignal, chanVars
<1>6. CASE CloseQueue
  BY <1>6 DEF CloseQueue, ChanClose
<1>7. CASE ForwardFunc
  BY <1>7 DEF ForwardFunc, Forward, Accept, Push, CloseIn, CloseOut
<1>8. CASE UNCHANGED vars
  BY <1>8 DEF vars, chanVars
<1> QED BY <1>1, <1>2, <1>3, <1>4, <1>5, <1>6, <1>7, <1>8, NextCases

-----------------------------------------------------------------------------
(* pendingFuncs is exact until shutdown. *)

LEMMA CountStep ==
  ASSUME TypeOK, QueuedOnce, Phases, CountIsExact, [Next]_vars
  PROVE  CountIsExact'
<1> DEFINE Over == {"flush", "flushSignal", "setDrained", "close", "returned"}
<1> USE DEF callVars, loopFrame, quitVars
<1>0. ASSUME Unrun' = Unrun, pendingFuncs' = pendingFuncs,
             loop' \notin Over => loop \notin Over
      PROVE  CountIsExact'
  BY <1>0 DEF CountIsExact
<1>1. CASE Moves
  <2>1. UNCHANGED <<chanVars, call, pendingFuncs>>
    BY <1>1, MovesFrame
  <2>2. Unrun' = Unrun
    BY <2>1, QuietEffect DEF Unrun
  <2>3. loop' \notin Over => loop \notin Over
    BY <1>1 DEF Moves, Start, InitDriver, StartHooks, CreateWindow, DrainCheck,
       TakeDone, NothingQueued, Pace, PollEvents, DrawFrame, RestIdle,
       RestFrame, RestNot, ReleaseClaim, Recheck, WakeUp, FrameTimeout,
       IdleTimeout, RunCallbacks, Terminate, FlushEnd, SetDrained, QuitSwap,
       QuitClose, QuitPost, Input, Tick, callFrame
  <2> QED BY <2>1, <2>2, <2>3, <1>0
<1>2. ASSUME NEW c \in Calls, Count(c) PROVE CountIsExact'
  <2>1. UNCHANGED chanVars /\ call[c] = "idle" /\ call'[c] = "send"
        /\ \A d \in Calls : d # c => call'[d] = call[d]
    BY <1>2 DEF Count, TypeOK
  <2>2. c \notin InQueue
    BY <2>1 DEF QueuedOnce
  <2>3. Unrun' = Unrun \cup {c} /\ c \notin Unrun
    BY <2>1, <2>2, QuietEffect DEF Unrun
  <2>4. IsFiniteSet(Unrun) /\ Cardinality(Unrun) \in Nat
    BY UnrunFinite, FS_CardinalityType
  <2>5. Cardinality(Unrun') = Cardinality(Unrun) + 1
    BY <2>3, <2>4, FS_AddElement
  <2> QED BY <2>5, <1>2 DEF Count, CountIsExact
<1>3. ASSUME NEW c \in Calls, Enqueue(c) PROVE CountIsExact'
  <2>1. InQueue' = InQueue \cup {c}
    BY <1>3, EnqueueEffect
  <2>2. call[c] = "send" /\ call'[c] = "load"
        /\ \A d \in Calls : d # c => call'[d] = call[d]
    BY <1>3 DEF Enqueue, TypeOK
  <2>3. Unrun' = Unrun
    BY <2>1, <2>2 DEF Unrun
  <2> QED BY <2>3, <1>0, <1>3 DEF Enqueue, driverVars
<1>4. ASSUME NEW c \in Calls, SendPanics(c) PROVE CountIsExact'
  BY <1>4 DEF SendPanics, InOpen, Phases, CountIsExact
<1>5. ASSUME NEW c \in Calls,
             RunDirect(c) \/ LoadRunning(c) \/ ClaimWake(c) \/ Post(c)
      PROVE  CountIsExact'
  <2>1. UNCHANGED <<chanVars, loop, pendingFuncs>>
    BY <1>5 DEF RunDirect, LoadRunning, ClaimWake, Post, driverVars
  <2>2. call[c] # "send" /\ call'[c] # "send"
        /\ \A d \in Calls : d # c => call'[d] = call[d]
    BY <1>5 DEF RunDirect, LoadRunning, ClaimWake, Post, TypeOK, AfterWake
  <2>3. Unrun' = Unrun
    BY <2>1, <2>2, QuietEffect DEF Unrun
  <2> QED BY <2>1, <2>3, <1>0
<1>6. CASE TakeFunc
  BY <1>6, TakeCounts DEF CountIsExact
<1>7. CASE FlushTake
  BY <1>7 DEF FlushTake, CountIsExact
<1>8. CASE RunFunc \/ ForwardFunc \/ CloseQueue \/ UNCHANGED vars
  <2>1. /\ call' = call /\ pendingFuncs' = pendingFuncs
        /\ UNCHANGED chanVars \/ ForwardFunc \/ CloseQueue
        /\ loop' \notin Over => loop \notin Over
    BY <1>8 DEF RunFunc, ForwardFunc, CloseQueue, vars, driverVars
  <2>2. Unrun' = Unrun
    BY <2>1, QuietEffect DEF Unrun
  <2> QED BY <2>1, <2>2, <1>0
<1>9. CASE Signal \/ FlushSignal
  <2>1. /\ UNCHANGED chanVars /\ pendingFuncs' = pendingFuncs
        /\ call[cur] = "waiting" /\ call' = [call EXCEPT ![cur] = "returned"]
        /\ loop' \notin Over => loop \notin Over
    BY <1>9 DEF Signal, FlushSignal, driverVars
  <2>2. \A d \in Calls : call'[d] = "send" <=> call[d] = "send"
    BY <2>1 DEF TypeOK
  <2>3. Unrun' = Unrun
    BY <2>1, <2>2, QuietEffect DEF Unrun
  <2> QED BY <2>1, <2>3, <1>0
<1> QED
  BY <1>1, <1>2, <1>3, <1>4, <1>5, <1>6, <1>7, <1>8, <1>9, NextCases
  DEF CallMoves

-----------------------------------------------------------------------------
(* The wake protocol. *)

(* A wake on its way stays so until the loop takes it. *)
LEMMA WakeStays ==
  ASSUME TypeOK, Phases, [Next]_vars, WakeOnItsWay,
         loop \in {"recheck", "parked"}, loop' \in {"recheck", "parked"}
  PROVE  WakeOnItsWay'
<1> USE DEF callVars, loopFrame, callFrame, quitVars
<1>1. CASE quit # "none"
  <2>1. quit' # "none"
    BY <1>1 DEF Next, LoopStep, Drain, Pass, Park, Shutdown, QuitStep, CallStep,
       Start, InitDriver, StartHooks, CreateWindow, DrainCheck, TakeDone,
       NothingQueued, Pace, PollEvents, DrawFrame, RestIdle, RestFrame,
       RestNot, ReleaseClaim, Recheck, WakeUp, FrameTimeout, IdleTimeout,
       RunCallbacks, Terminate, FlushEnd, SetDrained, QuitSwap, QuitClose,
       QuitPost, Input, Tick, restFrame, TakeFunc, RunFunc, Signal, FlushTake,
       FlushSignal, CloseQueue, ForwardFunc, vars, RunDirect, Count, Enqueue,
       SendPanics, LoadRunning, ClaimWake, Post
  <2> QED BY <2>1 DEF WakeOnItsWay
<1>2. CASE osEvent /\ quit = "none"
  <2>1. CASE Moves
    BY <2>1, <1>2 DEF Moves, Start, InitDriver, StartHooks, CreateWindow,
       DrainCheck, TakeDone, NothingQueued, Pace, PollEvents, DrawFrame,
       RestIdle, RestFrame, RestNot, ReleaseClaim, Recheck, WakeUp,
       FrameTimeout, IdleTimeout, RunCallbacks, Terminate, FlushEnd, SetDrained,
       QuitSwap, QuitClose, QuitPost, Input, Tick, WakeOnItsWay
  <2>2. CASE ~Moves
    <3>1. osEvent' = osEvent \/ osEvent' = (osEvent \/ glfwUp)
      BY <2>2, NextCases DEF TakeFunc, RunFunc, Signal, FlushTake, FlushSignal,
         CloseQueue, ForwardFunc, vars, CallMoves, RunDirect, Count, Enqueue,
         SendPanics, LoadRunning, ClaimWake, Post
    <3> QED BY <3>1, <1>2 DEF WakeOnItsWay
  <2> QED BY <2>1, <2>2
<1>3. ASSUME NEW d \in Calls, call[d] = "post" PROVE WakeOnItsWay'
  <2>1. CASE Moves
    BY <2>1, <1>3, MovesFrame DEF WakeOnItsWay
  <2>2. ASSUME NEW c \in Calls, CallMoves(c) \/ Enqueue(c), c # d
        PROVE  WakeOnItsWay'
    <3>1. call'[d] = call[d]
      BY <2>2 DEF CallMoves, RunDirect, Count, SendPanics, LoadRunning,
         ClaimWake, Post, Enqueue, TypeOK
    <3> QED BY <3>1, <1>3 DEF WakeOnItsWay
  <2>3. CASE CallMoves(d) \/ Enqueue(d)
    <3>1. Post(d)
      BY <2>3, <1>3 DEF CallMoves, RunDirect, Count, SendPanics, LoadRunning,
         ClaimWake, Enqueue
    <3>2. glfwUp
      BY DEF Phases, ShutdownStates
    <3> QED BY <3>1, <3>2 DEF Post, WakeOnItsWay
  <2>4. CASE \/ TakeFunc \/ RunFunc \/ Signal \/ FlushTake \/ FlushSignal
             \/ CloseQueue
    BY <2>4 DEF TakeFunc, RunFunc, Signal, FlushTake, FlushSignal, CloseQueue
  <2>5. CASE ForwardFunc \/ UNCHANGED vars
    BY <2>5, <1>3 DEF ForwardFunc, vars, WakeOnItsWay
  <2> QED BY <2>1, <2>2, <2>3, <2>4, <2>5, NextCases
<1> QED BY <1>1, <1>2, <1>3 DEF WakeOnItsWay

(* Only these steps bring the loop to its wait or move a call past wakeLoop. *)
LEMMA ClaimStep ==
  ASSUME TypeOK, Phases, ClaimMeansWake, [Next]_vars
  PROVE  ClaimMeansWake'
<1> SUFFICES ASSUME loop' \in {"recheck", "parked"}, wakePosted'
             PROVE  WakeOnItsWay'
  BY DEF ClaimMeansWake
<1> USE DEF callVars, loopFrame, callFrame, quitVars, driverVars
<1>1. CASE loop \notin {"recheck", "parked"}
  <2>1. CASE Moves
    BY <2>1, <1>1 DEF Moves, Start, InitDriver, StartHooks, CreateWindow,
       DrainCheck, TakeDone, NothingQueued, Pace, PollEvents, DrawFrame,
       RestIdle, RestFrame, RestNot, ReleaseClaim, Recheck, WakeUp,
       FrameTimeout, IdleTimeout, RunCallbacks, Terminate, FlushEnd, SetDrained,
       QuitSwap, QuitClose, QuitPost, Input, Tick, restFrame
  <2>2. CASE ~Moves
    BY <2>2, <1>1, NextCases DEF TakeFunc, RunFunc, Signal, FlushTake,
       FlushSignal, CloseQueue, ForwardFunc, vars, CallMoves, RunDirect, Count,
       Enqueue, SendPanics, LoadRunning, ClaimWake, Post
  <2> QED BY <2>1, <2>2
<1>2. CASE loop \in {"recheck", "parked"} /\ wakePosted
  BY <1>2, WakeStays DEF ClaimMeansWake
<1>3. CASE loop \in {"recheck", "parked"} /\ ~wakePosted
  <2>1. PICK c \in Calls : ClaimWake(c)
    BY <1>3, NextCases DEF Moves, Start, InitDriver, StartHooks, CreateWindow,
       DrainCheck, TakeDone, NothingQueued, Pace, PollEvents, DrawFrame,
       RestIdle, RestFrame, RestNot, ReleaseClaim, Recheck, WakeUp,
       FrameTimeout, IdleTimeout, RunCallbacks, Terminate, FlushEnd, SetDrained,
       QuitSwap, QuitClose, QuitPost, Input, Tick, restFrame, TakeFunc,
       RunFunc, Signal, FlushTake, FlushSignal, CloseQueue, ForwardFunc, vars,
       CallMoves, RunDirect, Count, Enqueue, SendPanics, LoadRunning, Post
  <2>2. call'[c] = "post"
    BY <2>1, <1>3 DEF ClaimWake, TypeOK
  <2> QED BY <2>2 DEF WakeOnItsWay
<1> QED BY <1>1, <1>2, <1>3

LEMMA NoLostWakeStep ==
  ASSUME TypeOK, QueuedOnce, Phases, CountIsExact, ClaimMeansWake, NoLostWake,
         [Next]_vars
  PROVE  NoLostWake'
<1> SUFFICES ASSUME loop' = "parked", NEW d \in InQueue',
                    call'[d] \in {"waiting", "returned"}
             PROVE  WakeOnItsWay'
  BY DEF NoLostWake
<1> USE DEF callVars, loopFrame, callFrame, quitVars, driverVars
(* The loop parks only after it has seen pendingFuncs at zero. *)
<1>1. CASE loop # "parked"
  <2>1. Recheck
    BY <1>1, NextCases DEF Moves, Start, InitDriver, StartHooks, CreateWindow,
       DrainCheck, TakeDone, NothingQueued, Pace, PollEvents, DrawFrame,
       RestIdle, RestFrame, RestNot, ReleaseClaim, WakeUp, FrameTimeout,
       IdleTimeout, RunCallbacks, Terminate, FlushEnd, SetDrained, QuitSwap,
       QuitClose, QuitPost, Input, Tick, restFrame, TakeFunc, RunFunc, Signal,
       FlushTake, FlushSignal, CloseQueue, ForwardFunc, vars, CallMoves,
       RunDirect, Count, Enqueue, SendPanics, LoadRunning, ClaimWake, Post
  <2>2. pendingFuncs = 0 /\ UNCHANGED chanVars /\ loop = "recheck"
    BY <2>1 DEF Recheck, TypeOK
  <2>3. Cardinality(Unrun) = 0
    BY <2>2 DEF CountIsExact
  <2>4. Unrun = {}
    BY <2>3, UnrunFinite, FS_EmptySet
  <2>5. InQueue' = {}
    BY <2>2, <2>4, QuietEffect DEF Unrun
  <2> QED BY <2>5
(* While it is parked, a call gets past wakeLoop by finding the claim       *)
(* taken, by posting, or because Quit has begun.                            *)
<1>2. CASE loop = "parked"
  <2>1. d \in InQueue \/ \E c \in Calls : Enqueue(c) /\ d = c
    <3>1. CASE \E c \in Calls : Enqueue(c)
      BY <3>1, EnqueueEffect
    <3>2. CASE ~ \E c \in Calls : Enqueue(c)
      <4>1. UNCHANGED chanVars \/ ForwardFunc \/ CloseQueue
        BY <1>2, <3>2, NextCases, MovesFrame DEF TakeFunc, RunFunc, Signal,
           FlushTake, FlushSignal, vars, CallMoves, RunDirect, Count,
           SendPanics, LoadRunning, ClaimWake, Post
      <4> QED BY <4>1, QuietEffect
    <3> QED BY <3>1, <3>2
  <2>2. CASE WakeOnItsWay
    BY <2>2, <1>2, WakeStays
  <2>3. CASE ~WakeOnItsWay
    <3>1. InQueue \subseteq Calls
      BY UnrunFinite DEF Unrun
    <3>2. ~ \E c \in Calls : Enqueue(c) /\ d = c
      BY DEF Enqueue, TypeOK
    <3>3. d \in InQueue /\ d \in Calls
      BY <2>1, <3>1, <3>2
    <3>4. call[d] \notin {"waiting", "returned"}
      BY <1>2, <2>3, <3>3 DEF NoLostWake
    <3>5. call[d] \in {"load", "claim", "post"}
      BY <3>3, <3>4 DEF QueuedOnce
    <3>6. CallMoves(d)
      <4>1. call' # call
        BY <3>4
      <4>2. ASSUME NEW c \in Calls, CallMoves(c) \/ Enqueue(c) PROVE c = d
        BY <4>2, <3>3, <3>4 DEF CallMoves, Enqueue, RunDirect, Count, SendPanics,
           LoadRunning, ClaimWake, Post, TypeOK
      <4>3. \E c \in Calls : CallMoves(c) \/ Enqueue(c)
        BY <1>2, <4>1, NextCases, MovesFrame DEF TakeFunc, RunFunc, Signal,
           FlushTake, FlushSignal, CloseQueue, ForwardFunc, vars
      <4> QED BY <4>2, <4>3, <3>5 DEF Enqueue
    <3>7. running \/ quit # "none"
      BY <1>2 DEF Phases
    <3>8. ~wakePosted
      BY <1>2, <2>3 DEF ClaimMeansWake
    <3>9. call'[d] \notin {"waiting", "returned"}
      BY <3>3, <3>5, <3>6, <3>7, <3>8, <2>3 DEF CallMoves, RunDirect, Count,
         SendPanics, LoadRunning, ClaimWake, Post, TypeOK, WakeOnItsWay
    <3> QED BY <3>9
  <2> QED BY <2>2, <2>3
<1> QED BY <1>1, <1>2

-----------------------------------------------------------------------------
(* DoAndWait waits. *)

LEMMA WaitedStep ==
  ASSUME TypeOK, QueuedOnce, Phases, WaitedIsRun, [Next]_vars
  PROVE  WaitedIsRun'
<1> SUFFICES ASSUME NEW d \in WaitCalls, call'[d] = "returned", quit' = "none"
             PROVE  fate'[d] = "ran"
  BY DEF WaitedIsRun
<1> USE DEF callVars, loopFrame, callFrame, quitVars, driverVars
<1>1. d \in Calls /\ d \notin MainCalls
  BY CallsAssumption
<1>2. CASE Moves
  <2>1. quit = "none"
    BY <1>2 DEF Moves, Start, InitDriver, StartHooks, CreateWindow, DrainCheck,
       TakeDone, NothingQueued, Pace, PollEvents, DrawFrame, RestIdle,
       RestFrame, RestNot, ReleaseClaim, Recheck, WakeUp, FrameTimeout,
       IdleTimeout, RunCallbacks, Terminate, FlushEnd, SetDrained, QuitSwap,
       QuitClose, QuitPost, Input, Tick, restFrame
  <2> QED BY <2>1, <1>2, MovesFrame DEF WaitedIsRun
<1>3. quit' = quit => quit = "none"
  OBVIOUS
<1>4. ASSUME NEW c \in Calls, CallMoves(c) \/ Enqueue(c)
      PROVE  fate'[d] = "ran"
  <2>1. quit = "none"
    BY <1>4 DEF CallMoves, RunDirect, Count, SendPanics, LoadRunning, ClaimWake,
       Post, Enqueue
  <2>2. ~drained
    BY <2>1 DEF Phases, ShutdownStates
  <2>3. CASE c = d
    BY <2>2, <2>3, <1>1, <1>4 DEF CallMoves, RunDirect, Count, SendPanics,
       LoadRunning, ClaimWake, Post, Enqueue, AfterWake, TypeOK
  <2>4. CASE c # d
    <3>1. call'[d] = call[d] /\ fate'[d] = fate[d]
      BY <2>4, <1>1, <1>4 DEF CallMoves, RunDirect, Count, SendPanics,
         LoadRunning, ClaimWake, Post, Enqueue, TypeOK
    <3> QED BY <3>1, <2>1 DEF WaitedIsRun
  <2> QED BY <2>3, <2>4
<1>5. CASE TakeFunc \/ CloseQueue \/ ForwardFunc \/ UNCHANGED vars
  BY <1>5 DEF TakeFunc, CloseQueue, ForwardFunc, vars, WaitedIsRun
<1>6. CASE RunFunc
  <2>1. call' = call /\ quit' = quit /\ fate' = [fate EXCEPT ![cur] = "ran"]
    BY <1>6 DEF RunFunc
  <2> QED BY <2>1, <1>1 DEF WaitedIsRun, TypeOK
<1>7. CASE Signal
  <2>1. /\ fate' = fate /\ quit' = quit
        /\ call' = [call EXCEPT ![cur] = "returned"]
        /\ fate[cur] = "ran"
    BY <1>7 DEF Signal, Phases
  <2> QED BY <2>1, <1>1 DEF WaitedIsRun, TypeOK
<1>8. CASE FlushTake \/ FlushSignal
  BY <1>8 DEF FlushTake, FlushSignal, Phases, ShutdownStates
<1> QED BY <1>2, <1>4, <1>5, <1>6, <1>7, <1>8, NextCases

-----------------------------------------------------------------------------
(* IInv holds at the start and every step keeps it. *)

LEMMA InitInv == Init => IInv
<1> SUFFICES ASSUME Init PROVE IInv
  OBVIOUS
<1>1. Contents = <<>>
  BY ConcatEmptySeq, EmptySeq DEF Init, ChanInit, Contents
<1>2. InQueue = {}
  BY <1>1, EmptySeq DEF InQueue, Elements
<1>3. Unrun = {}
  BY <1>2 DEF Unrun, Init
<1>4. TypeOK
  BY EmptySeq DEF Init, ChanInit, TypeOK, ChanTypeOK, FwdStates, LoopStates,
     CallStates, Fates
<1>5. QueuedOnce
  BY <1>1, <1>2, EmptySeq DEF QueuedOnce, Distinct
<1>6. CountIsExact
  BY <1>3, FS_EmptySet DEF CountIsExact, Init
<1>7. Phases /\ ClaimMeansWake /\ NoLostWake
  BY DEF Init, ChanInit, Phases, ClaimMeansWake, NoLostWake, ShutdownStates
<1>8. WaitedIsRun
  BY CallsAssumption DEF Init, WaitedIsRun
<1> QED BY <1>4, <1>5, <1>6, <1>7, <1>8 DEF IInv

LEMMA StepInv == IInv /\ [Next]_vars => IInv'
BY TypeStep, QueuedStep, PhasesStep, CountStep, ClaimStep, NoLostWakeStep,
   WaitedStep DEF IInv

(* The inductive invariant, for any finite set of calls: what loop.go 222-  *)
(* 245 argues of the claim, and what drainFuncQueue assumes of the count.   *)
THEOREM Inductive == Spec => []IInv
<1>1. Init => IInv
  BY InitInv
<1>2. IInv /\ [Next]_vars => IInv'
  BY StepInv
<1> QED BY <1>1, <1>2, PTL DEF Spec

(* Every variable keeps its type; pendingFuncs never goes negative.         *)
THEOREM TypeCorrect == Spec => []TypeOK
<1>1. IInv => TypeOK
  BY DEF IInv
<1> QED BY <1>1, Inductive, PTL

(* No wake-up is lost: the loop never waits over a func that every caller   *)
(* believes it has been woken for (runOnMainWithWait, wakeLoop, runGL).     *)
THEOREM WakeNeverLost == Spec => []NoLostWake
<1>1. IInv => NoLostWake
  BY DEF IInv
<1> QED BY <1>1, Inductive, PTL

(* pendingFuncs is the number of funcs counted and not yet taken, all the   *)
(* way to shutdown (drainFuncQueue).                                        *)
THEOREM PendingIsExact == Spec => []CountIsExact
<1>1. IInv => CountIsExact
  BY DEF IInv
<1> QED BY <1>1, Inductive, PTL

(* Until Quit, DoAndWait returns only after its func ran on the loop.       *)
THEOREM WaitedFuncsRan == Spec => []WaitedIsRun
<1>1. IInv => WaitedIsRun
  BY DEF IInv
<1> QED BY <1>1, Inductive, PTL

-----------------------------------------------------------------------------
(*-- The end of the application --------------------------------------------*)

(* What the application does is a step of the driver loop or leaves it be. *)

LEMMA AppStepIsLoopStep ==
  ASSUME AppTypeOK, [AppNext]_<<vars, appVars>>
  PROVE  [Next]_vars
<1>1. CASE DriverStep
  BY <1>1 DEF DriverStep
<1>2. CASE RunnerCall
  <2>1. runner \in Calls
    BY <1>2, EventAssumption, CallsAssumption DEF RunnerCall, AppTypeOK, EventCalls
  <2> QED BY <1>2, <2>1 DEF RunnerCall, Next
<1>3. CASE \/ RunnerTake \/ RunnerNext \/ WaitForEvents \/ RunReturn
           \/ UNCHANGED <<vars, appVars>>
  <2>1. UNCHANGED vars
    BY <1>3 DEF RunnerTake, RunnerNext, WaitForEvents, RunReturn
  <2> QED BY <2>1
<1> QED BY <1>1, <1>2, <1>3 DEF AppNext, AppStep

-----------------------------------------------------------------------------
(* The steps of the loop that move it on, and the calls they leave. *)

(* The loop ends by Terminate alone, and for good; what has returned stays  *)
(* returned.                                                                *)
LEMMA LoopEnds ==
  ASSUME TypeOK, [Next]_vars
  PROVE  /\ loop' \in Ended =>
              loop \in Ended \/ (loop = "terminate" /\ loop' = "flush")
         /\ loop = "returned" => loop' = "returned"
         /\ \A c \in Calls : call[c] = "returned" => call'[c] = "returned"
<1> DEFINE Goes == /\ loop' \in Ended =>
                        loop \in Ended \/ (loop = "terminate" /\ loop' = "flush")
                   /\ loop = "returned" => loop' = "returned"
           Stays == \A c \in Calls : call[c] = "returned" => call'[c] = "returned"
<1>1. CASE Moves
  <2>1. Stays
    BY <1>1, MovesFrame
  <2>2. Goes
    BY <1>1 DEF Moves, Ended, Start, InitDriver, StartHooks, CreateWindow,
       DrainCheck, TakeDone, NothingQueued, Pace, PollEvents, DrawFrame,
       RestIdle, RestFrame, RestNot, ReleaseClaim, Recheck, WakeUp,
       FrameTimeout, IdleTimeout, RunCallbacks, Terminate, FlushEnd,
       SetDrained, QuitSwap, QuitClose, QuitPost, Input, Tick, callFrame
  <2> QED BY <2>1, <2>2
<1>2. ASSUME NEW c \in Calls, CallMoves(c) \/ Enqueue(c)
      PROVE  Goes /\ Stays
  <2>1. loop' = loop
    BY <1>2 DEF CallMoves, RunDirect, Count, SendPanics, LoadRunning, ClaimWake,
       Post, Enqueue
  <2>2. /\ call[c] # "returned"
        /\ \E s : call' = [call EXCEPT ![c] = s]
    BY <1>2 DEF CallMoves, RunDirect, Count, SendPanics, LoadRunning, ClaimWake,
       Post, Enqueue
  <2>3. Stays
    BY <2>2 DEF TypeOK
  <2> QED BY <2>1, <2>3
<1>3. CASE TakeFunc \/ FlushTake \/ CloseQueue \/ ForwardFunc
  <2>1. call' = call
    BY <1>3 DEF TakeFunc, FlushTake, CloseQueue, ForwardFunc, loopFrame, callVars
  <2>2. Goes
    BY <1>3 DEF TakeFunc, FlushTake, CloseQueue, ForwardFunc, Ended
  <2> QED BY <2>1, <2>2
<1>4. CASE RunFunc
  BY <1>4 DEF RunFunc, Ended
<1>5. CASE Signal \/ FlushSignal
  <2>1. /\ call[cur] # "returned"
        /\ call' = [call EXCEPT ![cur] = "returned"]
    BY <1>5 DEF Signal, FlushSignal
  <2>2. Stays
    BY <2>1 DEF TypeOK
  <2>3. Goes
    BY <1>5 DEF Signal, FlushSignal, Ended
  <2> QED BY <2>2, <2>3
<1>6. CASE UNCHANGED vars
  BY <1>6 DEF vars, callVars
<1> QED BY <1>1, <1>2, <1>3, <1>4, <1>5, <1>6, NextCases

-----------------------------------------------------------------------------
(* The event queue: it grows at the end and shrinks in front. *)

LEMMA EventAppend ==
  ASSUME NEW e \in EventCalls, AppTypeOK, events' = Append(events, e)
  PROVE  /\ events' \in Seq(EventCalls)
         /\ Elements(events') = Elements(events) \cup {e}
         /\ WaiterIsLast /\ (e = Stopped => Waiter \notin Elements(events))
              => WaiterIsLast'
<1>1. events \in Seq(EventCalls)
  BY DEF AppTypeOK
<1>2. /\ Len(events) \in Nat
      /\ Len(events') = Len(events) + 1
      /\ \A i \in 1..Len(events) : events'[i] = events[i]
      /\ events'[Len(events) + 1] = e
      /\ events' \in Seq(EventCalls)
  BY <1>1, AppendProperties, LenProperties
<1>3. Elements(events') = Elements(events) \cup {e}
  BY <1>1, ElementsAppend
<1>4. ASSUME WaiterIsLast, e = Stopped => Waiter \notin Elements(events)
      PROVE  WaiterIsLast'
  <2> SUFFICES ASSUME NEW i \in 1..Len(events'), NEW j \in 1..Len(events'),
                      events'[i] = Stopped, events'[j] = Waiter
               PROVE  i < j
    BY DEF WaiterIsLast
  <2>1. CASE j = Len(events) + 1
    <3>1. i # j
      BY EventAssumption
    <3> QED BY <2>1, <3>1, <1>2
  <2>2. CASE j \in 1..Len(events)
    <3>1. Waiter \in Elements(events)
      BY <2>2, <1>2 DEF Elements
    <3>2. i # Len(events) + 1
      BY <3>1, <1>2, <1>4
    <3>3. i \in 1..Len(events)
      BY <3>2, <1>2
    <3> QED BY <2>2, <3>3, <1>2, <1>4 DEF WaiterIsLast
  <2> QED BY <2>1, <2>2, <1>2
<1> QED BY <1>2, <1>3, <1>4

LEMMA EventTail ==
  ASSUME AppTypeOK, WaiterIsLast, events # <<>>, events' = Tail(events)
  PROVE  /\ events' \in Seq(EventCalls) /\ Head(events) \in EventCalls
         /\ Elements(events') \subseteq Elements(events)
         /\ Head(events) \in Elements(events)
         /\ Elements(events) \subseteq Elements(events') \cup {Head(events)}
         /\ Head(events) = Waiter => Stopped \notin Elements(events)
         /\ WaiterIsLast'
<1>1. events \in Seq(EventCalls)
  BY DEF AppTypeOK
<1>2. /\ Len(events) \in Nat \ {0}
      /\ Head(events) = events[1] /\ Head(events) \in EventCalls
      /\ Len(events') = Len(events) - 1
      /\ \A i \in 1..(Len(events) - 1) : events'[i] = events[i + 1]
      /\ events' \in Seq(EventCalls)
  BY <1>1, HeadTailProperties, EmptySeq
<1>3. \A i \in 1..(Len(events) - 1) : i + 1 \in 1..Len(events)
  BY <1>2
<1>4. \A i \in 1..Len(events) : i = 1 \/ (i - 1 \in 1..(Len(events) - 1)
                                          /\ (i - 1) + 1 = i)
  BY <1>2
<1>5. Elements(events') \subseteq Elements(events)
  BY <1>2, <1>3 DEF Elements
<1>6. 1 \in 1..Len(events)
  BY <1>2
<1>7. Head(events) \in Elements(events)
  BY <1>2, <1>6 DEF Elements
<1>8. ASSUME NEW x \in Elements(events)
      PROVE  x \in Elements(events') \cup {Head(events)}
  <2>1. PICK i \in 1..Len(events) : x = events[i]
    BY DEF Elements
  <2>2. CASE i = 1
    BY <2>1, <2>2, <1>2
  <2>3. CASE i - 1 \in 1..(Len(events) - 1) /\ (i - 1) + 1 = i
    <3>1. x = events'[i - 1]
      BY <2>1, <2>3, <1>2
    <3> QED BY <2>3, <3>1, <1>2 DEF Elements
  <2> QED BY <2>2, <2>3, <1>4
<1>9. ASSUME Head(events) = Waiter, Stopped \in Elements(events)
      PROVE  FALSE
  <2>1. PICK i \in 1..Len(events) : events[i] = Stopped
    BY <1>9 DEF Elements
  <2>2. i < 1
    BY <2>1, <1>2, <1>6, <1>9 DEF WaiterIsLast
  <2> QED BY <2>2
<1>10. WaiterIsLast'
  <2> SUFFICES ASSUME NEW i \in 1..Len(events'), NEW j \in 1..Len(events'),
                      events'[i] = Stopped, events'[j] = Waiter
               PROVE  i < j
    BY DEF WaiterIsLast
  <2>1. i + 1 < j + 1
    BY <1>2, <1>3 DEF WaiterIsLast
  <2> QED BY <2>1, <1>2
<1> QED BY <1>2, <1>5, <1>7, <1>8, <1>9, <1>10

-----------------------------------------------------------------------------
(* The inductive invariant. *)

LEMMA EventTypes == Stopped \in Calls /\ Waiter \in Calls
BY EventAssumption, CallsAssumption DEF EventCalls

LEMMA AppInitInv == AppInit => AppInv
<1> SUFFICES ASSUME AppInit PROVE AppInv
  OBVIOUS
<1>1. /\ Elements(events) = {} /\ Len(events) = 0 /\ events \in Seq(EventCalls)
  BY EmptySeq DEF AppInit, Elements
<1>2. WaiterIsLast
  BY <1>1 DEF WaiterIsLast
<1>3. AppTypeOK
  BY <1>1 DEF AppInit, AppTypeOK
<1>4. WaiterNotYet /\ WaiterFollows
  BY <1>1, EventTypes, EventAssumption
     DEF AppInit, Init, WaiterNotYet, WaiterFollows, EventCalls
<1> QED BY <1>2, <1>3, <1>4
        DEF AppInit, Init, AppInv, StoppedOnItsWay, StoppedBeforeExit, Ended

LEMMA DriverStepInv ==
  ASSUME AppInv, TypeOK, DriverStep
  PROVE  AppInv'
<1>1. /\ loop' \in Ended =>
           loop \in Ended \/ (loop = "terminate" /\ loop' = "flush")
      /\ loop = "returned" => loop' = "returned"
      /\ \A c \in Calls : call[c] = "returned" => call'[c] = "returned"
  BY LoopEnds DEF DriverStep
<1>2. call[Waiter] = "idle" => call'[Waiter] = "idle"
  BY DEF DriverStep, EventCalls
<1>3. runner' = runner /\ appExit' = appExit
  BY DEF DriverStep, appVars
<1>4. /\ WaiterFollows' /\ StoppedBeforeExit'
      /\ appExit' # "running" => loop' = "returned"
      /\ appExit' = "returned" => call'[Waiter] = "returned"
  BY <1>1, <1>2, <1>3, EventTypes DEF AppInv, WaiterFollows, StoppedBeforeExit
<1>5. CASE loop = "terminate" /\ loop' = "flush"
  <2>1. events' = Append(events, Stopped) /\ Stopped \in EventCalls
    BY <1>5 DEF DriverStep, EventCalls
  <2>2. appExit = "running" /\ Waiter \notin Elements(events)
    BY <1>5 DEF AppInv, WaiterNotYet
  <2>3. /\ events' \in Seq(EventCalls) /\ WaiterIsLast'
        /\ Elements(events') = Elements(events) \cup {Stopped}
    BY <2>1, <2>2, EventAppend DEF AppInv
  <2>4. AppTypeOK' /\ StoppedOnItsWay'
    BY <2>3, <1>3 DEF AppInv, AppTypeOK, StoppedOnItsWay
  <2>5. WaiterNotYet'
    BY <2>2, <2>3, <1>2, <1>3, EventAssumption DEF AppInv, WaiterNotYet
  <2> QED BY <1>4, <2>3, <2>4, <2>5 DEF AppInv
<1>6. CASE ~(loop = "terminate" /\ loop' = "flush")
  <2>1. events' = events
    BY <1>6 DEF DriverStep
  <2>2. AppTypeOK' /\ WaiterIsLast' /\ StoppedOnItsWay' /\ WaiterNotYet'
    BY <2>1, <1>1, <1>2, <1>3, <1>6, EventTypes
       DEF AppInv, AppTypeOK, WaiterIsLast, StoppedOnItsWay, WaiterNotYet
  <2> QED BY <1>4, <2>2 DEF AppInv
<1> QED BY <1>5, <1>6

LEMMA AppStepInv ==
  ASSUME AppInv, TypeOK, AppStep
  PROVE  AppInv'
<1>1. CASE RunnerTake
  <2>1. /\ runner = "none" /\ events # <<>>
        /\ runner' = Head(events) /\ events' = Tail(events)
        /\ call' = call /\ loop' = loop /\ appExit' = appExit
    BY <1>1 DEF RunnerTake, vars, callVars
  <2>2. /\ events' \in Seq(EventCalls) /\ Head(events) \in EventCalls
        /\ Elements(events') \subseteq Elements(events)
        /\ Head(events) \in Elements(events)
        /\ Elements(events) \subseteq Elements(events') \cup {Head(events)}
        /\ Head(events) = Waiter => Stopped \notin Elements(events)
        /\ WaiterIsLast'
    BY <2>1, EventTail DEF AppInv
  <2>3. AppTypeOK' /\ WaiterNotYet'
    BY <2>1, <2>2 DEF AppInv, AppTypeOK, WaiterNotYet
  <2>4. StoppedOnItsWay'
    BY <2>1, <2>2, EventAssumption DEF AppInv, StoppedOnItsWay, EventCalls
  <2>5. WaiterFollows'
    <3>1. CASE Head(events) = Waiter
      <4>1. loop = "returned"
        BY <3>1, <2>1, <2>2 DEF AppInv, WaiterNotYet
      <4>2. Stopped \notin Elements(events) /\ runner # Stopped
        BY <3>1, <2>1, <2>2, EventAssumption DEF EventCalls
      <4>3. call[Stopped] = "returned"
        BY <4>1, <4>2 DEF AppInv, StoppedOnItsWay, Ended
      <4> QED BY <4>3, <2>1 DEF WaiterFollows
    <3>2. CASE Head(events) # Waiter
      BY <3>2, <2>1 DEF AppInv, WaiterFollows
    <3> QED BY <3>1, <3>2
  <2> QED BY <2>1, <2>2, <2>3, <2>4, <2>5 DEF AppInv, StoppedBeforeExit
<1>2. CASE RunnerCall
  <2>1. /\ events' = events /\ runner' = runner /\ appExit' = appExit
        /\ loop' = loop
        /\ runner \in EventCalls /\ call[runner] = "idle"
        /\ \E s : call' = [call EXCEPT ![runner] = s]
    BY <1>2 DEF RunnerCall, RunDirect, Count, appVars, AppInv, AppTypeOK
  <2>2. \A c \in Calls : c # runner => call'[c] = call[c]
    BY <2>1 DEF TypeOK
  <2>3. call[Stopped] = "returned" => call'[Stopped] = "returned"
    BY <2>1, <2>2, EventTypes
  <2>4. call[Waiter] = "returned" => call'[Waiter] = "returned"
    BY <2>1, <2>2, EventTypes
  <2>5. AppTypeOK' /\ WaiterIsLast' /\ StoppedOnItsWay'
    BY <2>1, <2>3 DEF AppInv, AppTypeOK, WaiterIsLast, StoppedOnItsWay
  <2>6. WaiterNotYet'
    BY <2>1, <2>2, EventTypes DEF AppInv, WaiterNotYet
  <2>7. WaiterFollows'
    <3>1. CASE runner = Waiter
      BY <3>1, <2>1, <2>3 DEF AppInv, WaiterFollows
    <3>2. CASE runner # Waiter
      BY <3>2, <2>1, <2>2, <2>3, EventTypes DEF AppInv, WaiterFollows
    <3> QED BY <3>1, <3>2
  <2> QED BY <2>1, <2>3, <2>4, <2>5, <2>6, <2>7 DEF AppInv, StoppedBeforeExit
<1>3. CASE RunnerNext
  <2>1. /\ call[runner] = "returned" /\ runner' = "none"
        /\ UNCHANGED <<call, loop, events, appExit>>
    BY <1>3 DEF RunnerNext, vars, callVars
  <2>2. AppTypeOK' /\ WaiterIsLast' /\ StoppedOnItsWay'
    BY <2>1 DEF AppInv, AppTypeOK, WaiterIsLast, StoppedOnItsWay
  <2>3. WaiterNotYet' /\ WaiterFollows'
    BY <2>1, EventAssumption DEF AppInv, WaiterNotYet, WaiterFollows, EventCalls
  <2> QED BY <2>1, <2>2, <2>3 DEF AppInv, StoppedBeforeExit
<1>4. CASE WaitForEvents
  <2>1. /\ loop = "returned" /\ appExit = "running" /\ appExit' = "waiting"
        /\ events' = Append(events, Waiter) /\ Waiter \in EventCalls
        /\ UNCHANGED <<call, loop, runner>>
    BY <1>4 DEF WaitForEvents, vars, callVars, EventCalls
  <2>2. /\ events' \in Seq(EventCalls) /\ WaiterIsLast'
        /\ Elements(events') = Elements(events) \cup {Waiter}
    BY <2>1, EventAppend, EventAssumption DEF AppInv
  <2>3. AppTypeOK' /\ StoppedOnItsWay' /\ WaiterNotYet' /\ WaiterFollows'
    BY <2>1, <2>2 DEF AppInv, AppTypeOK, StoppedOnItsWay, WaiterNotYet,
                      WaiterFollows
  <2> QED BY <2>1, <2>2, <2>3 DEF AppInv, StoppedBeforeExit
<1>5. CASE RunReturn
  <2>1. /\ call[Waiter] = "returned" /\ appExit = "waiting"
        /\ appExit' = "returned"
        /\ UNCHANGED <<call, loop, runner, events>>
    BY <1>5 DEF RunReturn, vars, callVars
  <2>2. call[Stopped] = "returned"
    BY <2>1 DEF AppInv, WaiterFollows
  <2>3. /\ AppTypeOK' /\ WaiterIsLast' /\ StoppedOnItsWay' /\ WaiterNotYet'
        /\ WaiterFollows'
    BY <2>1 DEF AppInv, AppTypeOK, WaiterIsLast, StoppedOnItsWay, WaiterNotYet,
                WaiterFollows
  <2> QED BY <2>1, <2>2, <2>3 DEF AppInv, StoppedBeforeExit
<1> QED BY <1>1, <1>2, <1>3, <1>4, <1>5 DEF AppStep

LEMMA AppStutterInv ==
  ASSUME AppInv, UNCHANGED <<vars, appVars>>
  PROVE  AppInv'
<1>1. UNCHANGED <<call, loop, events, runner, appExit>>
  BY DEF vars, callVars, appVars
<1> QED BY <1>1 DEF AppInv, AppTypeOK, WaiterIsLast, StoppedOnItsWay,
                    WaiterNotYet, WaiterFollows, StoppedBeforeExit

(* The driver loop keeps its invariant in the application, and the events   *)
(* theirs.                                                                  *)
THEOREM AppInductive == AppSpec => [](IInv /\ AppInv)
<1>1. AppInit => IInv /\ AppInv
  BY InitInv, AppInitInv DEF AppInit
<1>2. IInv /\ AppInv /\ [AppNext]_<<vars, appVars>> => (IInv /\ AppInv)'
  <2> SUFFICES ASSUME IInv, AppInv, [AppNext]_<<vars, appVars>>
               PROVE  IInv' /\ AppInv'
    OBVIOUS
  <2>1. IInv'
    BY AppStepIsLoopStep, StepInv DEF AppInv
  <2>2. TypeOK
    BY DEF IInv
  <2>3. AppInv'
    BY <2>2, DriverStepInv, AppStepInv, AppStutterInv DEF AppNext
  <2> QED BY <2>1, <2>3
<1> QED BY <1>1, <1>2, PTL DEF AppSpec

(* The types of the event queue, of its runner and of Run's progress.       *)
THEOREM AppTypeCorrect == AppSpec => []AppTypeOK
<1>1. AppInv => AppTypeOK
  BY DEF AppInv
<1> QED BY <1>1, AppInductive, PTL

(* Run returns only once the OnStopped event, and with it the saving of the *)
(* preferences, is over (driver.go 183-202, lifecycle.go).                  *)
THEOREM NoExitBeforeStopped == AppSpec => []StoppedBeforeExit
<1>1. AppInv => StoppedBeforeExit
  BY DEF AppInv
<1> QED BY <1>1, AppInductive, PTL

(* The application's driver is the one MainLoop describes: each of its      *)
(* steps is a step of the loop or none, so what is proved of the loop holds *)
(* of the application (driver.go 183-202 around loop.go).                   *)
THEOREM DriverIsMainLoop == AppSpec => Spec
<1>1. AppInit => Init
  BY DEF AppInit
<1>2. IInv /\ AppInv /\ [AppNext]_<<vars, appVars>> => [Next]_vars
  BY AppStepIsLoopStep DEF AppInv
<1> QED BY <1>1, <1>2, AppInductive, PTL DEF AppSpec, Spec
===============================================================================
