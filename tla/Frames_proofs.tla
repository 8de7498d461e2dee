---------------------------- MODULE Frames_proofs ----------------------------
(****************************************************************************)
(* Theorems about what the loop does in a frame.                            *)
(*                                                                          *)
(* WindowFrames, for every build and every timeout: the kick always finds   *)
(* room, and no frame is painted early.  PaceInv says why: until the frame  *)
(* is taken its wait is outstanding.                                        *)
(*                                                                          *)
(* AnimationRunner, for every set of animations and every number of         *)
(* starts: the exchange of the lists keeps each animation once, and a Stop  *)
(* reaches what is held.                                                    *)
(****************************************************************************)
EXTENDS WindowFrames, AnimationRunner, FiniteSetTheorems, FunctionTheorems,
        SequenceTheorems, TLAPS

(* The type invariant in two parts: the places and the flags. *)
Places == /\ loop \in {"drain", "poll", "tick", "swap", "rest", "asleep", "paused"}
          /\ life \in {"open", "closing", "destroyed"}
          /\ gate \in Gates
          /\ waiter \in {"select", "blank", "store", "closed"}
          /\ age \in 0..(GateTimeout + 1)

Flags == {due, visible, dirty, vsync, interval, waiting, kick, dead,
          owed, taken, excused} \subseteq BOOLEAN

GateInv == TypeOK /\ KickMeansWaiting

LEMMA TypeParts == TypeOK <=> Places /\ Flags
BY Zenon DEF TypeOK, Places, Flags

LEMMA InitHolds == Init => GateInv
<1>1. Init => Places
  BY GatesAssumption DEF Init, Places
<1>2. Init => Flags
  BY Zenon DEF Init, Flags
<1>3. Init => KickMeansWaiting
  BY DEF Init, KickMeansWaiting
<1> QED BY <1>1, <1>2, <1>3, TypeParts DEF GateInv

LEMMA PresentFlags ==
  ASSUME Flags, Present, interval' \in BOOLEAN
  PROVE  {waiting', kick', dead', taken', excused'} \subseteq BOOLEAN
<1>1. CASE Arm
  BY <1>1, Zenon DEF Arm, Present, Flags
<1>2. CASE NotArmed
  BY <1>2, Zenon DEF NotArmed, Present, Flags, gateVars
<1> QED BY <1>1, <1>2 DEF Present

LEMMA FlagsKeep == Flags /\ [Next]_vars => Flags'
<1> SUFFICES ASSUME Flags, [Next]_vars PROVE Flags'
  OBVIOUS
<1> USE DEF app, gateVars, pacing, ghosts, InApp
<1>1. CASE Refresh \/ Hide \/ Close
  BY <1>1, Zenon DEF Flags, Refresh, Hide, Close
<1>2. CASE FocusGained \/ SetVSync
  BY <1>2, Zenon DEF Flags, FocusGained, SetVSync
<1>3. CASE ShowAgain
  <2>1. interval' \in BOOLEAN
    BY <1>3, Zenon DEF ShowAgain
  <2> QED
    BY <1>3, <2>1, PresentFlags, Zenon DEF Flags, ShowAgain
<1>4. CASE TakeKick \/ Waited \/ CloseAdapter
  BY <1>4, Zenon DEF Flags, TakeKick, Waited, CloseAdapter
<1>5. CASE Blank \/ WaitFails \/ Answer
  BY <1>5, Zenon DEF Flags, Blank, WaitFails, Answer
<1>6. CASE PollEvents \/ WakeUp
  <2>1. {waiting', kick', dead'} \subseteq BOOLEAN
    BY <1>6, Zenon DEF Flags, PollEvents, WakeUp, Dispatch
  <2> QED
    BY <1>6, <2>1, Zenon DEF Flags, PollEvents, WakeUp
<1>7. CASE NotDue \/ CheckClosed
  BY <1>7, Zenon DEF Flags, NotDue, CheckClosed
<1>8. CASE Repaint \/ NoRepaint \/ Rest
  BY <1>8, Zenon DEF Flags, Repaint, NoRepaint, Rest
<1>9. CASE Swap
  <2>1. interval' \in BOOLEAN
    BY <1>9, Zenon DEF Flags, Swap
  <2> QED
    BY <1>9, <2>1, PresentFlags, Zenon DEF Flags, Swap
<1>10. CASE Tick \/ UNCHANGED vars
  BY <1>10, Zenon DEF Flags, Tick, vars
<1> QED
  BY <1>1, <1>2, <1>3, <1>4, <1>5, <1>6, <1>7, <1>8, <1>9, <1>10
  DEF Next, App, LoopStep, Waiter

(* What presenting does to the gate is arming a wait or nothing. *)
LEMMA PresentKeeps ==
  ASSUME Places, KickMeansWaiting, Present, gate' = gate
  PROVE  /\ KickMeansWaiting'
         /\ waiter' \in {"select", "blank", "store", "closed"}
         /\ age' \in 0..(GateTimeout + 1)
<1> USE GatesAssumption DEF Places, KickMeansWaiting
<1>1. CASE Arm
  <2>1. CASE gate = "wayland"
    BY <1>1, <2>1 DEF Arm
  <2>2. CASE gate = "vblank"
    <3>1. ~waiting /\ waiting' = ~kick /\ kick' = TRUE /\ age' = 0
          /\ waiter' = waiter
      BY <1>1, <2>2 DEF Arm
    <3>2. ~kick /\ waiter \notin {"blank", "store"}
      BY <2>2, <3>1
    <3>3. waiting' = TRUE
      BY <3>1, <3>2, Zenon
    <3> QED BY <2>2, <3>1, <3>2, <3>3
  <2> QED BY <1>1, <2>1, <2>2 DEF Arm
<1>2. CASE NotArmed
  BY <1>2 DEF NotArmed, gateVars
<1> QED BY <1>1, <1>2 DEF Present

LEMMA DispatchKeeps ==
  ASSUME Places, KickMeansWaiting, Dispatch, gate' = gate
  PROVE  /\ KickMeansWaiting'
         /\ waiter' \in {"select", "blank", "store", "closed"}
         /\ age' \in 0..(GateTimeout + 1)
BY DEF Places, KickMeansWaiting, Dispatch, gateVars

LEMMA GateKeeps ==
  Places /\ KickMeansWaiting /\ [Next]_vars => Places' /\ KickMeansWaiting'
<1> SUFFICES ASSUME Places, KickMeansWaiting, [Next]_vars
             PROVE  Places' /\ KickMeansWaiting'
  OBVIOUS
<1> USE GatesAssumption
    DEF Places, KickMeansWaiting, app, gateVars, pacing, ghosts, InApp
<1>1. CASE Refresh \/ Hide \/ Close \/ FocusGained \/ SetVSync
  BY <1>1 DEF Refresh, Hide, Close, FocusGained, SetVSync
<1>2. CASE ShowAgain
  BY <1>2, PresentKeeps DEF ShowAgain
<1>3. CASE TakeKick \/ Waited \/ CloseAdapter
  BY <1>3 DEF TakeKick, Waited, CloseAdapter
<1>4. CASE Blank \/ WaitFails \/ Answer
  BY <1>4 DEF Blank, WaitFails, Answer
<1>5. CASE PollEvents \/ WakeUp
  BY <1>5, DispatchKeeps DEF PollEvents, WakeUp
<1>6. CASE NotDue \/ CheckClosed \/ Repaint \/ NoRepaint \/ Rest
  BY <1>6 DEF NotDue, CheckClosed, Repaint, NoRepaint, Rest
<1>7. CASE Swap
  BY <1>7, PresentKeeps DEF Swap
<1>8. CASE Tick
  BY <1>8 DEF Tick
<1>9. CASE UNCHANGED vars
  BY <1>9 DEF vars
<1> QED
  BY <1>1, <1>2, <1>3, <1>4, <1>5, <1>6, <1>7, <1>8, <1>9
  DEF Next, App, LoopStep, Waiter

LEMMA StepKeeps == GateInv /\ [Next]_vars => GateInv'
<1>1. TypeOK' <=> Places' /\ Flags'
  BY TypeParts, PTL
<1> QED BY <1>1, TypeParts, FlagsKeep, GateKeeps DEF GateInv

(* The variables of the gates keep their types. *)
THEOREM GateTypeCorrect == Spec => []TypeOK
<1>1. GateInv => TypeOK
  BY DEF GateInv
<1> QED BY <1>1, InitHolds, StepKeeps, PTL DEF Spec

(* A gate that is waiting has a kick or a wait under way that will open it, *)
(* and requestFrame always finds room for its kick (present_windows.go      *)
(* 153-168), whatever the timeout.                                          *)
THEOREM KickFollowsWaiting == Spec => []KickMeansWaiting
<1>1. GateInv => KickMeansWaiting
  BY DEF GateInv
<1> QED BY <1>1, InitHolds, StepKeeps, PTL DEF Spec

-----------------------------------------------------------------------------
(* The compositor has taken the last frame, or its wait is not over, unless *)
(* the frame is excused or a wait has failed.  A wait that is over but not  *)
(* yet stored no longer counts.                                             *)
PaceInv == gate # "none" => \/ taken \/ excused \/ dead
                            \/ waiting /\ waiter # "store"

LEMMA PresentPaces ==
  ASSUME Places, KickMeansWaiting, Present, gate' = gate
  PROVE  PaceInv'
<1>1. CASE Arm
  <2>1. CASE gate = "wayland"
    <3>1. waiting' /\ waiter' # "store"
      BY <1>1, <2>1 DEF Arm
    <3> QED BY <3>1 DEF PaceInv
  <2>2. CASE gate = "vblank"
    <3>1. ~waiting /\ waiting' = ~kick /\ waiter' = waiter
      BY <1>1, <2>2 DEF Arm
    <3>2. ~kick /\ waiter # "store"
      BY <2>2, <3>1 DEF KickMeansWaiting
    <3>3. waiting' /\ waiter' # "store"
      BY <3>1, <3>2, Zenon
    <3> QED BY <3>3 DEF PaceInv
  <2> QED BY <1>1, <2>1, <2>2 DEF Arm
<1>2. CASE NotArmed
  <2>1. CASE dead
    BY <1>2, <2>1, Zenon DEF NotArmed, gateVars, PaceInv
  <2>2. CASE waiting
    BY <1>2, <2>2, Zenon DEF NotArmed, PaceInv
  <2>3. CASE vsync
    <3>1. CASE interval'
      BY <3>1, Zenon DEF Present, PaceInv
    <3>2. CASE ~interval'
      BY <1>2, <2>3, <3>2, Zenon DEF NotArmed, PaceInv
    <3> QED BY <3>1, <3>2
  <2>4. CASE gate = "none"
    BY <2>4 DEF PaceInv
  <2> QED BY <1>2, <2>1, <2>2, <2>3, <2>4, GatesAssumption
      DEF NotArmed, Places, AllGates
<1> QED BY <1>1, <1>2 DEF Present

LEMMA DispatchPaces ==
  ASSUME PaceInv, Dispatch, UNCHANGED <<gate, taken, excused>>
  PROVE  PaceInv'
<1>1. CASE gate = "wayland" /\ waiter = "store"
  BY <1>1 DEF Dispatch, PaceInv
<1>2. CASE ~(gate = "wayland" /\ waiter = "store")
  BY <1>2 DEF Dispatch, PaceInv, gateVars
<1> QED BY <1>1, <1>2

LEMMA PaceKeeps ==
  GateInv /\ PaceInv /\ [Next]_vars => PaceInv'
<1> SUFFICES ASSUME Places, KickMeansWaiting, PaceInv, [Next]_vars
             PROVE  PaceInv'
  BY TypeParts DEF GateInv
<1> USE DEF app, gateVars, pacing, ghosts, InApp
<1>1. CASE Refresh \/ Hide \/ Close \/ SetVSync
  BY <1>1 DEF Refresh, Hide, Close, SetVSync, PaceInv
<1>2. CASE FocusGained
  BY <1>2, Zenon DEF FocusGained, PaceInv
<1>3. CASE ShowAgain
  BY <1>3, PresentPaces DEF ShowAgain
<1>4. CASE TakeKick \/ CloseAdapter
  BY <1>4 DEF TakeKick, CloseAdapter, PaceInv
<1>5. CASE Waited
  BY <1>5 DEF Waited, PaceInv
<1>6. CASE Blank \/ WaitFails \/ Answer
  BY <1>6 DEF Blank, WaitFails, Answer, PaceInv
<1>7. CASE PollEvents \/ WakeUp
  BY <1>7, DispatchPaces DEF PollEvents, WakeUp
<1>8. CASE NotDue \/ CheckClosed \/ Repaint \/ NoRepaint \/ Rest
  BY <1>8 DEF NotDue, CheckClosed, Repaint, NoRepaint, Rest, PaceInv
<1>9. CASE Swap
  BY <1>9, PresentPaces DEF Swap
<1>10. CASE Tick \/ UNCHANGED vars
  BY <1>10 DEF Tick, vars, PaceInv
<1> QED
  BY <1>1, <1>2, <1>3, <1>4, <1>5, <1>6, <1>7, <1>8, <1>9, <1>10
  DEF Next, App, LoopStep, Waiter

(* A frame is painted only once the compositor has taken the one before,    *)
(* for every timeout: the gate is ready early only when the wait failed,    *)
(* timed out or was never armed (present_windows.go 153-168).               *)
THEOREM FramesArePaced == Spec => Paced
<1>1. Init => PaceInv
  BY Zenon DEF Init, PaceInv
<1>2. GateInv /\ PaceInv /\ [Next]_vars
        => [Repaint => \/ taken \/ interval' \/ excused
                       \/ gate = "none" \/ dead \/ age > GateTimeout]_vars
  <2> SUFFICES ASSUME PaceInv, Repaint, gate # "none", Places
               PROVE  taken \/ excused \/ dead \/ age > GateTimeout
    BY TypeParts DEF GateInv
  <2>1. CASE gate = "wayland"
    BY <2>1 DEF Repaint, Ready, PaceInv
  <2>2. CASE gate = "vblank"
    BY <2>2 DEF Repaint, Ready, PaceInv
  <2> QED BY <2>1, <2>2, GatesAssumption DEF Places, AllGates
<1> QED BY <1>1, <1>2, InitHolds, StepKeeps, PaceKeeps, PTL DEF Spec, Paced
(**************************** AnimationRunner ******************************)

(* A list holds items that were started, none of them twice. *)
IsList(s, S) == /\ s \in Seq(S)
                /\ \A j, k \in 1..Len(s) : s[j] = s[k] => j = k
Apart(s, t) == ElementsOf(s) \cap ElementsOf(t) = {}

LEMMA EmptyList ==
  ASSUME NEW S
  PROVE IsList(<<>>, S) /\ ElementsOf(<<>>) = {}
BY DEF IsList, ElementsOf

LEMMA ListMembers ==
  ASSUME NEW S, NEW s, IsList(s, S)
  PROVE ElementsOf(s) \subseteq S
BY DEF IsList, ElementsOf

LEMMA ListOfMore ==
  ASSUME NEW S, NEW T, S \subseteq T, NEW s, IsList(s, S)
  PROVE IsList(s, T)
<1>1. s \in Seq(T)
  BY DEF IsList
<1> QED
  BY <1>1 DEF IsList

LEMMA AppendToList ==
  ASSUME NEW S, NEW s, IsList(s, S), NEW x \in S, x \notin ElementsOf(s)
  PROVE /\ IsList(Append(s, x), S)
        /\ ElementsOf(Append(s, x)) = ElementsOf(s) \cup {x}
<1>1. PICK t : t = Append(s, x)
  OBVIOUS
<1>2. /\ s \in Seq(S) /\ Len(s) \in Nat /\ t \in Seq(S) /\ Len(t) = Len(s) + 1
      /\ \A k \in 1..Len(s) : t[k] = s[k]
      /\ t[Len(s) + 1] = x
  BY <1>1 DEF IsList
<1>3. \A k \in 1..Len(t) : k \in 1..Len(s) \/ k = Len(s) + 1
  BY <1>2
<1>4. \A k \in 1..Len(s) : s[k] # x
  BY DEF ElementsOf
<1>5. ElementsOf(t) = ElementsOf(s) \cup {x}
  BY <1>2, <1>3 DEF ElementsOf
<1>6. IsList(t, S)
  BY <1>2, <1>3, <1>4 DEF IsList
<1> QED
  BY <1>1, <1>5, <1>6

LEMMA TailOfList ==
  ASSUME NEW S, NEW s, IsList(s, S), s # <<>>
  PROVE /\ Head(s) \in ElementsOf(s)
        /\ IsList(Tail(s), S)
        /\ ElementsOf(Tail(s)) = ElementsOf(s) \ {Head(s)}
<1>1. PICK t : t = Tail(s)
  OBVIOUS
<1>2. /\ s \in Seq(S) /\ Len(s) \in Nat \ {0} /\ t \in Seq(S) /\ Len(t) = Len(s) - 1
      /\ \A k \in 1..Len(t) : t[k] = s[k + 1]
      /\ Head(s) = s[1]
  BY <1>1 DEF IsList
<1>3. Head(s) \in ElementsOf(s)
  BY <1>2 DEF ElementsOf
<1>4. \A j, k \in 1..Len(t) : t[j] = t[k] => j = k
  <2> SUFFICES ASSUME NEW j \in 1..Len(t), NEW k \in 1..Len(t), t[j] = t[k]
               PROVE j = k
    OBVIOUS
  <2>1. j + 1 \in 1..Len(s) /\ k + 1 \in 1..Len(s) /\ s[j + 1] = s[k + 1]
    BY <1>2
  <2> QED
    BY <2>1 DEF IsList
<1>5. ElementsOf(t) \subseteq ElementsOf(s) \ {Head(s)}
  <2> SUFFICES ASSUME NEW k \in 1..Len(t)
               PROVE t[k] \in ElementsOf(s) /\ t[k] # Head(s)
    BY DEF ElementsOf
  <2>1. k + 1 \in 1..Len(s) /\ k + 1 # 1 /\ 1 \in 1..Len(s) /\ t[k] = s[k + 1]
    BY <1>2
  <2> QED
    BY <1>2, <2>1 DEF IsList, ElementsOf
<1>6. ElementsOf(s) \ {Head(s)} \subseteq ElementsOf(t)
  <2> SUFFICES ASSUME NEW k \in 1..Len(s), s[k] # s[1]
               PROVE s[k] \in ElementsOf(t)
    BY <1>2 DEF ElementsOf
  <2>1. k - 1 \in 1..Len(t) /\ t[k - 1] = s[k]
    BY <1>2
  <2> QED
    BY <2>1 DEF ElementsOf
<1>7. IsList(t, S)
  BY <1>2, <1>4 DEF IsList
<1> QED
  BY <1>1, <1>3, <1>5, <1>6, <1>7

LEMMA JoinedLists ==
  ASSUME NEW S, NEW s, NEW t, IsList(s, S), IsList(t, S), Apart(s, t)
  PROVE /\ IsList(s \o t, S)
        /\ ElementsOf(s \o t) = ElementsOf(s) \cup ElementsOf(t)
<1>1. PICK u : u = s \o t
  OBVIOUS
<1>2. /\ s \in Seq(S) /\ t \in Seq(S) /\ Len(s) \in Nat /\ Len(t) \in Nat
      /\ u \in Seq(S) /\ Len(u) = Len(s) + Len(t)
      /\ \A k \in 1..Len(u) : u[k] = IF k <= Len(s) THEN s[k] ELSE t[k - Len(s)]
  BY <1>1 DEF IsList
<1>3. \A k \in 1..Len(u) : \/ k \in 1..Len(s) /\ u[k] = s[k]
                           \/ k - Len(s) \in 1..Len(t) /\ u[k] = t[k - Len(s)]
  BY <1>2
<1>4. ElementsOf(u) \subseteq ElementsOf(s) \cup ElementsOf(t)
  BY <1>3 DEF ElementsOf
<1>5. ElementsOf(s) \subseteq ElementsOf(u)
  BY <1>2 DEF ElementsOf
<1>6. ElementsOf(t) \subseteq ElementsOf(u)
  <2> SUFFICES ASSUME NEW k \in 1..Len(t)
               PROVE t[k] \in ElementsOf(u)
    BY DEF ElementsOf
  <2>1. k + Len(s) \in 1..Len(u) /\ ~(k + Len(s) <= Len(s)) /\ (k + Len(s)) - Len(s) = k
    BY <1>2
  <2>2. u[k + Len(s)] = t[k]
    BY <1>2, <2>1
  <2> QED
    BY <2>1, <2>2 DEF ElementsOf
<1>7. \A j \in 1..Len(s) : \A k \in 1..Len(t) : s[j] # t[k]
  BY DEF Apart, ElementsOf
<1>8. \A j, k \in 1..Len(u) : u[j] = u[k] => j = k
  <2> SUFFICES ASSUME NEW j \in 1..Len(u), NEW k \in 1..Len(u), u[j] = u[k]
               PROVE j = k
    OBVIOUS
  <2>1. CASE j \in 1..Len(s) /\ k \in 1..Len(s) /\ u[j] = s[j] /\ u[k] = s[k]
    BY <2>1 DEF IsList
  <2>2. CASE /\ j - Len(s) \in 1..Len(t) /\ u[j] = t[j - Len(s)]
             /\ k - Len(s) \in 1..Len(t) /\ u[k] = t[k - Len(s)]
    <3>1. j - Len(s) = k - Len(s)
      BY <2>2 DEF IsList
    <3> QED
      BY <1>2, <3>1
  <2> QED
    BY <1>3, <1>7, <2>1, <2>2
<1> QED
  BY <1>1, <1>2, <1>4, <1>5, <1>6, <1>8 DEF IsList

-----------------------------------------------------------------------------
(* The rank of a place among those that are kept is a one to one map of     *)
(* them to 1..n, and it goes up with the place; its inverse is InOrder.     *)
LEMMA OrderExists ==
  ASSUME NEW K, K \subseteq Nat, IsFiniteSet(K)
  PROVE \E f \in [1..Cardinality(K) -> K] :
          \A j, k \in 1..Cardinality(K) : j < k => f[j] < f[k]
<1>1. PICK c : c = Cardinality(K)
  OBVIOUS
<1>2. c \in Nat /\ \A n \in K : n \in Nat
  BY <1>1, FS_CardinalityType
<1> DEFINE Upto(n) == {m \in K : m <= n}
           rank == [n \in K |-> Cardinality(Upto(n))]
<1>3. ASSUME NEW n \in K
      PROVE IsFiniteSet(Upto(n)) /\ rank[n] \in 1..c /\ rank[n] = Cardinality(Upto(n))
  <2>1. Upto(n) \subseteq K /\ n \in Upto(n)
    OBVIOUS
  <2>2. IsFiniteSet(Upto(n)) /\ Cardinality(Upto(n)) <= c
    BY <1>1, <2>1, FS_Subset
  <2>3. Cardinality(Upto(n)) \in Nat /\ Cardinality(Upto(n)) # 0
    BY <2>1, <2>2, FS_CardinalityType, FS_EmptySet
  <2> QED
    BY <1>2, <2>2, <2>3
<1>4. ASSUME NEW n \in K, NEW m \in K, n < m
      PROVE rank[n] < rank[m]
  <2>0. n \in Nat /\ m \in Nat /\ m <= m /\ ~(m <= n)
    BY <1>2, <1>4
  <2>1. Upto(n) \subseteq Upto(m) /\ m \in Upto(m) /\ m \notin Upto(n)
    <3>1. \A k \in K : k <= n => k <= m
      BY <1>2, <1>4
    <3> QED
      BY <2>0, <3>1
  <2>2. Cardinality(Upto(n)) <= Cardinality(Upto(m))
    BY <1>3, <2>1, FS_Subset
  <2>3. Cardinality(Upto(n)) # Cardinality(Upto(m))
    BY <1>3, <2>1, FS_Subset
  <2> QED
    BY <1>3, <2>2, <2>3
<1> HIDE DEF rank
<1>5. rank \in Injection(K, 1..c)
  <2>1. rank \in [K -> 1..c]
    BY <1>3 DEF rank
  <2>2. ASSUME NEW n \in K, NEW m \in K, rank[n] = rank[m]
        PROVE n = m
    <3>1. n \in Nat /\ m \in Nat /\ rank[n] \in 1..c
      BY <1>2, <1>3
    <3>2. ~(rank[n] < rank[m]) /\ ~(rank[m] < rank[n])
      BY <1>2, <2>2, <3>1
    <3>3. ~(n < m) /\ ~(m < n)
      BY <1>4, <3>2
    <3> QED
      BY <3>1, <3>3
  <2> QED
    BY <2>1, <2>2, Fun_IsInj
<1>6. \A k \in 1..c : \E n \in K : rank[n] = k
  <2>1. IsFiniteSet(1..c) /\ Cardinality(1..c) = c
    BY <1>2, FS_Interval
  <2>2. rank \in Surjection(K, 1..c)
    BY <1>1, <1>5, <2>1, FS_Injection
  <2> QED
    BY <2>2, Fun_SurjectionProperties
<1> DEFINE f == [k \in 1..c |-> CHOOSE n \in K : rank[n] = k]
<1>7. \A k \in 1..c : f[k] \in K /\ rank[f[k]] = k
  BY <1>6
<1> HIDE DEF f
<1>8. ASSUME NEW j \in 1..c, NEW k \in 1..c, j < k
      PROVE f[j] < f[k]
  <2>1. f[j] \in K /\ f[k] \in K /\ rank[f[j]] = j /\ rank[f[k]] = k
    BY <1>7
  <2>2. f[j] # f[k]
    BY <1>8, <2>1
  <2>3. ~(f[k] < f[j])
    <3>1. ~(k < j)
      BY <1>2, <1>8
    <3> QED
      BY <1>4, <2>1, <3>1
  <2>4. f[j] \in Nat /\ f[k] \in Nat
    BY <1>2, <2>1
  <2> QED
    BY <2>2, <2>3, <2>4
<1>9. f \in [1..c -> K]
  BY <1>7 DEF f
<1> QED
  BY <1>1, <1>8, <1>9

(* f goes through the places of K, c of them, each once. *)
Enumerates(f, c, K) == /\ c \in Nat /\ f \in [1..c -> K]
                       /\ \A j, k \in 1..c : f[j] = f[k] => j = k
                       /\ \A n \in K : \E k \in 1..c : f[k] = n

LEMMA InOrderEnumerates ==
  ASSUME NEW K, K \subseteq Nat, IsFiniteSet(K)
  PROVE Enumerates(InOrder(K), Cardinality(K), K)
<1>1. PICK f : f = InOrder(K)
  OBVIOUS
<1>2. PICK c : c = Cardinality(K)
  OBVIOUS
<1>3. c \in Nat
  BY <1>2, FS_CardinalityType
<1>4. f \in [1..c -> K] /\ \A j, k \in 1..c : j < k => f[j] < f[k]
  BY <1>1, <1>2, OrderExists DEF InOrder
<1>5. ASSUME NEW j \in 1..c, NEW k \in 1..c, f[j] = f[k]
      PROVE j = k
  <2>1. f[j] \in Nat /\ f[k] \in Nat
    BY <1>4
  <2>2. ~(f[j] < f[k]) /\ ~(f[k] < f[j])
    BY <1>5, <2>1
  <2>3. ~(j < k) /\ ~(k < j)
    BY <1>4, <2>2
  <2> QED
    BY <1>3, <2>3
<1>6. f \in Injection(1..c, K)
  BY <1>4, <1>5, Fun_IsInj
<1>7. Cardinality(1..c) = c
  BY <1>3, FS_Interval
<1>8. f \in Surjection(1..c, K)
  BY <1>6, <1>7, <1>2, FS_Injection
<1>9. \A n \in K : \E k \in 1..c : f[k] = n
  BY <1>8, Zenon DEF Surjection
<1> QED
  BY <1>1, <1>3, <1>4, <1>5, <1>9, <1>2 DEF Enumerates

(* What Stop keeps of a list is all but the items of the animation. *)
LEMMA WithoutIsList ==
  ASSUME NEW S, NEW s, IsList(s, S), NEW a
  PROVE /\ IsList(Without(s, a), S)
        /\ ElementsOf(Without(s, a)) = {x \in ElementsOf(s) : of[x] # a}
<1>1. PICK K : K = {n \in 1..Len(s) : of[s[n]] # a}
  OBVIOUS
<1>2. s \in Seq(S) /\ Len(s) \in Nat
  BY DEF IsList
<1>3. K \subseteq Nat /\ IsFiniteSet(K)
  <2>1. IsFiniteSet(1..Len(s))
    BY <1>2, FS_Interval
  <2> QED
    BY <1>1, <2>1, FS_Subset
<1>4. PICK f : f = InOrder(K)
  OBVIOUS
<1>5. PICK c : c = Cardinality(K)
  OBVIOUS
<1>6. /\ c \in Nat /\ f \in [1..c -> K]
      /\ \A j, k \in 1..c : f[j] = f[k] => j = k
      /\ \A n \in K : \E k \in 1..c : f[k] = n
  <2>1. Enumerates(f, c, K)
    BY <1>3, <1>4, <1>5, InOrderEnumerates
  <2> QED
    BY <2>1 DEF Enumerates
<1>7. PICK t : t = [k \in 1..c |-> s[f[k]]]
  OBVIOUS
<1>8. Without(s, a) = t
  BY <1>1, <1>4, <1>6, <1>7 DEF Without
<1>9. \A k \in 1..c : f[k] \in 1..Len(s) /\ of[s[f[k]]] # a /\ t[k] = s[f[k]]
  BY <1>1, <1>6, <1>7
<1>10. t \in Seq(S) /\ Len(t) = c
  <2>1. \A k \in 1..c : s[f[k]] \in S
    BY <1>2, <1>9
  <2> QED
    BY <1>6, <1>7, <2>1
<1>11. \A j, k \in 1..c : t[j] = t[k] => j = k
  BY <1>6, <1>9 DEF IsList
<1>12. IsList(t, S)
  BY <1>10, <1>11 DEF IsList
<1>13. ElementsOf(t) \subseteq {x \in ElementsOf(s) : of[x] # a}
  BY <1>9, <1>10 DEF ElementsOf
<1>14. {x \in ElementsOf(s) : of[x] # a} \subseteq ElementsOf(t)
  <2> SUFFICES ASSUME NEW n \in 1..Len(s), of[s[n]] # a
               PROVE s[n] \in ElementsOf(t)
    BY DEF ElementsOf
  <2>1. PICK k \in 1..c : f[k] = n
    BY <1>1, <1>6
  <2> QED
    BY <1>9, <1>10, <2>1 DEF ElementsOf
<1> QED
  BY <1>8, <1>12, <1>13, <1>14

-----------------------------------------------------------------------------
(* The inductive invariant *)

RunnerTypes == /\ of \in Seq(Animations)
               /\ runnerStarted \in BOOLEAN
               /\ tick \in {"idle", "ticking", "reset"}

FourLists == /\ IsList(animations, Started) /\ IsList(pending, Started)
             /\ IsList(nextFrame, Started) /\ IsList(toTick, Started)

(* toTick is a copy of animations: these two alone have items in common. *)
KeptApart == /\ Apart(pending, animations) /\ Apart(pending, nextFrame)
             /\ Apart(pending, toTick) /\ Apart(nextFrame, toTick)

BetweenFrames == /\ tick # "ticking" => nextFrame = <<>> /\ toTick = <<>>
                 /\ tick # "idle" => runnerStarted

(* What a frame has in hand stays in animations, where Stop finds it and    *)
(* flags it.                                                                *)
StopFinds == \A i \in ElementsOf(toTick) \cup ElementsOf(nextFrame) :
               i \in stopped \/ i \in ElementsOf(animations)

LiveListed == \A i \in Live :
                \/ i \in ElementsOf(pending)
                \/ tick = "ticking" /\ i \in ElementsOf(nextFrame) \cup ElementsOf(toTick)
                \/ tick # "ticking" /\ i \in ElementsOf(animations)

(* An item whose animation was stopped, and that was not missed, has the    *)
(* flag or is in no list.                                                   *)
StopReaches == /\ stopAsked \subseteq Started
               /\ \A i \in stopAsked \ missed :
                    \/ i \in stopped
                    \/ i \notin ElementsOf(animations) \cup ElementsOf(pending)
                                \cup ElementsOf(nextFrame) \cup ElementsOf(toTick)

AnimInv == /\ RunnerTypes /\ FourLists /\ KeptApart /\ BetweenFrames
           /\ StopFinds /\ LiveListed /\ StopReaches

LEMMA AnimInitHolds == AnimInit => AnimInv
<1> SUFFICES ASSUME AnimInit
             PROVE AnimInv
  OBVIOUS
<1>1. /\ animations = <<>> /\ pending = <<>> /\ nextFrame = <<>> /\ toTick = <<>>
      /\ runnerStarted = FALSE /\ tick = "idle" /\ of = <<>> /\ stopAsked = {}
  BY DEF AnimInit
<1>2. Started = {}
  BY <1>1 DEF Started
<1>3. RunnerTypes
  <2>1. <<>> \in Seq(Animations)
    OBVIOUS
  <2> QED
    BY <1>1, <2>1 DEF RunnerTypes
<1>4. FourLists
  BY <1>1, EmptyList DEF FourLists
<1>5. KeptApart
  BY <1>1, EmptyList DEF KeptApart, Apart
<1>6. BetweenFrames
  BY <1>1 DEF BetweenFrames
<1>7. StopFinds
  BY <1>1, EmptyList DEF StopFinds
<1>8. LiveListed
  BY <1>2 DEF LiveListed, Live
<1>9. StopReaches
  BY <1>1 DEF StopReaches
<1> QED
  BY <1>3, <1>4, <1>5, <1>6, <1>7, <1>8, <1>9 DEF AnimInv

LEMMA StartKeeps ==
  ASSUME AnimInv, NEW a \in Animations, Start(a)
  PROVE AnimInv'
<1>1. PICK new : new = Len(of) + 1
  OBVIOUS
<1>2. /\ of' = Append(of, a) /\ runnerStarted' = TRUE
      /\ \/ runnerStarted /\ pending' = Append(pending, new) /\ animations' = animations
         \/ ~runnerStarted /\ animations' = Append(animations, new) /\ pending' = pending
      /\ UNCHANGED <<nextFrame, toTick, tick, stopped, over, stopAsked, missed>>
  BY <1>1 DEF Start
<1>3. of \in Seq(Animations) /\ Started = 1..Len(of) /\ Len(of) \in Nat
  BY DEF AnimInv, RunnerTypes, Started
<1>4. /\ of' \in Seq(Animations)
      /\ Started' = Started \cup {new} /\ new \notin Started
  <2>1. of' \in Seq(Animations) /\ Len(of') = Len(of) + 1
    BY <1>2, <1>3
  <2>2. Started' = 1..(Len(of) + 1)
    BY <2>1 DEF Started
  <2> QED
    BY <1>1, <1>3, <2>1, <2>2
<1>5. /\ IsList(animations, Started') /\ IsList(pending, Started')
      /\ IsList(nextFrame, Started') /\ IsList(toTick, Started')
  BY <1>4, ListOfMore DEF AnimInv, FourLists
<1>6. /\ new \notin ElementsOf(animations) /\ new \notin ElementsOf(pending)
      /\ new \notin ElementsOf(nextFrame) /\ new \notin ElementsOf(toTick)
  BY <1>4, ListMembers DEF AnimInv, FourLists
<1>7. /\ IsList(animations', Started') /\ IsList(pending', Started')
      /\ \/ /\ runnerStarted /\ ElementsOf(pending') = ElementsOf(pending) \cup {new}
            /\ ElementsOf(animations') = ElementsOf(animations)
         \/ /\ ~runnerStarted /\ ElementsOf(pending') = ElementsOf(pending)
            /\ ElementsOf(animations') = ElementsOf(animations) \cup {new}
  <2>1. PICK S : S = Started'
    OBVIOUS
  <2>2. new \in S /\ IsList(animations, S) /\ IsList(pending, S)
    BY <1>4, <1>5, <2>1
  <2>3. /\ IsList(Append(pending, new), S)
        /\ ElementsOf(Append(pending, new)) = ElementsOf(pending) \cup {new}
    BY <1>6, <2>2, AppendToList
  <2>4. /\ IsList(Append(animations, new), S)
        /\ ElementsOf(Append(animations, new)) = ElementsOf(animations) \cup {new}
    BY <1>6, <2>2, AppendToList
  <2> QED
    BY <1>2, <2>1, <2>2, <2>3, <2>4
<1>8. RunnerTypes'
  BY <1>2, <1>4 DEF AnimInv, RunnerTypes
<1>9. FourLists'
  BY <1>2, <1>5, <1>7 DEF FourLists
<1>10. KeptApart'
  BY <1>2, <1>6, <1>7 DEF AnimInv, KeptApart, Apart
<1>11. BetweenFrames'
  BY <1>2 DEF AnimInv, BetweenFrames
<1>12. StopFinds'
  BY <1>2, <1>7 DEF AnimInv, StopFinds
<1>13. LiveListed'
  BY <1>2, <1>4, <1>7 DEF AnimInv, LiveListed, Live, BetweenFrames
<1>14. StopReaches'
  BY <1>2, <1>4, <1>7 DEF AnimInv, StopReaches
<1> QED
  BY <1>8, <1>9, <1>10, <1>11, <1>12, <1>13, <1>14 DEF AnimInv

LEMMA StopKeeps ==
  ASSUME AnimInv, NEW a \in Animations, Stop(a)
  PROVE AnimInv'
<1>1. /\ animations' = Without(animations, a)
      /\ \/ /\ stopped' = stopped \cup ItemsOf(animations, a)
            /\ missed' = missed \cup ItemsOf(pending, a)
            /\ pending' = pending
         \/ /\ ItemsOf(animations, a) = {}
            /\ stopped' = stopped \cup ItemsOf(pending, a)
            /\ pending' = Without(pending, a)
            /\ missed' = missed
      /\ stopAsked' = stopAsked \cup {i \in Started : of[i] = a}
      /\ UNCHANGED <<nextFrame, toTick, runnerStarted, tick, of, over>>
  BY DEF Stop
<1>2. Started' = Started
  BY <1>1 DEF Started
<1>3. /\ IsList(animations', Started)
      /\ ElementsOf(animations') = {i \in ElementsOf(animations) : of[i] # a}
  BY <1>1, WithoutIsList DEF AnimInv, FourLists
<1>4. /\ IsList(pending', Started)
      /\ \/ pending' = pending
         \/ ElementsOf(pending') = {i \in ElementsOf(pending) : of[i] # a}
  BY <1>1, WithoutIsList DEF AnimInv, FourLists
<1>5. ElementsOf(pending') \subseteq ElementsOf(pending)
  BY <1>4
<1>6. RunnerTypes'
  BY <1>1 DEF AnimInv, RunnerTypes
<1>7. FourLists'
  BY <1>1, <1>2, <1>3, <1>4 DEF AnimInv, FourLists
<1>8. KeptApart'
  BY <1>1, <1>3, <1>5 DEF AnimInv, KeptApart, Apart
<1>9. BetweenFrames'
  BY <1>1 DEF AnimInv, BetweenFrames
<1>10. StopFinds'
  BY <1>1, <1>3 DEF AnimInv, StopFinds, ItemsOf
<1>11. LiveListed'
  <2> SUFFICES ASSUME NEW i \in Live'
               PROVE \/ i \in ElementsOf(pending')
                     \/ /\ tick = "ticking"
                        /\ i \in ElementsOf(nextFrame) \cup ElementsOf(toTick)
                     \/ tick # "ticking" /\ i \in ElementsOf(animations')
    BY <1>1 DEF LiveListed
  <2>1. i \in Live /\ i \notin stopped'
    BY <1>1, <1>2 DEF Live
  <2>2. i \in ElementsOf(pending) => i \in ElementsOf(pending')
    BY <1>1, <1>4, <2>1 DEF ItemsOf
  <2>3. i \in ElementsOf(animations) => i \in ElementsOf(animations')
    BY <1>1, <1>3, <2>1 DEF ItemsOf
  <2> QED
    BY <2>1, <2>2, <2>3 DEF AnimInv, LiveListed
<1>12. StopReaches'
  <2>1. stopAsked' \subseteq Started
    BY <1>1 DEF AnimInv, StopReaches
  <2>2. ASSUME NEW i \in stopAsked' \ missed', i \notin stopped'
        PROVE i \notin ElementsOf(animations') \cup ElementsOf(pending')
                       \cup ElementsOf(nextFrame) \cup ElementsOf(toTick)
    <3>1. CASE i \in stopAsked
      BY <1>1, <1>3, <1>5, <2>2, <3>1 DEF AnimInv, StopReaches
    <3>2. CASE of[i] = a
      <4>1. i \notin ElementsOf(animations)
        BY <1>1, <2>2, <3>2 DEF ItemsOf
      <4>2. i \notin ElementsOf(nextFrame) \cup ElementsOf(toTick)
        BY <1>1, <2>2, <4>1 DEF AnimInv, StopFinds
      <4>3. i \notin ElementsOf(pending)
        BY <1>1, <2>2, <3>2 DEF ItemsOf
      <4> QED
        BY <1>3, <1>5, <4>1, <4>2, <4>3
    <3> QED
      BY <1>1, <2>2, <3>1, <3>2
  <2> QED
    BY <1>1, <1>2, <2>1, <2>2 DEF StopReaches
<1> QED
  BY <1>6, <1>7, <1>8, <1>9, <1>10, <1>11, <1>12 DEF AnimInv

LEMMA BeginFrameKeeps ==
  ASSUME AnimInv, BeginFrame
  PROVE AnimInv'
<1>1. /\ tick = "idle" /\ runnerStarted /\ toTick' = animations /\ tick' = "ticking"
      /\ UNCHANGED <<animations, pending, nextFrame, runnerStarted, of, stopped, over,
                     stopAsked, missed>>
  BY DEF BeginFrame, asked
<1>2. nextFrame = <<>> /\ ElementsOf(nextFrame) = {}
  BY <1>1, EmptyList DEF AnimInv, BetweenFrames
<1>3. Started' = Started
  BY <1>1 DEF Started
<1>4. RunnerTypes' /\ FourLists'
  BY <1>1, <1>3 DEF AnimInv, RunnerTypes, FourLists
<1>5. KeptApart'
  BY <1>1, <1>2 DEF AnimInv, KeptApart, Apart
<1>6. BetweenFrames'
  BY <1>1 DEF BetweenFrames
<1>7. StopFinds'
  BY <1>1, <1>2 DEF StopFinds
<1>8. LiveListed'
  BY <1>1, <1>3 DEF AnimInv, LiveListed, Live
<1>9. StopReaches'
  BY <1>1, <1>3 DEF AnimInv, StopReaches
<1> QED
  BY <1>4, <1>5, <1>6, <1>7, <1>8, <1>9 DEF AnimInv

LEMMA SkipStoppedKeeps ==
  ASSUME AnimInv, SkipStopped
  PROVE AnimInv'
<1>1. /\ tick = "ticking" /\ toTick # <<>> /\ Head(toTick) \in stopped
      /\ toTick' = Tail(toTick)
      /\ UNCHANGED <<animations, pending, nextFrame, runnerStarted, tick, of, stopped,
                     over, stopAsked, missed>>
  BY DEF SkipStopped, asked
<1>2. /\ IsList(toTick', Started)
      /\ ElementsOf(toTick') = ElementsOf(toTick) \ {Head(toTick)}
  BY <1>1, TailOfList DEF AnimInv, FourLists
<1>3. Started' = Started
  BY <1>1 DEF Started
<1>4. RunnerTypes' /\ FourLists'
  BY <1>1, <1>2, <1>3 DEF AnimInv, RunnerTypes, FourLists
<1>5. KeptApart'
  BY <1>1, <1>2 DEF AnimInv, KeptApart, Apart
<1>6. BetweenFrames'
  BY <1>1 DEF AnimInv, BetweenFrames
<1>7. StopFinds'
  BY <1>1, <1>2 DEF AnimInv, StopFinds
<1>8. LiveListed'
  BY <1>1, <1>2, <1>3 DEF AnimInv, LiveListed, Live
<1>9. StopReaches'
  BY <1>1, <1>2, <1>3 DEF AnimInv, StopReaches
<1> QED
  BY <1>4, <1>5, <1>6, <1>7, <1>8, <1>9 DEF AnimInv

LEMMA TickOneKeeps ==
  ASSUME AnimInv, NEW i \in Items, TickOne(i)
  PROVE AnimInv'
<1>1. /\ tick = "ticking" /\ toTick # <<>> /\ i = Head(toTick)
      /\ toTick' = Tail(toTick)
      /\ \/ nextFrame' = Append(nextFrame, i) /\ over' = over
         \/ over' = over \cup {i} /\ nextFrame' = nextFrame
      /\ UNCHANGED <<animations, pending, runnerStarted, tick, of, stopped,
                     stopAsked, missed>>
  BY DEF TickOne, asked
<1>2. /\ IsList(toTick', Started) /\ i \in ElementsOf(toTick) /\ i \in Started
      /\ ElementsOf(toTick') = ElementsOf(toTick) \ {i}
  BY <1>1, TailOfList, ListMembers DEF AnimInv, FourLists
<1>3. i \notin ElementsOf(nextFrame) /\ i \notin ElementsOf(pending)
  BY <1>2 DEF AnimInv, KeptApart, Apart
<1>4. /\ IsList(nextFrame', Started)
      /\ \/ over' = over /\ ElementsOf(nextFrame') = ElementsOf(nextFrame) \cup {i}
         \/ over' = over \cup {i} /\ ElementsOf(nextFrame') = ElementsOf(nextFrame)
  <2>1. IsList(nextFrame, Started) /\ i \in Started /\ i \notin ElementsOf(nextFrame)
    BY <1>2, <1>3 DEF AnimInv, FourLists
  <2>2. /\ IsList(Append(nextFrame, i), Started)
        /\ ElementsOf(Append(nextFrame, i)) = ElementsOf(nextFrame) \cup {i}
    BY <2>1, AppendToList
  <2> QED
    BY <1>1, <2>1, <2>2
<1>5. Started' = Started
  BY <1>1 DEF Started
<1>6. RunnerTypes' /\ FourLists'
  BY <1>1, <1>2, <1>4, <1>5 DEF AnimInv, RunnerTypes, FourLists
<1>7. KeptApart'
  BY <1>1, <1>2, <1>3, <1>4 DEF AnimInv, KeptApart, Apart
<1>8. BetweenFrames'
  BY <1>1 DEF AnimInv, BetweenFrames
<1>9. StopFinds'
  BY <1>1, <1>2, <1>4 DEF AnimInv, StopFinds
<1>10. LiveListed'
  BY <1>1, <1>2, <1>4, <1>5 DEF AnimInv, LiveListed, Live
<1>11. StopReaches'
  BY <1>1, <1>2, <1>4, <1>5 DEF AnimInv, StopReaches
<1> QED
  BY <1>6, <1>7, <1>8, <1>9, <1>10, <1>11 DEF AnimInv

LEMMA EndFrameKeeps ==
  ASSUME AnimInv, EndFrame
  PROVE AnimInv'
<1>1. /\ tick = "ticking" /\ toTick = <<>> /\ animations' = nextFrame \o pending
      /\ nextFrame' = <<>> /\ pending' = <<>> /\ tick' \in {"reset", "idle"}
      /\ UNCHANGED <<toTick, runnerStarted, of, stopped, over, stopAsked, missed>>
  BY DEF EndFrame, asked
<1>2. runnerStarted /\ Apart(nextFrame, pending)
  BY <1>1 DEF AnimInv, BetweenFrames, KeptApart, Apart
<1>3. /\ IsList(animations', Started)
      /\ ElementsOf(animations') = ElementsOf(nextFrame) \cup ElementsOf(pending)
  <2>1. IsList(nextFrame, Started) /\ IsList(pending, Started) /\ Apart(nextFrame, pending)
    BY <1>2 DEF AnimInv, FourLists
  <2>2. /\ IsList(nextFrame \o pending, Started)
        /\ ElementsOf(nextFrame \o pending) = ElementsOf(nextFrame) \cup ElementsOf(pending)
    BY <2>1, JoinedLists
  <2> QED
    BY <1>1, <2>2
<1>4. /\ IsList(<<>>, Started)
      /\ ElementsOf(toTick) = {} /\ ElementsOf(nextFrame') = {} /\ ElementsOf(pending') = {}
  BY <1>1, EmptyList
<1>5. Started' = Started
  BY <1>1 DEF Started
<1>6. RunnerTypes' /\ FourLists'
  BY <1>1, <1>3, <1>4, <1>5 DEF AnimInv, RunnerTypes, FourLists
<1>7. KeptApart'
  BY <1>1, <1>4 DEF KeptApart, Apart
<1>8. BetweenFrames'
  BY <1>1, <1>2 DEF BetweenFrames
<1>9. StopFinds'
  BY <1>1, <1>4 DEF StopFinds
<1>10. LiveListed'
  BY <1>1, <1>3, <1>4, <1>5 DEF AnimInv, LiveListed, Live
<1>11. StopReaches'
  BY <1>1, <1>3, <1>4, <1>5 DEF AnimInv, StopReaches
<1> QED
  BY <1>6, <1>7, <1>8, <1>9, <1>10, <1>11 DEF AnimInv

LEMMA StopRunnerKeeps ==
  ASSUME AnimInv, StopRunner
  PROVE AnimInv'
<1>1. /\ tick = "reset" /\ runnerStarted' = FALSE /\ tick' = "idle"
      /\ UNCHANGED <<animations, pending, nextFrame, toTick, of, stopped, over,
                     stopAsked, missed>>
  BY DEF StopRunner, asked, lists
<1>2. Started' = Started
  BY <1>1 DEF Started
<1>3. RunnerTypes' /\ FourLists' /\ KeptApart'
  BY <1>1, <1>2 DEF AnimInv, RunnerTypes, FourLists, KeptApart, Apart
<1>4. BetweenFrames'
  BY <1>1 DEF AnimInv, BetweenFrames
<1>5. StopFinds' /\ StopReaches'
  BY <1>1, <1>2 DEF AnimInv, StopFinds, StopReaches
<1>6. LiveListed'
  BY <1>1, <1>2 DEF AnimInv, LiveListed, Live
<1> QED
  BY <1>3, <1>4, <1>5, <1>6 DEF AnimInv

LEMMA AnimStepKeeps == AnimInv /\ [AnimNext]_animVars => AnimInv'
<1> SUFFICES ASSUME AnimInv, [AnimNext]_animVars
             PROVE AnimInv'
  OBVIOUS
<1>1. CASE UNCHANGED animVars
  <2>1. UNCHANGED <<animations, pending, nextFrame, toTick, runnerStarted, tick, of,
                    stopped, over, stopAsked, missed>>
    BY <1>1 DEF animVars, lists
  <2>2. Started' = Started
    BY <2>1 DEF Started
  <2> QED
    BY <2>1, <2>2 DEF AnimInv, RunnerTypes, FourLists, KeptApart, Apart, BetweenFrames,
                      StopFinds, LiveListed, Live, StopReaches
<1>2. ASSUME NEW a \in Animations, Start(a) \/ Stop(a)
      PROVE AnimInv'
  BY <1>2, StartKeeps, StopKeeps
<1>3. CASE Frame
  BY <1>3, BeginFrameKeeps, SkipStoppedKeeps, TickOneKeeps, EndFrameKeeps,
     StopRunnerKeeps DEF Frame
<1> QED
  BY <1>1, <1>2, <1>3 DEF AnimNext

(* The four lists share nothing but toTick's copy of animations, what a     *)
(* frame has in hand Stop still finds, and whatever goes on is in one of    *)
(* them, at every step of every frame (runner.go 32-141).                   *)
THEOREM AnimInvariant == AnimSpec => []AnimInv
BY AnimInitHolds, AnimStepKeeps, PTL DEF AnimSpec

(* An animation that goes on is held in exactly one place and once: none is *)
(* forgotten and none is ticked twice in a frame (runner.go 115-141).       *)
THEOREM AnimationsHeldOnce == AnimSpec => []HeldOnce
<1>1. AnimInv => HeldOnce
  <2> SUFFICES ASSUME AnimInv
               PROVE HeldOnce
    OBVIOUS
  <2>1. PICK last : last = IF tick = "ticking" THEN toTick ELSE animations
    OBVIOUS
  <2>2. /\ IsList(pending, Started) /\ IsList(nextFrame, Started) /\ IsList(last, Started)
        /\ Apart(pending, nextFrame) /\ Apart(pending, last) /\ Apart(nextFrame, last)
    <3>1. CASE tick = "ticking"
      BY <2>1, <3>1 DEF AnimInv, FourLists, KeptApart
    <3>2. CASE tick # "ticking"
      <4>1. ElementsOf(nextFrame) = {}
        BY <3>2, EmptyList DEF AnimInv, BetweenFrames
      <4> QED
        BY <2>1, <3>2, <4>1 DEF AnimInv, FourLists, KeptApart, Apart
    <3> QED
      BY <3>1, <3>2
  <2>3. PICK p : p = <<pending, nextFrame, last>>
    OBVIOUS
  <2>4. /\ \A l \in 1..3 : IsList(p[l], Started)
        /\ \A l, k \in 1..3 : l # k => Apart(p[l], p[k])
    <3>1. p[1] = pending /\ p[2] = nextFrame /\ p[3] = last
      BY <2>3
    <3>2. \A l \in 1..3 : l = 1 \/ l = 2 \/ l = 3
      OBVIOUS
    <3> QED
      BY <2>2, <3>1, <3>2 DEF Apart
  <2>5. \A l \in 1..3 : DOMAIN p[l] = 1..Len(p[l])
    BY <2>4 DEF IsList
  <2>6. ASSUME NEW i \in Live
        PROVE \E l \in 1..3 : \E n \in DOMAIN p[l] :
                \A k \in 1..3 : \A m \in DOMAIN p[k] : p[k][m] = i <=> k = l /\ m = n
    <3>1. PICK l \in 1..3 : i \in ElementsOf(p[l])
      <4>1. i \in ElementsOf(pending) \/ i \in ElementsOf(nextFrame) \/ i \in ElementsOf(last)
        BY <2>1 DEF AnimInv, LiveListed
      <4>2. p[1] = pending /\ p[2] = nextFrame /\ p[3] = last
        BY <2>3
      <4>3. 1 \in 1..3 /\ 2 \in 1..3 /\ 3 \in 1..3
        OBVIOUS
      <4> QED
        BY <4>1, <4>2, <4>3, Zenon
    <3>2. PICK n \in 1..Len(p[l]) : p[l][n] = i
      BY <3>1 DEF ElementsOf
    <3>3. ASSUME NEW k \in 1..3, NEW m \in 1..Len(p[k]), p[k][m] = i
          PROVE k = l /\ m = n
      <4>1. i \in ElementsOf(p[k])
        BY <3>3 DEF ElementsOf
      <4>2. k = l
        BY <2>4, <3>1, <4>1 DEF Apart
      <4> QED
        BY <2>4, <3>2, <3>3, <4>2 DEF IsList
    <3>4. \A k \in 1..3 : \A m \in DOMAIN p[k] : p[k][m] = i <=> k = l /\ m = n
      BY <2>5, <3>2, <3>3
    <3>5. n \in DOMAIN p[l]
      BY <2>5
    <3> QED
      BY <3>4, <3>5, Zenon
  <2> QED
    BY <2>1, <2>3, <2>6 DEF HeldOnce
<1> QED
  BY <1>1, AnimInvariant, PTL

(* "Stop causes an animation to stop ticking (if it was still running) and  *)
(* removes it from the runner" (runner.go 56): in the very frame too, but   *)
(* for what Stop misses in pendingAnimations and a flag not yet seen.       *)
THEOREM StopIsFinal == AnimSpec => StopStops
<1>1. AnimInv => \A i \in stopAsked \ (missed \cup unseen) : ~TickOne(i)
  <2> SUFFICES ASSUME AnimInv, NEW i \in stopAsked \ (missed \cup unseen), TickOne(i)
               PROVE FALSE
    OBVIOUS
  <2>1. toTick # <<>> /\ i = Head(toTick) /\ i \notin stopped
    BY DEF TickOne
  <2>2. i \in ElementsOf(toTick)
    BY <2>1, TailOfList DEF AnimInv, FourLists
  <2> QED
    BY <2>1, <2>2 DEF AnimInv, StopReaches
<1> QED
  BY <1>1, AnimInvariant, PTL DEF StopStops
================================================================================
