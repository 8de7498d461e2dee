---------------------------- MODULE UnboundedChan ----------------------------
(****************************************************************************)
(* internal/async/chan.go: a channel with an unbounded buffer.  Senders     *)
(* write to the buffered Go channel `in', readers read the buffered Go      *)
(* channel `out', and a goroutine of the channel's own (processing)         *)
(* forwards from one to the other through the slice q.                      *)
(*                                                                          *)
(* processing's two selects differ only in whether q is empty, which the    *)
(* guards below say; one iteration of a select is one step.  The capacity   *)
(* of both Go channels is 16 in the code and a constant here.               *)
(****************************************************************************)
EXTENDS Naturals, Sequences

CONSTANTS Elem, InCap, OutCap

ASSUME ChanAssumption == InCap \in Nat \ {0} /\ OutCap \in Nat \ {0}

VARIABLES chin,    \* the buffer of ch.in
          q,       \* ch.q, the unbounded buffer
          chout,   \* the buffer of ch.out
          fwd      \* the forwarding goroutine: see FwdStates

chanVars == <<chin, q, chout, fwd>>

(* "open": in processing; "closeReq": it has received from ch.close and     *)
(* close(ch.in) is next; "flushing": ch.in is closed and q is emptied into  *)
(* ch.out; "closed": ch.out is closed and the goroutine has returned.       *)
FwdStates == {"open", "closeReq", "flushing", "closed"}

ChanTypeOK == /\ chin \in Seq(Elem)
              /\ q \in Seq(Elem)
              /\ chout \in Seq(Elem)
              /\ fwd \in FwdStates

ChanInit == /\ chin = <<>>
            /\ q = <<>>
            /\ chout = <<>>
            /\ fwd = "open"

InOpen == fwd \in {"open", "closeReq"}

(* ch.In() <- e.  It blocks while the buffer is full; once ch.in is closed  *)
(* a send panics instead, which is the sender's affair.                     *)
ChanSend(e) == /\ InOpen
               /\ Len(chin) < InCap
               /\ chin' = Append(chin, e)
               /\ UNCHANGED <<q, chout, fwd>>

(* <-ch.Out() *)
ChanRecv == /\ chout # <<>>
            /\ chout' = Tail(chout)
            /\ UNCHANGED <<chin, q, fwd>>

(* Mutant of Accept: an element goes straight to ch.out when there is room. *)
AcceptBypass == /\ fwd = "open"
                /\ chin # <<>>
                /\ chin' = Tail(chin)
                /\ IF Len(chout) < OutCap
                   THEN chout' = Append(chout, Head(chin)) /\ q' = q
                   ELSE q' = Append(q, Head(chin)) /\ chout' = chout
                /\ UNCHANGED fwd

(* case e := <-ch.in, of either select *)
Accept == /\ fwd = "open"
          /\ chin # <<>>
          /\ q' = Append(q, Head(chin))
          /\ chin' = Tail(chin)
          /\ UNCHANGED <<chout, fwd>>

(* Mutant of Push: closed() does not empty q. *)
PushWhileOpen == /\ fwd = "open"
                 /\ q # <<>>
                 /\ Len(chout) < OutCap
                 /\ chout' = Append(chout, Head(q))
                 /\ q' = Tail(q)
                 /\ UNCHANGED <<chin, fwd>>

(* case ch.out <- ch.q[0], in processing and, after Close, in closed *)
Push == /\ fwd \in {"open", "flushing"}
        /\ q # <<>>
        /\ Len(chout) < OutCap
        /\ chout' = Append(chout, Head(q))
        /\ q' = Tail(q)
        /\ UNCHANGED <<chin, fwd>>

(* Close(): an unbuffered send, so it returns when processing takes it. *)
ChanClose == /\ fwd = "open"
             /\ fwd' = "closeReq"
             /\ UNCHANGED <<chin, q, chout>>

(* close(ch.in) and the range over what is left in it *)
CloseIn == /\ fwd = "closeReq"
           /\ fwd' = "flushing"
           /\ q' = q \o chin
           /\ chin' = <<>>
           /\ UNCHANGED chout

(* q is empty: close(ch.out), close(ch.close) and the goroutine returns *)
CloseOut == /\ fwd = "flushing"
            /\ q = <<>>
            /\ fwd' = "closed"
            /\ UNCHANGED <<chin, q, chout>>

Forward == Accept \/ Push \/ CloseIn \/ CloseOut

ChanNext == \/ \E e \in Elem : ChanSend(e)
            \/ ChanRecv
            \/ ChanClose
            \/ Forward

ChanSpec == ChanInit /\ [][ChanNext]_chanVars

-----------------------------------------------------------------------------
(* Everything sent and not yet received, oldest first. *)
Contents == chout \o q \o chin

Fifo == INSTANCE FifoQueue WITH items <- Contents, open <- InOpen

(* The channel is a queue: what is received comes out in the order in which *)
(* the sends completed, nothing is lost, duplicated or overtaken while the  *)
(* forwarding goroutine moves it from ch.in through q to ch.out, Close      *)
(* loses nothing that was sent, and no send completes after it closed       *)
(* ch.in (chan.go 35-96).                                                   *)
IsFifo == Fifo!FifoSpec

(* The buffers keep to their capacity, and ch.in is empty once closed: a    *)
(* later reader of ch.out sees every element that was ever sent.            *)
BuffersBounded == /\ Len(chin) <= InCap
                  /\ Len(chout) <= OutCap
                  /\ fwd \in {"flushing", "closed"} => chin = <<>>
                  /\ fwd = "closed" => q = <<>>
==============================================================================
