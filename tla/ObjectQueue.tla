---------------------------- MODULE ObjectQueue ----------------------------
(****************************************************************************)
(* The lock-free queue of canvas objects to refresh (internal/async/        *)
(* queue.go), a linked list whose nodes are recycled through a pool.  The   *)
(* main goroutine puts objects in and takes them out, one after the other;  *)
(* in builds that are not migrated to fyne.Do other goroutines put in too.  *)
(* Every access to shared memory is a step.                                 *)
(****************************************************************************)
EXTENDS Integers, Sequences, FiniteSets

CONSTANTS Node,        \* the nodes there are, in the pool, new, or in use
          Nil,         \* no node
          Elem,        \* the canvas objects
          Main,        \* the main goroutine
          Goroutines,  \* the others
          LenModulus   \* len is unsigned and wraps

ASSUME QueueAssumption == /\ IsFiniteSet(Node) /\ Nil \notin Node
                          /\ IsFiniteSet(Goroutines) /\ Main \notin Goroutines
                          /\ LenModulus \in Nat \ {0}

Procs == {Main} \cup Goroutines

VARIABLES
  head, tail, next, v, len,  \* the queue and its nodes
  free,     \* the nodes the pool may hand out
  pc,       \* the place of each goroutine
  own,      \* In's node, and Out's first
  last,     \* In's and Out's last
  after,    \* In's lastnext, and Out's firstnext
  reused    \* ghost: a node was handed out while an In still held it as last
            \* or lastnext

list == <<head, tail, next, v>>
regs == <<own, last, after>>
vars == <<list, len, free, pc, regs, reused>>

Init == /\ \E n \in Node : head = n /\ tail = n /\ free = Node \ {n}
        /\ next = [n \in Node |-> Nil]
        /\ v = [n \in Node |-> Nil]
        /\ len = 0
        /\ pc = [p \in Procs |-> "idle"]
        /\ own = [p \in Procs |-> Nil]
        /\ last = [p \in Procs |-> Nil]
        /\ after = [p \in Procs |-> Nil]
        /\ reused = FALSE

At(p, place) == pc[p] = place
Goto(p, place) == pc' = [pc EXCEPT ![p] = place]
Set(reg, p, n) == [reg EXCEPT ![p] = n]

(* The call returns, and its locals are gone. *)
Return(p) == /\ Goto(p, "idle")
             /\ own' = Set(own, p, Nil)
             /\ last' = Set(last, p, Nil)
             /\ after' = Set(after, p, Nil)

-----------------------------------------------------------------------------
(* In *)

(* Get, and the node is filled. *)
Get(p) == /\ At(p, "idle")
          /\ \E n \in free, e \in Elem :
               /\ free' = free \ {n}
               /\ next' = [next EXCEPT ![n] = Nil]
               /\ v' = [v EXCEPT ![n] = e]
               /\ own' = Set(own, p, n)
               /\ reused' = (reused \/ \E o \in Procs \ {p} : n \in {last[o], after[o]})
          /\ Goto(p, "loadTail")
          /\ UNCHANGED <<head, tail, len, last, after>>

LoadTail(p) == /\ At(p, "loadTail")
               /\ last' = Set(last, p, tail)
               /\ Goto(p, "loadNext")
               /\ UNCHANGED <<list, len, free, own, after, reused>>

LoadNext(p) == /\ At(p, "loadNext")
               /\ after' = Set(after, p, next[last[p]])
               /\ Goto(p, "again")
               /\ UNCHANGED <<list, len, free, own, last, reused>>

(* if q.tail.Load() == last, and whether a next node was seen *)
Again(p) == /\ At(p, "again")
            /\ Goto(p, CASE tail # last[p] -> "loadTail"
                         [] tail = last[p] /\ after[p] = Nil -> "casNext"
                         [] tail = last[p] /\ after[p] # Nil -> "help")
            /\ UNCHANGED <<list, len, free, regs, reused>>

(* Mutant of CasNext: a store instead of the compare-and-swap. *)
StoreNext(p) == /\ At(p, "casNext")
                /\ next' = [next EXCEPT ![last[p]] = own[p]]
                /\ Goto(p, "casTail")
                /\ UNCHANGED <<head, tail, v, len, free, regs, reused>>

CasNext(p) == /\ At(p, "casNext")
              /\ \/ /\ next[last[p]] = Nil
                    /\ next' = [next EXCEPT ![last[p]] = own[p]]
                    /\ Goto(p, "casTail")
                 \/ /\ next[last[p]] # Nil
                    /\ Goto(p, "loadTail")
                    /\ UNCHANGED next
              /\ UNCHANGED <<head, tail, v, len, free, regs, reused>>

CasTail(p) == /\ At(p, "casTail")
              /\ tail' = IF tail = last[p] THEN own[p] ELSE tail
              /\ Goto(p, "addLen")
              /\ UNCHANGED <<head, next, v, len, free, regs, reused>>

AddLen(p) == /\ At(p, "addLen")
             /\ len' = (len + 1) % LenModulus
             /\ Return(p)
             /\ UNCHANGED <<list, free, reused>>

(* The tail lags behind: q.tail.CompareAndSwap(last, lastnext). *)
Help(p) == /\ At(p, "help")
           /\ tail' = IF tail = last[p] THEN after[p] ELSE tail
           /\ Goto(p, "loadTail")
           /\ UNCHANGED <<head, next, v, len, free, regs, reused>>

In(p) == \/ Get(p) \/ LoadTail(p) \/ LoadNext(p) \/ Again(p)
         \/ CasNext(p) \/ CasTail(p) \/ AddLen(p) \/ Help(p)

-----------------------------------------------------------------------------
(* Out, on the main goroutine *)

LoadHead == /\ At(Main, "idle") \/ At(Main, "loadHead")
            /\ own' = Set(own, Main, head)
            /\ Goto(Main, "outTail")
            /\ UNCHANGED <<list, len, free, last, after, reused>>

OutTail == /\ At(Main, "outTail")
           /\ last' = Set(last, Main, tail)
           /\ Goto(Main, "outNext")
           /\ UNCHANGED <<list, len, free, own, after, reused>>

OutNext == /\ At(Main, "outNext")
           /\ after' = Set(after, Main, next[own[Main]])
           /\ Goto(Main, "outAgain")
           /\ UNCHANGED <<list, len, free, own, last, reused>>

(* first == q.head.Load() holds: only the main goroutine moves the head.    *)
OutEmpty == /\ At(Main, "outAgain")
            /\ own[Main] = last[Main] /\ after[Main] = Nil
            /\ Return(Main)
            /\ UNCHANGED <<list, len, free, reused>>

OutHelp == /\ At(Main, "outAgain")
           /\ own[Main] = last[Main] /\ after[Main] # Nil
           /\ tail' = IF tail = last[Main] THEN after[Main] ELSE tail
           /\ Goto(Main, "loadHead")
           /\ UNCHANGED <<head, next, v, len, free, regs, reused>>

(* Mutant of OutHead: the head may overtake a tail that lags. *)
OutHeadUnhelped == /\ At(Main, "outAgain")
                   /\ after[Main] # Nil
                   /\ head' = after[Main]
                   /\ Goto(Main, "subLen")
                   /\ UNCHANGED <<tail, next, v, len, free, regs, reused>>

OutHead == /\ At(Main, "outAgain")
           /\ own[Main] # last[Main] /\ after[Main] # Nil
           /\ head' = after[Main]
           /\ Goto(Main, "subLen")
           /\ UNCHANGED <<tail, next, v, len, free, regs, reused>>

(* v := firstnext.v with no firstnext *)
OutPanics == /\ At(Main, "outAgain")
             /\ own[Main] # last[Main] /\ after[Main] = Nil
             /\ Goto(Main, "panicked")
             /\ UNCHANGED <<list, len, free, regs, reused>>

(* Mutant of SubLen: the length stops at zero. *)
SubLenToZero == /\ At(Main, "subLen")
                /\ len' = IF len = 0 THEN 0 ELSE len - 1
                /\ Goto(Main, "put")
                /\ UNCHANGED <<list, free, regs, reused>>

SubLen == /\ At(Main, "subLen")
          /\ len' = (len - 1) % LenModulus
          /\ Goto(Main, "put")
          /\ UNCHANGED <<list, free, regs, reused>>

Put == /\ At(Main, "put")
       /\ free' = free \cup {own[Main]}
       /\ Return(Main)
       /\ UNCHANGED <<list, len, reused>>

Out == \/ LoadHead \/ OutTail \/ OutNext \/ OutEmpty \/ OutHelp
       \/ OutHead \/ OutPanics \/ SubLen \/ Put

Next == Out \/ \E p \in Procs : In(p)

Spec == Init /\ [][Next]_vars

-----------------------------------------------------------------------------
(* What is in the queue: the nodes behind the head, in the list's order.    *)

Hops == Cardinality(Node)

(* The node i hops behind the head, or Nil. *)
Reach == LET r[i \in 0..Hops] ==
               IF i = 0 THEN head ELSE IF r[i-1] = Nil THEN Nil ELSE next[r[i-1]]
         IN  r

Chain == {Reach[i] : i \in 0..Hops} \ {Nil}

Contents == LET n == Cardinality({i \in 1..Hops : Reach[i] # Nil})
            IN  [i \in 1..n |-> v[Reach[i]]]

F == INSTANCE FifoQueue WITH items <- Contents, open <- TRUE

(* The queue is the FIFO queue it says it is (queue.go 11): a node is       *)
(* linked behind all others and the head moves by one, whoever lags behind  *)
(* or helps.  It holds as long as no node is handed out again to one In     *)
(* while another one still compares with it, which the pool does not        *)
(* prevent: see OutPanics.                                                  *)
IsFifo == [][reused' \/ F!FifoNext]_Contents

(* The list stays a list: the tail is on it and at most one node behind its *)
(* end, no node of it is in the pool, and Out never finds a nil where it    *)
(* expects a node (queue.go 74).                                            *)
ListIsSound == reused \/ /\ tail \in Chain
                         /\ next[tail] = Nil \/ next[next[tail]] = Nil
                         /\ Chain \cap free = {}
                         /\ ~At(Main, "panicked")

(* Len, by which deduplicatedObjectQueue.Out and FreeDirtyTextures decide   *)
(* that the queue is drained, is what the queue holds but for the calls     *)
(* that have linked or taken a node and not counted it yet.                 *)
LenCounts ==
  reused \/ LET linked == Cardinality({p \in Procs : pc[p] \in {"casTail", "addLen"}})
                taken == IF At(Main, "subLen") THEN 1 ELSE 0
            IN  len = (Len(Contents) - linked + taken) % LenModulus

-----------------------------------------------------------------------------
(* Why the three hold: what the list is to the goroutines that are in the   *)
(* middle of a call, as long as no node was reused under one of them.  The  *)
(* list is the nodes c[1] .. c[n].                                          *)

Places == {"idle", "loadTail", "loadNext", "again", "casNext", "casTail", "addLen",
           "help", "loadHead", "outTail", "outNext", "outAgain", "subLen", "put"}

(* "panicked" is not among the places. *)
Registers == /\ head \in Node /\ tail \in Node /\ free \subseteq Node
             /\ next \in [Node -> Node \cup {Nil}]
             /\ v \in [Node -> Elem \cup {Nil}]
             /\ pc \in [Procs -> Places]
             /\ own \in [Procs -> Node \cup {Nil}]
             /\ last \in [Procs -> Node \cup {Nil}]
             /\ after \in [Procs -> Node \cup {Nil}]

On(c, n) == {c[i] : i \in 1..n}

(* From the head to a node with none behind it, and no node twice. *)
Linked(c, n) == /\ c[1] = head
                /\ \A i \in 1..n : next[c[i]] = IF i = n THEN Nil ELSE c[i + 1]
                /\ \A i, j \in 1..n : c[i] = c[j] => i = j

TailNear(c, n) == tail = c[n] \/ (n > 1 /\ tail = c[n - 1])

Filling == {p \in Procs : pc[p] \in {"loadTail", "loadNext", "again", "casNext", "help"}}
Leaving == {p \in {Main} : pc[p] \in {"subLen", "put"}}

(* A node is on the list, in the pool, with the In that fills it, or with   *)
(* the Out that has taken it.                                               *)
Apart(c, n) ==
  /\ On(c, n) \cap free = {}
  /\ \A p \in Filling \cup Leaving : own[p] \in Node \ (On(c, n) \cup free)
  /\ \A p, q \in Filling \cup Leaving : own[p] = own[q] => p = q
  /\ \A p \in Filling : next[own[p]] = Nil /\ v[own[p]] \in Elem
  /\ \A p \in Leaving : next[own[p]] # Nil

(* What a goroutine has loaded is still on the list, or else has a next     *)
(* node for good; so that a next that was seen stays so.  No one has loaded *)
(* a node the tail has not come to.                                         *)
Loaded(c, n) ==
  \A p \in Procs :
    /\ pc[p] = "idle" => last[p] = Nil /\ after[p] = Nil
    /\ pc[p] \in {"loadNext", "again", "casNext", "casTail", "help"} => last[p] \in Node
    /\ last[p] # Nil => last[p] \in On(c, n) \/ next[last[p]] # Nil
    /\ last[p] = c[n] => tail = c[n]
    /\ pc[p] \in {"again", "help"} => after[p] \in {Nil, next[last[p]]}
    /\ pc[p] = "help" => after[p] # Nil
    /\ pc[p] = "casTail" => own[p] \in Node /\ next[last[p]] = own[p]

(* Out's first is the head, and where its last is another node the tail has *)
(* left the head.                                                           *)
OutLoaded(c, n) ==
  /\ pc[Main] \in {"outTail", "outNext", "outAgain"} => own[Main] = head
  /\ pc[Main] \in {"outNext", "outAgain"} =>
       last[Main] \in On(c, n) /\ (last[Main] # head => tail # head)
  /\ pc[Main] = "outAgain" =>
       /\ after[Main] \in {Nil, next[head]}
       /\ last[Main] # head => after[Main] # Nil

Linking == {p \in Procs : pc[p] \in {"casTail", "addLen"}}
Taking == {p \in {Main} : pc[p] = "subLen"}

Counted(n) ==
  len = (n - 1 - Cardinality(Linking) + Cardinality(Taking)) % LenModulus

ListInv(c, n) == /\ Registers /\ Linked(c, n) /\ TailNear(c, n)
                 /\ Apart(c, n) /\ Loaded(c, n) /\ OutLoaded(c, n)
                 /\ Counted(n)

IInv == /\ reused \in BOOLEAN
        /\ reused \/ \E n \in 1..Hops : \E c \in [1..n -> Node] : ListInv(c, n)
=============================================================================
