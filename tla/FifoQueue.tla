------------------------------ MODULE FifoQueue ------------------------------
(****************************************************************************)
(* What a queue promises its users: an element put in comes out once, after *)
(* every element put in before it, and nothing can be put in once the queue *)
(* has been closed.  UnboundedChan implements it.                           *)
(****************************************************************************)
EXTENDS Naturals, Sequences

CONSTANT Elem

VARIABLES items,   \* the elements put in and not yet taken out, oldest first
          open     \* whether elements may still be put in

fifoVars == <<items, open>>

FifoInit == items = <<>> /\ open = TRUE

Put(e) == /\ open
          /\ items' = Append(items, e)
          /\ UNCHANGED open

Take == /\ items # <<>>
        /\ items' = Tail(items)
        /\ UNCHANGED open

Shut == /\ open
        /\ open' = FALSE
        /\ UNCHANGED items

FifoNext == (\E e \in Elem : Put(e)) \/ Take \/ Shut

FifoSpec == FifoInit /\ [][FifoNext]_fifoVars
==============================================================================
