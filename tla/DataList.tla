------------------------------- MODULE DataList -------------------------------
(****************************************************************************)
(* A bound list of values (data/binding/lists.go, binding.go): a slice, one *)
(* item for each of its places, the listeners of the list and of the items, *)
(* and the goroutines that call their methods.                              *)
(*                                                                          *)
(* The list has a sync.RWMutex, whose Lock holds back new readers while it  *)
(* waits for the ones there are; each item has a lock of its own, though    *)
(* all of them write the same slice.  What happens under an item's lock is  *)
(* one step.  What an application changes in an external slice itself, it   *)
(* is taken to change as its Reload begins.                                 *)
(****************************************************************************)
EXTENDS Integers, Sequences, FiniteSetsExt

CONSTANTS Goroutines,
          Values,
          None,       \* no goroutine, no listener
          MaxLen,     \* bound: the length of the list
          MaxItems,   \* bound: items made
          MaxCalls    \* bound: calls of the list's and the items' methods

ASSUME DataListAssumption ==
  /\ {MaxLen, MaxItems, MaxCalls} \subseteq Nat
  /\ None \notin Goroutines \cup Values
  /\ Values # {}

VARIABLES
  external,   \* updateExternal: the list is bound to the application's slice
  val,        \* the slice that l.val points to
  items,      \* the list's items, in order
  index, old, \* of each item
  made,       \* the items made so far; some may have left the list
  writer,     \* the goroutine that has called Lock and not yet Unlock
  call,       \* what each goroutine does
  calls,
  pending,    \* what trigger has posted to the main goroutine
  seen,       \* what the listener of each item was last told, None without one
  seenLength, \* and that of the list
  crashed,    \* a goroutine has written past the end of the slice
  blind       \* ghost: items whose last change was Missed

list == <<val, items, index, old, made>>
listeners == <<pending, seen, seenLength>>
vars == <<external, list, writer, call, calls, listeners, crashed, blind>>

Items == 1..MaxItems
List == 0   \* in pending: the list's own listener
Lists == UNION {[1..n -> Values] : n \in 0..MaxLen}
AnyValue == CHOOSE v \in Values : TRUE

Idle == [at |-> "idle", kind |-> "none", i |-> 0, to |-> 0, v |-> AnyValue,
         id |-> 0, resized |-> FALSE]

(* newList, or bindList with the application's slice, whose items are old   *)
(* to it.                                                                   *)
Init == /\ external \in BOOLEAN
        /\ val \in IF external THEN Lists ELSE {<<>>}
        /\ made = Len(val) /\ made <= MaxItems
        /\ items = [i \in 1..made |-> i]
        /\ index = [id \in Items |-> IF id <= made THEN id ELSE 0]
        /\ old = [id \in Items |-> IF id <= made THEN val[id] ELSE AnyValue]
        /\ writer = None
        /\ call = [g \in Goroutines |-> Idle] /\ calls = 0
        /\ pending = {} /\ seenLength = made
        /\ seen = [id \in Items |-> None]
        /\ crashed = FALSE /\ blind = {}

At(g, place) == call[g].at = place
Goto(g, place) == call' = [call EXCEPT ![g].at = place]
Start(g, c) == call' = [call EXCEPT ![g] = c]
Return(g) == Start(g, Idle)

(* Those that hold the lock for reading, in GetValue and SetValue. *)
Readers == {g \in Goroutines : At(g, "length")}

-----------------------------------------------------------------------------
(* The calls *)

Begin(g) ==
  /\ At(g, "idle") /\ calls < MaxCalls
  /\ calls' = calls + 1
  /\ \/ \* Append, Prepend, Remove, Set, Reload
        Start(g, [Idle EXCEPT !.at = "lock", !.kind = "change"])
     \/ Start(g, [Idle EXCEPT !.at = "rlock", !.kind = "GetValue"])
     \/ \E i \in 1..MaxLen, v \in Values :
          Start(g, [Idle EXCEPT !.at = "rlock", !.kind = "SetValue", !.i = i, !.v = v])
     \/ \* Set, of an item that GetItem has once returned
        \E id \in 1..made, v \in Values :
          Start(g, [Idle EXCEPT !.at = "set", !.id = id, !.v = v])
  /\ UNCHANGED <<external, list, writer, listeners, crashed, blind>>

(* l.lock.RLock() of GetValue and SetValue, which then call l.Length(), *)
RLock(g) == /\ At(g, "rlock") /\ writer = None
            /\ Goto(g, "length")
            /\ UNCHANGED <<external, list, writer, calls, listeners, crashed, blind>>

(* which takes the lock for reading again; both holds end. *)
Length(g) == /\ At(g, "length") /\ writer = None
             /\ IF call[g].kind = "SetValue" /\ call[g].i <= Len(items)
                THEN Goto(g, "lock") ELSE Return(g)
             /\ UNCHANGED <<external, list, writer, calls, listeners, crashed, blind>>

(* l.lock.Lock(): from here on readers wait; the steps that follow want     *)
(* Readers = {}, which is when Lock returns.                                *)
Lock(g) == /\ At(g, "lock") /\ writer = None
           /\ writer' = g
           /\ Goto(g, "locked")
           /\ UNCHANGED <<external, list, calls, listeners, crashed, blind>>

Locked(g, kind) == At(g, "locked") /\ call[g].kind = kind /\ Readers = {}

(* SetValue writes the slice, and then calls GetItem(i). *)
PutValue(g) ==
  /\ Locked(g, "SetValue")
  /\ IF call[g].i <= Len(val)
     THEN /\ val' = [val EXCEPT ![call[g].i] = call[g].v]
          /\ writer' = None
          /\ Goto(g, "find")
          /\ UNCHANGED crashed
     ELSE crashed' = TRUE /\ UNCHANGED <<val, writer, call>>
  /\ UNCHANGED <<external, items, index, old, made, calls, listeners, blind>>

FindItem(g) ==
  /\ At(g, "find") /\ writer = None
  /\ IF call[g].i <= Len(items)
     THEN call' = [call EXCEPT ![g].at = "set", ![g].id = items[call[g].i]]
     ELSE Return(g)
  /\ UNCHANGED <<external, list, writer, calls, listeners, crashed, blind>>

(* The items that a write of v through item id changes behind the backs of  *)
(* their listeners or of their old: id itself, and, once id has left the    *)
(* list, the item that has its place.                                       *)
Missed(id, v) ==
  ({items[i] : i \in {index[id]} \cap 1..Len(items)} \ {id})
    \cup (IF external /\ old[id] # v THEN {id} ELSE {})

(* doSet of an item, which Set of an external one is too: old is left. *)
SetItem(g) ==
  LET id == call[g].id
  IN  /\ At(g, "set")
      /\ IF index[id] <= Len(val)
         THEN /\ val' = [val EXCEPT ![index[id]] = call[g].v]
              /\ pending' = pending \cup {id}
              /\ blind' = (blind \ {id}) \cup Missed(id, call[g].v)
              /\ Return(g)
              /\ UNCHANGED crashed
         ELSE crashed' = TRUE /\ UNCHANGED <<val, pending, blind, call>>
      /\ UNCHANGED <<external, items, index, old, made, writer, calls, seen,
                     seenLength>>

-----------------------------------------------------------------------------
(* Append, Prepend, Remove, Set and Reload: the slice becomes another one,  *)
(* then doReload.                                                           *)

(* Mutant of Copied: items are told only when the list keeps its length. *)
CopiedIfSame(before, now) == IF before = now THEN now ELSE 0

(* The places that doReload's second loop goes through. *)
Copied(before, now) == Min({now, before + 1})

(* The slice changes, and items are dropped or made at the end. *)
Change(g) ==
  /\ Locked(g, "change")
  /\ val' \in {s \in Lists : made + Len(s) - Len(items) <= MaxItems}
  /\ LET before == Len(items)
         now == Len(val')
     IN  /\ items' = [i \in 1..now |-> IF i <= before THEN items[i]
                                       ELSE made + i - before]
         /\ made' = made + Max({now - before, 0})
         /\ index' = [id \in Items |-> IF id \in made + 1 .. made'
                                       THEN before + id - made ELSE index[id]]
         /\ old' = [id \in Items |-> IF id \in made + 1 .. made'
                                     THEN val'[before + id - made] ELSE old[id]]
         /\ call' = [call EXCEPT ![g].at = "read", ![g].i = 1,
                                 ![g].to = Copied(before, now),
                                 ![g].resized = before # now]
  /\ UNCHANGED <<external, writer, calls, listeners, crashed, blind>>

(* Mutant of RemoveNothing: without the Unlock of the early return. *)
RemoveKeepsLock(g) ==
  /\ Locked(g, "change")
  /\ Return(g)
  /\ UNCHANGED <<external, list, writer, calls, listeners, crashed, blind>>

(* Remove finds no such value. *)
RemoveNothing(g) ==
  /\ Locked(g, "change")
  /\ writer' = None
  /\ Return(g)
  /\ UNCHANGED <<external, list, calls, listeners, crashed, blind>>

(* The argument of doSet and setIfChanged is read without the item's lock. *)
ReadValue(g) ==
  /\ At(g, "read") /\ call[g].i <= call[g].to
  /\ call' = [call EXCEPT ![g].at = "write", ![g].v = val[call[g].i]]
  /\ UNCHANGED <<external, list, writer, calls, listeners, crashed, blind>>

(* doSet, or setIfChanged of an external item *)
WriteValue(g) ==
  LET i == call[g].i
      v == call[g].v
      id == items[i]
  IN  /\ At(g, "write")
      /\ IF external /\ v = old[id]
         THEN UNCHANGED <<val, old, pending, blind>>
         ELSE /\ val' = [val EXCEPT ![i] = v]
              /\ old' = IF external THEN [old EXCEPT ![id] = v] ELSE old
              /\ pending' = pending \cup {id}
              /\ blind' = blind \ {id}
      /\ call' = [call EXCEPT ![g].at = "read", ![g].i = i + 1]
      /\ UNCHANGED <<external, items, index, made, writer, calls, seen, seenLength,
                     crashed>>

Unlock(g) ==
  /\ At(g, "read") /\ call[g].i > call[g].to
  /\ writer' = None
  /\ IF call[g].resized THEN Goto(g, "trigger") ELSE Return(g)
  /\ UNCHANGED <<external, list, calls, listeners, crashed, blind>>

Trigger(g) ==
  /\ At(g, "trigger")
  /\ pending' = pending \cup {List}
  /\ Return(g)
  /\ UNCHANGED <<external, list, writer, calls, seen, seenLength, crashed, blind>>

-----------------------------------------------------------------------------
(* The main goroutine *)

(* Get of an item, None of Values once the list is too short for it *)
Told(id) == IF index[id] <= Len(val) THEN val[index[id]] ELSE "outOfBounds"

(* triggerFromMain: listeners ask for what there is now.  A set of what is  *)
(* posted will do: a second post of the same adds nothing but a repetition. *)
TellItem(id) == /\ id \in pending \ {List}
                /\ pending' = pending \ {id}
                /\ seen' = IF seen[id] = None THEN seen
                           ELSE [seen EXCEPT ![id] = Told(id)]
                /\ UNCHANGED <<external, list, writer, call, calls, seenLength,
                               crashed, blind>>

TellList == /\ List \in pending /\ writer = None
            /\ pending' = pending \ {List}
            /\ seenLength' = Len(items)
            /\ UNCHANGED <<external, list, writer, call, calls, seen, crashed, blind>>

(* AddListener's func, which also tells the listener; RemoveListener's. *)
AddListener(id) == /\ id \in 1..made /\ seen[id] = None
                   /\ seen' = [seen EXCEPT ![id] = Told(id)]
                   /\ UNCHANGED <<external, list, writer, call, calls, pending,
                                  seenLength, crashed, blind>>

RemoveListener(id) == /\ seen[id] # None
                      /\ seen' = [seen EXCEPT ![id] = None]
                      /\ UNCHANGED <<external, list, writer, call, calls, pending,
                                     seenLength, crashed, blind>>

Goes(g) == \/ RLock(g) \/ Length(g) \/ Lock(g)
           \/ PutValue(g) \/ FindItem(g) \/ SetItem(g)
           \/ Change(g) \/ RemoveNothing(g)
           \/ ReadValue(g) \/ WriteValue(g) \/ Unlock(g) \/ Trigger(g)

(* What trigger has posted is run. *)
Tell == TellList \/ \E id \in Items : TellItem(id)

Next == /\ ~crashed
        /\ \/ \E g \in Goroutines : Begin(g) \/ Goes(g)
           \/ Tell
           \/ \E id \in Items : AddListener(id) \/ RemoveListener(id)

Spec == Init /\ [][Next]_vars

-----------------------------------------------------------------------------
(* A reader that asks for the lock again while a writer waits for it to let *)
(* go: neither goes on, and nobody else gets the lock.                      *)
Jammed == writer # None /\ Readers # {}

(* "All APIs on bindable data items are safe to invoke directly fron any    *)
(* goroutine" (binding.go 25): no calls of them block each other.  They do: *)
(* GetValue and SetValue hold the lock for reading and call Length, which   *)
(* takes it again (lists.go 351-360, 481-484).                              *)
NeverJams == ~Jammed

(* Short of that, the calls do not block each other: no path leaves the     *)
(* lock behind (lists.go 388-437), and while any call is under way, one of  *)
(* them goes on.  As none of them has more than a few steps, each returns.  *)
CallsGoOn == \/ \A g \in Goroutines : At(g, "idle")
             \/ Jammed \/ crashed
             \/ ENABLED \E g \in Goroutines : Goes(g)

(* "Listeners are called each time the data inside this DataItem changes"   *)
(* (binding.go 30): when nothing is under way, every listener was last told *)
(* what there is, whatever calls crossed each other.  Not so for two items: *)
(* an external one that was set, whose old is behind, so that a Set of the  *)
(* list that brings the old value back passes it by; and one whose place an *)
(* item that has left the list still writes (lists.go 536-563).             *)
InStep == (\A g \in Goroutines : At(g, "idle")) /\ pending = {}
            => /\ seenLength = Len(val)
               /\ \A i \in 1..Len(val) :
                    seen[items[i]] \in {None, val[i]} \/ items[i] \in blind
================================================================================
