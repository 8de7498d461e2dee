---------------------------- MODULE DataList_proofs ----------------------------
(****************************************************************************)
(* Theorems about a bound list, for any goroutines, any values and any      *)
(* length: once all is quiet every listener was last told what there is,    *)
(* and the lock is held where the calls say and nowhere else.  StepInv says *)
(* what each call has in hand at each of its places, and which call is      *)
(* still to come to an item that is behind.                                 *)
(****************************************************************************)
EXTENDS DataList, SequenceTheorems, TLAPS

Ats == {"idle", "lock", "locked", "rlock", "length", "find", "set", "read",
        "write", "trigger"}
Kinds == {"none", "change", "GetValue", "SetValue"}

CallType == [at : Ats, kind : Kinds, i : Nat, to : Nat, v : Values,
             id : 0..MaxItems, resized : BOOLEAN]

TypeOK ==
  /\ external \in BOOLEAN
  /\ val \in Seq(Values) /\ items \in Seq(Items) /\ Len(val) = Len(items)
  /\ index \in [Items -> Nat] /\ old \in [Items -> Values]
  /\ made \in 0..MaxItems
  /\ writer \in Goroutines \cup {None}
  /\ call \in [Goroutines -> CallType]
  /\ pending \subseteq Items \cup {List}
  /\ seen \in [Items -> Values \cup {None, "outOfBounds"}]
  /\ seenLength \in Nat

(* An item of the list has the index it stands at, and one that has left    *)
(* keeps the one it had; an item not yet made has no listener.              *)
Placed ==
  /\ \A i \in 1..Len(items) : items[i] \in 1..made /\ index[items[i]] = i
  /\ \A id \in 1..made : index[id] >= 1
  /\ \A id \in Items : id > made => seen[id] = None

(* Who has the lock is where it is held, and nobody else is there. *)
Held == \A g \in Goroutines :
          writer = g <=> call[g].at \in {"locked", "read", "write"}

(* What a call has in hand at each place. *)
InHand ==
  \A g \in Goroutines :
    /\ call[g].kind = "SetValue" => call[g].i >= 1
    /\ call[g].at = "find" => call[g].i >= 1
    /\ call[g].at = "set" => call[g].id \in 1..made
    /\ call[g].at \in {"read", "write"} => call[g].i >= 1 /\ call[g].to <= Len(items)
    /\ call[g].at = "write" => call[g].i <= call[g].to

(* A SetValue that has written place i is still to tell the item there, *)
ToTell(i) == \E g \in Goroutines :
               \/ call[g].at = "find" /\ call[g].i = i
               \/ call[g].at = "set" /\ call[g].id = items[i]

(* and doReload is still to come to place i. *)
ToReload(i) == \E g \in Goroutines :
                 call[g].at \in {"read", "write"} /\ call[g].i <= i /\ i <= call[g].to

Knows(id, v) == id \in pending \/ seen[id] \in {None, v}

(* The place of an external item holds its old, and its listener knows the  *)
(* one or the other; what doReload has read is not behind both.             *)
ExternalInStep(i) ==
  LET id == items[i]
  IN  /\ val[i] = old[id] \/ ToReload(i)
      /\ Knows(id, old[id]) \/ Knows(id, val[i])
      /\ \A g \in Goroutines : call[g].at = "write" /\ call[g].i = i
           => call[g].v = val[i] \/ val[i] = old[id]

ItemInStep(i) ==
  \/ items[i] \in blind
  \/ ToTell(i)
  \/ IF external THEN ExternalInStep(i) ELSE Knows(items[i], val[i]) \/ ToReload(i)

LengthInStep ==
  \/ seenLength = Len(items)
  \/ List \in pending
  \/ \E g \in Goroutines :
       call[g].resized /\ call[g].at \in {"read", "write", "trigger"}

StepInv == /\ TypeOK /\ Placed /\ Held /\ InHand /\ LengthInStep
           /\ \A i \in 1..Len(items) : ItemInStep(i)

-----------------------------------------------------------------------------
(* The operators *)

LEMMA CallFields ==
  ASSUME NEW c \in CallType
  PROVE /\ c.at \in Ats /\ c.kind \in Kinds /\ c.i \in Nat /\ c.to \in Nat
        /\ c.v \in Values /\ c.id \in 0..MaxItems /\ c.resized \in BOOLEAN
BY DEF CallType

(* MaxItems bounds the items from above, AnyValue is one of the values. *)
LEMMA IdleIsACall == /\ Idle \in CallType
                     /\ Idle.at = "idle" /\ Idle.kind = "none" /\ Idle.i = 0
<1>1. AnyValue \in Values
  BY DataListAssumption, Zenon DEF AnyValue
<1>2. 0 \in 0..MaxItems
  BY DataListAssumption
<1> QED
  BY <1>1, <1>2 DEF Idle, CallType, Ats, Kinds

(* A call that is replaced is the only one that changes. *)
LEMMA OneMoves ==
  ASSUME NEW f, f \in [Goroutines -> CallType], NEW g \in Goroutines,
         NEW c \in CallType, NEW f2, f2 = [f EXCEPT ![g] = c]
  PROVE /\ f2 \in [Goroutines -> CallType]
        /\ f2[g] = c
        /\ \A h \in Goroutines \ {g} : f2[h] = f[h]
OBVIOUS

(* A call with another place is the same otherwise. *)
LEMMA GotoMoves ==
  ASSUME TypeOK, NEW g \in Goroutines, NEW place \in Ats, Goto(g, place)
  PROVE /\ call' \in [Goroutines -> CallType]
        /\ call'[g].at = place
        /\ call'[g].kind = call[g].kind /\ call'[g].i = call[g].i
        /\ call'[g].to = call[g].to /\ call'[g].v = call[g].v
        /\ call'[g].id = call[g].id /\ call'[g].resized = call[g].resized
        /\ \A h \in Goroutines \ {g} : call'[h] = call[h]
<1>1. PICK d : d = [call[g] EXCEPT !.at = place]
  OBVIOUS
<1>2. call[g] \in CallType
  BY DEF TypeOK
<1>3. /\ d \in CallType
      /\ d.at = place /\ d.kind = call[g].kind /\ d.i = call[g].i
      /\ d.to = call[g].to /\ d.v = call[g].v /\ d.id = call[g].id
      /\ d.resized = call[g].resized
  BY <1>1, <1>2 DEF CallType
<1>4. call' = [call EXCEPT ![g] = d]
  BY <1>1 DEF Goto
<1>5. call \in [Goroutines -> CallType]
  BY DEF TypeOK
<1> QED
  BY <1>3, <1>4, <1>5, OneMoves

LEMMA ReturnMoves ==
  ASSUME TypeOK, NEW g \in Goroutines, Return(g)
  PROVE /\ call' \in [Goroutines -> CallType]
        /\ call'[g].at = "idle" /\ call'[g].kind = "none"
        /\ \A h \in Goroutines \ {g} : call'[h] = call[h]
<1>1. call \in [Goroutines -> CallType]
  BY DEF TypeOK
<1>2. call' = [call EXCEPT ![g] = Idle]
  BY DEF Return, Start
<1> QED
  BY <1>1, <1>2, IdleIsACall, OneMoves

(* The types of what the places of the list lead to. *)
LEMMA PlaceTypes ==
  ASSUME TypeOK, Placed, NEW i \in 1..Len(items)
  PROVE /\ i \in Nat /\ i >= 1 /\ i <= Len(items)
        /\ items[i] \in Items /\ items[i] \in 1..made /\ items[i] # List
        /\ index[items[i]] = i
        /\ val[i] \in Values /\ old[items[i]] \in Values
<1>1. Len(items) \in Nat /\ Len(val) = Len(items)
  BY DEF TypeOK
<1>2. i \in Nat /\ i >= 1 /\ i <= Len(items)
  BY <1>1
<1>3. items[i] \in Items
  BY DEF TypeOK
<1>4. items[i] \in 1..made /\ index[items[i]] = i
  BY DEF Placed
<1>5. items[i] # List
  BY <1>3 DEF Items, List
<1>6. val[i] \in Values
  BY <1>1 DEF TypeOK
<1>7. old[items[i]] \in Values
  BY <1>3 DEF TypeOK
<1> QED
  BY <1>2, <1>3, <1>4, <1>5, <1>6, <1>7

-----------------------------------------------------------------------------
(* A step that only moves a call between places where nothing is told. *)
Quiet(g) ==
  /\ UNCHANGED <<external, list, listeners, blind>>
  /\ call' \in [Goroutines -> CallType]
  /\ \A h \in Goroutines \ {g} : call'[h] = call[h]
  /\ call[g].at \notin {"find", "set", "read", "write"}
  /\ call'[g].at # "write"

LEMMA QuietKeeps ==
  ASSUME StepInv, NEW g \in Goroutines, Quiet(g)
  PROVE \A i \in 1..Len(items') : ItemInStep(i)'
<1> SUFFICES ASSUME NEW i \in 1..Len(items)
             PROVE ItemInStep(i)'
  BY DEF Quiet, list
<1>1. /\ external' = external /\ val' = val /\ items' = items /\ old' = old
      /\ pending' = pending /\ seen' = seen /\ blind' = blind
      /\ \A h \in Goroutines \ {g} : call'[h] = call[h]
      /\ call[g].at \notin {"find", "set", "read", "write"}
      /\ call'[g].at # "write"
  BY DEF Quiet, list, listeners
<1>2. ItemInStep(i)
  BY DEF StepInv
<1>3. ToTell(i) => ToTell(i)'
  BY <1>1 DEF ToTell
<1>4. ToReload(i) => ToReload(i)'
  BY <1>1 DEF ToReload
<1>5. /\ Knows(items[i], val[i]) => Knows(items[i], val[i])'
      /\ Knows(items[i], old[items[i]]) => Knows(items[i], old[items[i]])'
  BY <1>1 DEF Knows
<1>6. ExternalInStep(i) => ExternalInStep(i)'
  BY <1>1, <1>4, <1>5 DEF ExternalInStep
<1> QED
  BY <1>1, <1>2, <1>3, <1>4, <1>5, <1>6 DEF ItemInStep

-----------------------------------------------------------------------------
(* The initial state *)

LEMMA InitStepInv == Init => StepInv
<1> SUFFICES ASSUME Init
             PROVE StepInv
  OBVIOUS
<1>1. /\ val \in Lists /\ made = Len(val) /\ made <= MaxItems
      /\ items = [i \in 1..made |-> i]
      /\ index = [id \in Items |-> IF id <= made THEN id ELSE 0]
      /\ old = [id \in Items |-> IF id <= made THEN val[id] ELSE AnyValue]
      /\ writer = None /\ call = [g \in Goroutines |-> Idle]
      /\ pending = {} /\ seenLength = made /\ seen = [id \in Items |-> None]
      /\ external \in BOOLEAN /\ blind = {}
  <2>1. <<>> \in Lists
    <3>1. <<>> \in [1..0 -> Values]
      OBVIOUS
    <3>2. 0 \in 0..MaxLen
      BY DataListAssumption
    <3> QED
      BY <3>1, <3>2 DEF Lists
  <2> QED
    BY <2>1 DEF Init
<1>2. PICK n \in 0..MaxLen : val \in [1..n -> Values]
  BY <1>1 DEF Lists
<1>3. val \in Seq(Values) /\ Len(val) = n /\ made = n /\ made \in Nat
  BY <1>1, <1>2, DataListAssumption
<1>4. /\ items \in Seq(Items) /\ Len(items) = made
      /\ \A i \in 1..made : items[i] = i
  BY <1>1, <1>3, DataListAssumption DEF Items
<1>5. \A i \in 1..made : val[i] \in Values
  BY <1>3
<1>6. AnyValue \in Values
  BY DataListAssumption, Zenon DEF AnyValue
<1>7. \A g \in Goroutines : call[g] = Idle /\ call[g].at = "idle" /\ call[g].kind = "none"
  BY <1>1, IdleIsACall
<1>8. \A id \in Items : seen[id] = None
  BY <1>1
<1>9. \A i \in 1..made : i \in Items /\ index[i] = i /\ old[i] = val[i]
  BY <1>1, <1>3, DataListAssumption DEF Items
<1>10. TypeOK
  <2>1. index \in [Items -> Nat]
    BY <1>1, <1>3 DEF Items
  <2>2. old \in [Items -> Values]
    BY <1>1, <1>3, <1>5, <1>6 DEF Items
  <2>3. made \in 0..MaxItems
    BY <1>1, <1>3, DataListAssumption
  <2>4. call \in [Goroutines -> CallType]
    BY <1>1, IdleIsACall
  <2>5. seen \in [Items -> Values \cup {None, "outOfBounds"}]
    BY <1>1
  <2> QED
    BY <1>1, <1>3, <1>4, <2>1, <2>2, <2>3, <2>4, <2>5 DEF TypeOK
<1>11. Placed
  BY <1>3, <1>4, <1>8, <1>9 DEF Placed
<1>12. Held
  BY <1>1, <1>7, DataListAssumption DEF Held
<1>13. InHand
  BY <1>7 DEF InHand
<1>14. LengthInStep
  BY <1>1, <1>4 DEF LengthInStep
<1>15. ASSUME NEW i \in 1..Len(items)
       PROVE ItemInStep(i)
  <2>1. items[i] = i /\ i \in Items /\ old[i] = val[i] /\ seen[i] = None
    BY <1>4, <1>8, <1>9
  <2>2. Knows(i, val[i])
    BY <2>1 DEF Knows
  <2>3. ExternalInStep(i)
    BY <1>7, <2>1, <2>2 DEF ExternalInStep
  <2> QED
    BY <2>1, <2>2, <2>3 DEF ItemInStep
<1> QED
  BY <1>10, <1>11, <1>12, <1>13, <1>14, <1>15 DEF StepInv

-----------------------------------------------------------------------------
(* The steps *)

(* What Begin gives a call in hand. *)
Begun(c) == /\ c \in CallType /\ c.at \in {"lock", "rlock", "set"}
            /\ c.kind = "SetValue" => c.i >= 1
            /\ c.at = "set" => c.id \in 1..made

LEMMA BeginKeeps ==
  ASSUME StepInv, NEW g \in Goroutines, Begin(g)
  PROVE StepInv'
<1> USE DEF At
<1>1. /\ call[g].at = "idle"
      /\ UNCHANGED <<external, list, writer, listeners, crashed, blind>>
  BY DEF Begin
<1>2. PICK c : Begun(c) /\ Start(g, c)
  <2>1. CASE Start(g, [Idle EXCEPT !.at = "lock", !.kind = "change"])
    <3>1. PICK c : c = [Idle EXCEPT !.at = "lock", !.kind = "change"]
      OBVIOUS
    <3>2. Begun(c)
      BY <3>1, IdleIsACall DEF Begun, CallType, Ats, Kinds
    <3>3. Start(g, c)
      BY <2>1, <3>1
    <3> QED
      BY <3>2, <3>3, Zenon
  <2>2. CASE Start(g, [Idle EXCEPT !.at = "rlock", !.kind = "GetValue"])
    <3>1. PICK c : c = [Idle EXCEPT !.at = "rlock", !.kind = "GetValue"]
      OBVIOUS
    <3>2. Begun(c)
      BY <3>1, IdleIsACall DEF Begun, CallType, Ats, Kinds
    <3>3. Start(g, c)
      BY <2>2, <3>1
    <3> QED
      BY <3>2, <3>3, Zenon
  <2>3. ASSUME NEW i \in 1..MaxLen, NEW v \in Values,
               Start(g, [Idle EXCEPT !.at = "rlock", !.kind = "SetValue", !.i = i, !.v = v])
        PROVE \E c : Begun(c) /\ Start(g, c)
    <3>1. PICK c : c = [Idle EXCEPT !.at = "rlock", !.kind = "SetValue", !.i = i, !.v = v]
      OBVIOUS
    <3>2. i \in Nat /\ i >= 1
      BY DataListAssumption
    <3>3. c \in CallType
      BY <3>1, <3>2, IdleIsACall DEF CallType, Ats, Kinds
    <3>4. c.at = "rlock" /\ c.i = i
      BY <3>1, IdleIsACall DEF CallType
    <3>5. Begun(c)
      BY <3>2, <3>3, <3>4 DEF Begun
    <3>6. Start(g, c)
      BY <2>3, <3>1
    <3> QED
      BY <3>5, <3>6, Zenon
  <2>4. ASSUME NEW id \in 1..made, NEW v \in Values,
               Start(g, [Idle EXCEPT !.at = "set", !.id = id, !.v = v])
        PROVE \E c : Begun(c) /\ Start(g, c)
    <3>1. PICK c : c = [Idle EXCEPT !.at = "set", !.id = id, !.v = v]
      OBVIOUS
    <3>2. id \in 0..MaxItems
      BY DataListAssumption DEF StepInv, TypeOK
    <3>3. c \in CallType
      BY <3>1, <3>2, IdleIsACall DEF CallType, Ats, Kinds
    <3>4. c.at = "set" /\ c.id = id /\ c.kind = "none"
      BY <3>1, IdleIsACall DEF CallType
    <3>5. Begun(c)
      BY <3>3, <3>4 DEF Begun
    <3>6. Start(g, c)
      BY <2>4, <3>1
    <3> QED
      BY <3>5, <3>6, Zenon
  <2> QED
    BY <2>1, <2>2, <2>3, <2>4, Zenon DEF Begin
<1>4. /\ call' \in [Goroutines -> CallType] /\ call'[g] = c
      /\ \A h \in Goroutines \ {g} : call'[h] = call[h]
  <2>1. call \in [Goroutines -> CallType]
    BY DEF StepInv, TypeOK
  <2>2. call' = [call EXCEPT ![g] = c]
    BY <1>2 DEF Start
  <2> QED
    BY <1>2, <2>1, <2>2, OneMoves DEF Begun
<1>5. TypeOK'
  BY <1>1, <1>4 DEF StepInv, TypeOK, list, listeners
<1>6. Placed'
  BY <1>1 DEF StepInv, Placed, list, listeners
<1>7. Held'
  BY <1>1, <1>2, <1>4 DEF StepInv, Begun, Held
<1>8. InHand'
  BY <1>1, <1>2, <1>4 DEF StepInv, Begun, InHand, list
<1>9. LengthInStep'
  BY <1>1, <1>4 DEF StepInv, LengthInStep, list, listeners
<1>10. Quiet(g)
  BY <1>1, <1>2, <1>4 DEF Quiet, Begun
<1> QED
  BY <1>5, <1>6, <1>7, <1>8, <1>9, <1>10, QuietKeeps DEF StepInv

LEMMA RLockKeeps ==
  ASSUME StepInv, NEW g \in Goroutines, RLock(g)
  PROVE StepInv'
<1>1. /\ call[g].at = "rlock" /\ Goto(g, "length")
      /\ UNCHANGED <<external, list, writer, listeners, blind>>
  BY DEF RLock, At
<1>2. /\ call' \in [Goroutines -> CallType]
      /\ call'[g].at = "length"
      /\ call'[g].kind = call[g].kind /\ call'[g].i = call[g].i
      /\ \A h \in Goroutines \ {g} : call'[h] = call[h]
  BY <1>1, GotoMoves DEF StepInv, Ats
<1>3. TypeOK'
  BY <1>1, <1>2 DEF StepInv, TypeOK, list, listeners
<1>4. Placed'
  BY <1>1 DEF StepInv, Placed, list, listeners
<1>5. Held'
  BY <1>1, <1>2 DEF StepInv, Held
<1>6. InHand'
  BY <1>1, <1>2 DEF StepInv, InHand, list
<1>7. LengthInStep'
  BY <1>1, <1>2 DEF StepInv, LengthInStep, list, listeners
<1>8. Quiet(g)
  BY <1>1, <1>2 DEF Quiet
<1> QED
  BY <1>3, <1>4, <1>5, <1>6, <1>7, <1>8, QuietKeeps DEF StepInv

LEMMA LengthKeeps ==
  ASSUME StepInv, NEW g \in Goroutines, Length(g)
  PROVE StepInv'
<1>1. /\ call[g].at = "length" /\ (Goto(g, "lock") \/ Return(g))
      /\ UNCHANGED <<external, list, writer, listeners, blind>>
  BY DEF Length, At
<1>2. /\ call' \in [Goroutines -> CallType]
      /\ \/ /\ call'[g].at = "lock"
            /\ call'[g].kind = call[g].kind /\ call'[g].i = call[g].i
         \/ call'[g].at = "idle" /\ call'[g].kind = "none"
      /\ \A h \in Goroutines \ {g} : call'[h] = call[h]
  BY <1>1, GotoMoves, ReturnMoves DEF StepInv, Ats
<1>3. TypeOK'
  BY <1>1, <1>2 DEF StepInv, TypeOK, list, listeners
<1>4. Placed'
  BY <1>1 DEF StepInv, Placed, list, listeners
<1>5. Held'
  BY <1>1, <1>2 DEF StepInv, Held
<1>6. InHand'
  BY <1>1, <1>2 DEF StepInv, InHand, list
<1>7. LengthInStep'
  BY <1>1, <1>2 DEF StepInv, LengthInStep, list, listeners
<1>8. Quiet(g)
  BY <1>1, <1>2 DEF Quiet
<1> QED
  BY <1>3, <1>4, <1>5, <1>6, <1>7, <1>8, QuietKeeps DEF StepInv

LEMMA LockKeeps ==
  ASSUME StepInv, NEW g \in Goroutines, Lock(g)
  PROVE StepInv'
<1>1. /\ call[g].at = "lock" /\ writer = None /\ writer' = g /\ Goto(g, "locked")
      /\ UNCHANGED <<external, list, listeners, blind>>
  BY DEF Lock, At
<1>2. /\ call' \in [Goroutines -> CallType]
      /\ call'[g].at = "locked"
      /\ call'[g].kind = call[g].kind /\ call'[g].i = call[g].i
      /\ \A h \in Goroutines \ {g} : call'[h] = call[h]
  BY <1>1, GotoMoves DEF StepInv, Ats
<1>3. TypeOK'
  BY <1>1, <1>2 DEF StepInv, TypeOK, list, listeners
<1>4. Placed'
  BY <1>1 DEF StepInv, Placed, list, listeners
<1>5. Held'
  BY <1>1, <1>2, DataListAssumption DEF StepInv, Held
<1>6. InHand'
  BY <1>1, <1>2 DEF StepInv, InHand, list
<1>7. LengthInStep'
  BY <1>1, <1>2 DEF StepInv, LengthInStep, list, listeners
<1>8. Quiet(g)
  BY <1>1, <1>2 DEF Quiet
<1> QED
  BY <1>3, <1>4, <1>5, <1>6, <1>7, <1>8, QuietKeeps DEF StepInv

LEMMA RemoveNothingKeeps ==
  ASSUME StepInv, NEW g \in Goroutines, RemoveNothing(g)
  PROVE StepInv'
<1>1. /\ call[g].at = "locked" /\ writer' = None /\ Return(g)
      /\ UNCHANGED <<external, list, listeners, blind>>
  BY DEF RemoveNothing, Locked, At
<1>2. /\ call' \in [Goroutines -> CallType]
      /\ call'[g].at = "idle" /\ call'[g].kind = "none"
      /\ \A h \in Goroutines \ {g} : call'[h] = call[h]
  BY <1>1, ReturnMoves DEF StepInv
<1>3. TypeOK'
  BY <1>1, <1>2 DEF StepInv, TypeOK, list, listeners
<1>4. Placed'
  BY <1>1 DEF StepInv, Placed, list, listeners
<1>5. Held'
  BY <1>1, <1>2, DataListAssumption DEF StepInv, Held
<1>6. InHand'
  BY <1>1, <1>2 DEF StepInv, InHand, list
<1>7. LengthInStep'
  BY <1>1, <1>2 DEF StepInv, LengthInStep, list, listeners
<1>8. Quiet(g)
  BY <1>1, <1>2 DEF Quiet
<1> QED
  BY <1>3, <1>4, <1>5, <1>6, <1>7, <1>8, QuietKeeps DEF StepInv

(* Neither does a step that posts what List stands for say anything of an   *)
(* item.                                                                    *)
LEMMA TriggerKeeps ==
  ASSUME StepInv, NEW g \in Goroutines, Trigger(g)
  PROVE StepInv'
<1>1. /\ call[g].at = "trigger" /\ Return(g) /\ pending' = pending \cup {List}
      /\ UNCHANGED <<external, list, writer, seen, seenLength, blind>>
  BY DEF Trigger, At
<1>2. /\ call' \in [Goroutines -> CallType]
      /\ call'[g].at = "idle" /\ call'[g].kind = "none"
      /\ \A h \in Goroutines \ {g} : call'[h] = call[h]
  BY <1>1, ReturnMoves DEF StepInv
<1>3. TypeOK'
  BY <1>1, <1>2 DEF StepInv, TypeOK, list
<1>4. Placed'
  BY <1>1 DEF StepInv, Placed, list
<1>5. Held'
  BY <1>1, <1>2 DEF StepInv, Held
<1>6. InHand'
  BY <1>1, <1>2 DEF StepInv, InHand, list
<1>7. LengthInStep'
  BY <1>1 DEF LengthInStep
<1>8. ASSUME NEW i \in 1..Len(items)
      PROVE ItemInStep(i)'
  <2>1. ItemInStep(i)
    BY DEF StepInv
  <2>2. ToTell(i) => ToTell(i)'
    BY <1>1, <1>2 DEF ToTell, list
  <2>3. ToReload(i) => ToReload(i)'
    BY <1>1, <1>2 DEF ToReload
  <2>4. /\ Knows(items[i], val[i]) => Knows(items[i], val[i])'
        /\ Knows(items[i], old[items[i]]) => Knows(items[i], old[items[i]])'
    BY <1>1 DEF Knows, list
  <2>5. ExternalInStep(i) => ExternalInStep(i)'
    BY <1>1, <1>2, <2>3, <2>4 DEF ExternalInStep, list
  <2> QED
    BY <1>1, <2>1, <2>2, <2>3, <2>4, <2>5 DEF ItemInStep, list
<1>9. \A i \in 1..Len(items)' : ItemInStep(i)'
  BY <1>1, <1>8 DEF list
<1> QED
  BY <1>3, <1>4, <1>5, <1>6, <1>7, <1>9 DEF StepInv

(* A step of what the invariant does not mention. *)
LEMMA FrameKeeps ==
  ASSUME StepInv, UNCHANGED <<external, list, listeners, writer, call, blind>>
  PROVE StepInv'
<1>1. UNCHANGED <<external, val, items, index, old, made, pending, seen, seenLength,
                  writer, call, blind>>
  BY DEF list, listeners
<1>2. TypeOK' /\ Placed' /\ Held' /\ InHand' /\ LengthInStep'
  BY <1>1 DEF StepInv, TypeOK, Placed, Held, InHand, LengthInStep
<1>3. ASSUME NEW i \in 1..Len(items)
      PROVE ItemInStep(i)'
  <2>1. ItemInStep(i)
    BY DEF StepInv
  <2> QED
    BY <1>1, <2>1 DEF ItemInStep, ToTell, ToReload, ExternalInStep, Knows
<1> QED
  BY <1>1, <1>2, <1>3 DEF StepInv

LEMMA PutValueKeeps ==
  ASSUME StepInv, NEW g \in Goroutines, PutValue(g)
  PROVE StepInv'
<1> SUFFICES ASSUME call[g].i <= Len(val)
             PROVE StepInv'
  BY FrameKeeps DEF PutValue, list, listeners
<1>1. /\ call[g].at = "locked" /\ call[g].kind = "SetValue"
      /\ val' = [val EXCEPT ![call[g].i] = call[g].v]
      /\ writer' = None /\ Goto(g, "find")
      /\ UNCHANGED <<external, items, index, old, made, pending, seen, seenLength, blind>>
  BY DEF PutValue, Locked, At, listeners
<1>2. /\ call' \in [Goroutines -> CallType]
      /\ call'[g].at = "find"
      /\ call'[g].kind = call[g].kind /\ call'[g].i = call[g].i
      /\ \A h \in Goroutines \ {g} : call'[h] = call[h]
  BY <1>1, GotoMoves DEF StepInv, Ats
<1>3. call[g] \in CallType /\ call[g].i \in Nat /\ call[g].i >= 1 /\ call[g].v \in Values
  BY <1>1, CallFields DEF StepInv, TypeOK, InHand
<1>4. /\ val' \in Seq(Values) /\ Len(val') = Len(val)
      /\ \A j \in 1..Len(val) : j # call[g].i => val'[j] = val[j]
  BY <1>1, <1>3 DEF StepInv, TypeOK
<1>5. TypeOK'
  BY <1>1, <1>2, <1>4 DEF StepInv, TypeOK
<1>6. Placed'
  BY <1>1 DEF StepInv, Placed
<1>7. Held'
  BY <1>1, <1>2, DataListAssumption DEF StepInv, Held
<1>8. InHand'
  BY <1>1, <1>2, <1>3 DEF StepInv, InHand
<1>9. LengthInStep'
  BY <1>1, <1>2 DEF StepInv, LengthInStep
<1>10. ASSUME NEW i \in 1..Len(items)
       PROVE ItemInStep(i)'
  <2>1. CASE i = call[g].i
    <3>1. ToTell(i)'
      BY <1>2, <2>1 DEF ToTell
    <3> QED
      BY <3>1 DEF ItemInStep
  <2>2. CASE i # call[g].i
    <3>1. val'[i] = val[i]
      BY <1>4, <2>2 DEF StepInv, TypeOK
    <3>2. ItemInStep(i)
      BY DEF StepInv
    <3>3. ToTell(i) => ToTell(i)'
      BY <1>1, <1>2 DEF ToTell
    <3>4. ToReload(i) => ToReload(i)'
      BY <1>1, <1>2 DEF ToReload
    <3>5. /\ Knows(items[i], val[i]) => Knows(items[i], val[i])'
          /\ Knows(items[i], old[items[i]]) => Knows(items[i], old[items[i]])'
      BY <1>1, <3>1 DEF Knows
    <3>6. ExternalInStep(i) => ExternalInStep(i)'
      BY <1>1, <1>2, <3>1, <3>4, <3>5 DEF ExternalInStep
    <3> QED
      BY <1>1, <3>2, <3>3, <3>4, <3>5, <3>6 DEF ItemInStep
  <2> QED
    BY <2>1, <2>2
<1>11. \A i \in 1..Len(items)' : ItemInStep(i)'
  BY <1>1, <1>10
<1> QED
  BY <1>5, <1>6, <1>7, <1>8, <1>9, <1>11 DEF StepInv

LEMMA FindItemKeeps ==
  ASSUME StepInv, NEW g \in Goroutines, FindItem(g)
  PROVE StepInv'
<1>1. /\ call[g].at = "find"
      /\ UNCHANGED <<external, val, items, index, old, made, writer, pending, seen,
                     seenLength, blind>>
  BY DEF FindItem, At, list, listeners
<1>2. call[g] \in CallType /\ call[g].i \in Nat /\ call[g].i >= 1 /\ Len(items) \in Nat
  BY <1>1, CallFields DEF StepInv, TypeOK, InHand
<1>3. CASE call[g].i <= Len(items)
  <2>1. call[g].i \in 1..Len(items)
    BY <1>2, <1>3
  <2>2. items[call[g].i] \in 1..made /\ items[call[g].i] \in 0..MaxItems
    BY <2>1, PlaceTypes DEF StepInv, Items
  <2>3. PICK d : d = [call[g] EXCEPT !.at = "set", !.id = items[call[g].i]]
    OBVIOUS
  <2>4. /\ d \in CallType /\ d.at = "set" /\ d.id = items[call[g].i]
        /\ d.kind = call[g].kind /\ d.i = call[g].i
    BY <1>2, <2>2, <2>3 DEF CallType, Ats
  <2>5. call' = [call EXCEPT ![g] = d]
    BY <1>3, <2>3 DEF FindItem
  <2>6. /\ call' \in [Goroutines -> CallType] /\ call'[g] = d
        /\ \A h \in Goroutines \ {g} : call'[h] = call[h]
    <3>1. call \in [Goroutines -> CallType]
      BY DEF StepInv, TypeOK
    <3> QED
      BY <2>4, <2>5, <3>1, OneMoves
  <2>7. TypeOK'
    BY <1>1, <2>6 DEF StepInv, TypeOK
  <2>8. Placed'
    BY <1>1 DEF StepInv, Placed
  <2>9. Held'
    BY <1>1, <2>4, <2>6 DEF StepInv, Held
  <2>10. InHand'
    BY <1>1, <1>2, <2>2, <2>4, <2>6 DEF StepInv, InHand
  <2>11. LengthInStep'
    BY <1>1, <2>6 DEF StepInv, LengthInStep
  <2>12. ASSUME NEW i \in 1..Len(items)
         PROVE ItemInStep(i)'
    <3>1. ItemInStep(i)
      BY DEF StepInv
    <3>2. ToTell(i) => ToTell(i)'
      BY <1>1, <2>4, <2>6 DEF ToTell
    <3>3. ToReload(i) => ToReload(i)'
      BY <1>1, <2>6 DEF ToReload
    <3>4. /\ Knows(items[i], val[i]) => Knows(items[i], val[i])'
          /\ Knows(items[i], old[items[i]]) => Knows(items[i], old[items[i]])'
      BY <1>1 DEF Knows
    <3>5. ExternalInStep(i) => ExternalInStep(i)'
      BY <1>1, <2>4, <2>6, <3>3, <3>4 DEF ExternalInStep
    <3> QED
      BY <1>1, <3>1, <3>2, <3>3, <3>4, <3>5 DEF ItemInStep
  <2>13. \A i \in 1..Len(items)' : ItemInStep(i)'
    BY <1>1, <2>12
  <2> QED
    BY <2>7, <2>8, <2>9, <2>10, <2>11, <2>13 DEF StepInv
<1>4. CASE call[g].i > Len(items)
  <2>1. /\ call' \in [Goroutines -> CallType]
        /\ call'[g].at = "idle" /\ call'[g].kind = "none"
        /\ \A h \in Goroutines \ {g} : call'[h] = call[h]
    BY <1>2, <1>4, ReturnMoves DEF FindItem, StepInv
  <2>2. TypeOK'
    BY <1>1, <2>1 DEF StepInv, TypeOK
  <2>3. Placed'
    BY <1>1 DEF StepInv, Placed
  <2>4. Held'
    BY <1>1, <2>1 DEF StepInv, Held
  <2>5. InHand'
    BY <1>1, <2>1 DEF StepInv, InHand
  <2>6. LengthInStep'
    BY <1>1, <2>1 DEF StepInv, LengthInStep
  <2>7. ASSUME NEW i \in 1..Len(items)
        PROVE ItemInStep(i)'
    <3>1. ItemInStep(i) /\ i <= Len(items) /\ i \in Nat
      BY <1>2 DEF StepInv
    <3>2. ToTell(i) => ToTell(i)'
      BY <1>1, <1>2, <1>4, <2>1, <3>1 DEF ToTell
    <3>3. ToReload(i) => ToReload(i)'
      BY <1>1, <2>1 DEF ToReload
    <3>4. /\ Knows(items[i], val[i]) => Knows(items[i], val[i])'
          /\ Knows(items[i], old[items[i]]) => Knows(items[i], old[items[i]])'
      BY <1>1 DEF Knows
    <3>5. ExternalInStep(i) => ExternalInStep(i)'
      BY <1>1, <2>1, <3>3, <3>4 DEF ExternalInStep
    <3> QED
      BY <1>1, <3>1, <3>2, <3>3, <3>4, <3>5 DEF ItemInStep
  <2>8. \A i \in 1..Len(items)' : ItemInStep(i)'
    BY <1>1, <2>7
  <2> QED
    BY <2>2, <2>3, <2>4, <2>5, <2>6, <2>8 DEF StepInv
<1> QED
  BY <1>2, <1>3, <1>4

LEMMA SetItemKeeps ==
  ASSUME StepInv, NEW g \in Goroutines, SetItem(g)
  PROVE StepInv'
<1>1. PICK id : id = call[g].id
  OBVIOUS
<1>2. PICK v : v = call[g].v
  OBVIOUS
<1> SUFFICES ASSUME index[id] <= Len(val)
             PROVE StepInv'
  BY <1>1, FrameKeeps DEF SetItem, list, listeners
<1>3. /\ call[g].at = "set"
      /\ val' = [val EXCEPT ![index[id]] = v]
      /\ pending' = pending \cup {id}
      /\ blind' = (blind \ {id}) \cup Missed(id, v)
      /\ Return(g)
      /\ UNCHANGED <<external, items, index, old, made, writer, seen, seenLength>>
  BY <1>1, <1>2 DEF SetItem, At
<1>4. /\ call' \in [Goroutines -> CallType]
      /\ call'[g].at = "idle" /\ call'[g].kind = "none"
      /\ \A h \in Goroutines \ {g} : call'[h] = call[h]
  BY <1>3, ReturnMoves DEF StepInv
<1>5. call[g] \in CallType /\ v \in Values
  BY <1>2, CallFields DEF StepInv, TypeOK
<1>6. id \in 1..made /\ id \in Items
  BY <1>1, <1>3, DataListAssumption DEF StepInv, TypeOK, InHand, Items
<1>7. index[id] \in Nat /\ index[id] >= 1
  BY <1>6 DEF StepInv, TypeOK, Placed
<1>8. /\ val' \in Seq(Values) /\ Len(val') = Len(val) /\ Len(val) \in Nat
      /\ val'[index[id]] = v
      /\ \A j \in 1..Len(val) : j # index[id] => val'[j] = val[j]
  BY <1>3, <1>5, <1>7 DEF StepInv, TypeOK
<1>9. TypeOK'
  BY <1>3, <1>4, <1>6, <1>8 DEF StepInv, TypeOK
<1>10. Placed'
  BY <1>3 DEF StepInv, Placed
<1>11. Held'
  BY <1>3, <1>4 DEF StepInv, Held
<1>12. InHand'
  BY <1>3, <1>4 DEF StepInv, InHand
<1>13. LengthInStep'
  BY <1>3, <1>4 DEF StepInv, LengthInStep
<1>14. ASSUME NEW i \in 1..Len(items)
       PROVE ItemInStep(i)'
  <2>1. index[items[i]] = i /\ items[i] \in Items /\ i \in 1..Len(val) /\ i \in Nat
    BY PlaceTypes DEF StepInv, TypeOK
  <2>2. CASE items[i] = id
    <3>1. val'[i] = v /\ id \in pending'
      BY <1>3, <1>8, <2>1, <2>2
    <3>2. external => id \in blind' \/ v = old'[id]
      BY <1>3 DEF Missed
    <3> QED
      BY <1>3, <2>2, <3>1, <3>2 DEF ItemInStep, ExternalInStep, Knows
  <2>3. CASE items[i] # id /\ index[id] = i
    <3>1. items[i] \in Missed(id, v)
      BY <2>3 DEF Missed
    <3> QED
      BY <1>3, <3>1 DEF ItemInStep
  <2>4. CASE items[i] # id /\ index[id] # i
    <3>1. val'[i] = val[i]
      BY <1>8, <2>1, <2>4
    <3>2. ItemInStep(i)
      BY DEF StepInv
    <3>3. items[i] \in blind => items[i] \in blind'
      BY <1>3, <2>4
    <3>4. ToTell(i) => ToTell(i)'
      BY <1>1, <1>3, <1>4, <2>4 DEF ToTell
    <3>5. ToReload(i) => ToReload(i)'
      BY <1>3, <1>4 DEF ToReload
    <3>6. /\ Knows(items[i], val[i]) => Knows(items[i], val[i])'
          /\ Knows(items[i], old[items[i]]) => Knows(items[i], old[items[i]])'
      BY <1>3, <3>1 DEF Knows
    <3>7. ExternalInStep(i) => ExternalInStep(i)'
      BY <1>3, <1>4, <3>1, <3>5, <3>6 DEF ExternalInStep
    <3> QED
      BY <1>3, <3>2, <3>3, <3>4, <3>5, <3>6, <3>7 DEF ItemInStep
  <2> QED
    BY <2>2, <2>3, <2>4
<1>15. \A i \in 1..Len(items)' : ItemInStep(i)'
  BY <1>3, <1>14
<1> QED
  BY <1>9, <1>10, <1>11, <1>12, <1>13, <1>15 DEF StepInv

LEMMA ReadValueKeeps ==
  ASSUME StepInv, NEW g \in Goroutines, ReadValue(g)
  PROVE StepInv'
<1>1. /\ call[g].at = "read" /\ call[g].i <= call[g].to
      /\ call' = [call EXCEPT ![g].at = "write", ![g].v = val[call[g].i]]
      /\ UNCHANGED <<external, val, items, index, old, made, writer, pending, seen,
                     seenLength, blind>>
  BY DEF ReadValue, At, list, listeners
<1>2. /\ call[g] \in CallType /\ call[g].i \in Nat /\ call[g].to \in Nat
      /\ call[g].i >= 1 /\ call[g].to <= Len(items) /\ Len(items) \in Nat
  BY <1>1, CallFields DEF StepInv, TypeOK, InHand
<1>3. val[call[g].i] \in Values
  <2>1. call[g].i \in 1..Len(items)
    BY <1>1, <1>2
  <2> QED
    BY <2>1, PlaceTypes DEF StepInv
<1>4. PICK d : d = [call[g] EXCEPT !.at = "write", !.v = val[call[g].i]]
  OBVIOUS
<1>5. /\ d \in CallType /\ d.at = "write" /\ d.v = val[call[g].i]
      /\ d.kind = call[g].kind /\ d.i = call[g].i /\ d.to = call[g].to
      /\ d.resized = call[g].resized
  BY <1>2, <1>3, <1>4 DEF CallType, Ats
<1>6. /\ call' \in [Goroutines -> CallType] /\ call'[g] = d
      /\ \A h \in Goroutines \ {g} : call'[h] = call[h]
  <2>1. call \in [Goroutines -> CallType]
    BY DEF StepInv, TypeOK
  <2>2. call' = [call EXCEPT ![g] = d]
    BY <1>1, <1>4
  <2> QED
    BY <1>5, <2>1, <2>2, OneMoves
<1>7. TypeOK'
  BY <1>1, <1>6 DEF StepInv, TypeOK
<1>8. Placed'
  BY <1>1 DEF StepInv, Placed
<1>9. Held'
  BY <1>1, <1>5, <1>6 DEF StepInv, Held
<1>10. InHand'
  BY <1>1, <1>2, <1>5, <1>6 DEF StepInv, InHand
<1>11. LengthInStep'
  BY <1>1, <1>5, <1>6 DEF StepInv, LengthInStep
<1>12. ASSUME NEW i \in 1..Len(items)
       PROVE ItemInStep(i)'
  <2>1. ItemInStep(i)
    BY DEF StepInv
  <2>2. ToTell(i) => ToTell(i)'
    BY <1>1, <1>6 DEF ToTell
  <2>3. ToReload(i) => ToReload(i)'
    BY <1>1, <1>5, <1>6 DEF ToReload
  <2>4. /\ Knows(items[i], val[i]) => Knows(items[i], val[i])'
        /\ Knows(items[i], old[items[i]]) => Knows(items[i], old[items[i]])'
    BY <1>1 DEF Knows
  <2>5. ExternalInStep(i) => ExternalInStep(i)'
    BY <1>1, <1>5, <1>6, <2>3, <2>4 DEF ExternalInStep
  <2> QED
    BY <1>1, <2>1, <2>2, <2>3, <2>4, <2>5 DEF ItemInStep
<1>13. \A i \in 1..Len(items)' : ItemInStep(i)'
  BY <1>1, <1>12
<1> QED
  BY <1>7, <1>8, <1>9, <1>10, <1>11, <1>13 DEF StepInv

(* Only the writer is in doReload, so that the place it writes is not in    *)
(* the way of another.                                                      *)
LEMMA WriteValueKeeps ==
  ASSUME StepInv, NEW g \in Goroutines, WriteValue(g)
  PROVE StepInv'
<1>1. PICK k : k = call[g].i
  OBVIOUS
<1>2. PICK v : v = call[g].v
  OBVIOUS
<1>3. PICK id : id = items[k]
  OBVIOUS
<1>4. /\ call[g].at = "write"
      /\ \/ external /\ v = old[id] /\ UNCHANGED <<val, old, pending, blind>>
         \/ /\ ~(external /\ v = old[id])
            /\ val' = [val EXCEPT ![k] = v]
            /\ old' = IF external THEN [old EXCEPT ![id] = v] ELSE old
            /\ pending' = pending \cup {id}
            /\ blind' = blind \ {id}
      /\ call' = [call EXCEPT ![g].at = "read", ![g].i = k + 1]
      /\ UNCHANGED <<external, items, index, made, writer, seen, seenLength>>
  BY <1>1, <1>2, <1>3 DEF WriteValue, At
<1>5. /\ call[g] \in CallType /\ k \in Nat /\ call[g].to \in Nat /\ v \in Values
      /\ k >= 1 /\ k <= call[g].to /\ call[g].to <= Len(items) /\ Len(items) \in Nat
  BY <1>1, <1>2, <1>4, CallFields DEF StepInv, TypeOK, InHand
<1>6. k \in 1..Len(items) /\ Len(val) = Len(items)
  BY <1>5 DEF StepInv, TypeOK
<1>7. id \in Items /\ index[id] = k
  BY <1>3, <1>6, PlaceTypes DEF StepInv
<1>8. PICK d : d = [call[g] EXCEPT !.at = "read", !.i = k + 1]
  OBVIOUS
<1>9. /\ d \in CallType /\ d.at = "read" /\ d.i = k + 1
      /\ d.kind = call[g].kind /\ d.to = call[g].to
      /\ d.resized = call[g].resized
  <2>1. call[g] \in CallType
    BY <1>5
  <2>2. k + 1 \in Nat
    BY <1>5
  <2> QED
    BY <1>8, <2>1, <2>2 DEF CallType, Ats
<1>10. /\ call' \in [Goroutines -> CallType] /\ call'[g] = d
       /\ \A h \in Goroutines \ {g} : call'[h] = call[h]
  <2>1. call \in [Goroutines -> CallType]
    BY DEF StepInv, TypeOK
  <2>2. call' = [call EXCEPT ![g] = d]
    BY <1>4, <1>8
  <2> QED
    BY <1>9, <2>1, <2>2, OneMoves
<1>11. /\ val' \in Seq(Values) /\ Len(val') = Len(val)
       /\ \A j \in 1..Len(val) : j # k => val'[j] = val[j]
  <2>1. val \in Seq(Values) /\ v \in Values /\ k \in 1..Len(val)
    BY <1>5, <1>6 DEF StepInv, TypeOK
  <2>2. CASE val' = val
    BY <2>1, <2>2
  <2>3. CASE val' = [val EXCEPT ![k] = v]
    BY <2>1, <2>3
  <2> QED
    BY <1>4, <2>2, <2>3
<1>12. /\ old' \in [Items -> Values]
       /\ \A j \in Items : j # id => old'[j] = old[j]
  BY <1>4, <1>5 DEF StepInv, TypeOK
<1>13. pending \subseteq pending' /\ pending' \subseteq Items \cup {List}
  BY <1>4, <1>7 DEF StepInv, TypeOK
<1>14. \A j \in Items : j # id /\ j \in blind => j \in blind'
  BY <1>4
<1>15. TypeOK'
  BY <1>4, <1>10, <1>11, <1>12, <1>13 DEF StepInv, TypeOK
<1>16. Placed'
  BY <1>4 DEF StepInv, Placed
<1>17. Held'
  BY <1>4, <1>9, <1>10 DEF StepInv, Held
<1>18. InHand'
  BY <1>4, <1>5, <1>9, <1>10 DEF StepInv, InHand
<1>19. LengthInStep'
  BY <1>4, <1>9, <1>10, <1>13 DEF StepInv, LengthInStep
<1>20. \A h \in Goroutines \ {g} : call[h].at \notin {"read", "write"}
  BY <1>4 DEF StepInv, Held
<1>21. ASSUME NEW i \in 1..Len(items)
       PROVE ItemInStep(i)'
  <2>1. ItemInStep(i) /\ index[items[i]] = i /\ items[i] \in Items /\ i \in Nat
    BY PlaceTypes DEF StepInv
  <2>2. ToTell(i) => ToTell(i)'
    BY <1>4, <1>10 DEF ToTell
  <2>3. CASE i = k
    <3>1. items[i] = id
      BY <1>3, <2>3
    <3>2. CASE external /\ v = old[id] /\ UNCHANGED <<val, old, pending, blind>>
      <4>1. ExternalInStep(i) => ExternalInStep(i)'
        <5>1. SUFFICES ASSUME ExternalInStep(i)
                       PROVE ExternalInStep(i)'
          OBVIOUS
        <5>2. val[i] = old[id]
          BY <1>1, <1>2, <1>4, <2>3, <3>1, <3>2, <5>1 DEF ExternalInStep
        <5>3. Knows(id, old[id])'
          BY <1>4, <3>1, <3>2, <5>1, <5>2 DEF ExternalInStep, Knows
        <5> QED
          BY <1>4, <3>1, <3>2, <5>2, <5>3 DEF ExternalInStep
      <4> QED
        BY <1>4, <2>1, <2>2, <3>2, <4>1 DEF ItemInStep
    <3>3. CASE /\ ~(external /\ v = old[id])
               /\ val' = [val EXCEPT ![k] = v]
               /\ old' = IF external THEN [old EXCEPT ![id] = v] ELSE old
               /\ pending' = pending \cup {id}
      <4>1. id \in pending' /\ val'[i] = v
        BY <1>6, <2>3, <3>3 DEF StepInv, TypeOK
      <4>2. external => old'[id] = v
        BY <1>7, <3>3 DEF StepInv, TypeOK
      <4> QED
        BY <1>4, <3>1, <4>1, <4>2 DEF ItemInStep, ExternalInStep, Knows
    <3> QED
      BY <1>4, <3>2, <3>3
  <2>4. CASE i # k
    <3>1. /\ items[i] # id /\ val'[i] = val[i] /\ old'[items[i]] = old[items[i]]
      BY <1>6, <1>7, <1>11, <1>12, <2>1, <2>4
    <3>2. ToReload(i) => ToReload(i)'
      BY <1>1, <1>4, <1>5, <1>9, <1>10, <2>1, <2>4 DEF ToReload
    <3>3. /\ Knows(items[i], val[i]) => Knows(items[i], val[i])'
          /\ Knows(items[i], old[items[i]]) => Knows(items[i], old[items[i]])'
      BY <1>4, <1>13, <3>1 DEF Knows
    <3>4. ExternalInStep(i) => ExternalInStep(i)'
      BY <1>4, <1>9, <1>10, <3>1, <3>2, <3>3 DEF ExternalInStep
    <3> QED
      BY <1>4, <1>14, <2>1, <2>2, <3>1, <3>2, <3>3, <3>4 DEF ItemInStep
  <2> QED
    BY <2>3, <2>4
<1>22. \A i \in 1..Len(items)' : ItemInStep(i)'
  BY <1>4, <1>21
<1> QED
  BY <1>15, <1>16, <1>17, <1>18, <1>19, <1>22 DEF StepInv

LEMMA UnlockKeeps ==
  ASSUME StepInv, NEW g \in Goroutines, Unlock(g)
  PROVE StepInv'
<1>1. /\ call[g].at = "read" /\ call[g].i > call[g].to
      /\ writer' = None
      /\ IF call[g].resized THEN Goto(g, "trigger") ELSE Return(g)
      /\ UNCHANGED <<external, val, items, index, old, made, pending, seen,
                     seenLength, blind>>
  BY DEF Unlock, At, list, listeners
<1>2. /\ call' \in [Goroutines -> CallType]
      /\ \/ /\ call'[g].at = "trigger" /\ call'[g].resized = call[g].resized
            /\ call'[g].kind = call[g].kind /\ call'[g].i = call[g].i
         \/ /\ call'[g].at = "idle" /\ call'[g].kind = "none"
            /\ ~call[g].resized
      /\ \A h \in Goroutines \ {g} : call'[h] = call[h]
  <2>1. CASE call[g].resized
    BY <1>1, <2>1, GotoMoves DEF StepInv, Ats
  <2>2. CASE ~call[g].resized
    BY <1>1, <2>2, ReturnMoves DEF StepInv
  <2> QED
    BY <2>1, <2>2
<1>3. TypeOK'
  BY <1>1, <1>2 DEF StepInv, TypeOK
<1>4. Placed'
  BY <1>1 DEF StepInv, Placed
<1>5. Held'
  BY <1>1, <1>2, DataListAssumption DEF StepInv, Held
<1>6. InHand'
  BY <1>1, <1>2 DEF StepInv, InHand
<1>7. LengthInStep'
  BY <1>1, <1>2 DEF StepInv, LengthInStep
<1>8. call[g].i \in Nat /\ call[g].to \in Nat
  BY CallFields DEF StepInv, TypeOK
<1>9. ASSUME NEW i \in 1..Len(items)
      PROVE ItemInStep(i)'
  <2>1. ItemInStep(i) /\ i \in Nat
    BY PlaceTypes DEF StepInv
  <2>2. ToTell(i) => ToTell(i)'
    BY <1>1, <1>2 DEF ToTell
  <2>3. ToReload(i) => ToReload(i)'
    BY <1>1, <1>2, <1>8, <2>1 DEF ToReload
  <2>4. /\ Knows(items[i], val[i]) => Knows(items[i], val[i])'
        /\ Knows(items[i], old[items[i]]) => Knows(items[i], old[items[i]])'
    BY <1>1 DEF Knows
  <2>5. ExternalInStep(i) => ExternalInStep(i)'
    BY <1>1, <1>2, <2>3, <2>4 DEF ExternalInStep
  <2> QED
    BY <1>1, <2>1, <2>2, <2>3, <2>4, <2>5 DEF ItemInStep
<1>10. \A i \in 1..Len(items)' : ItemInStep(i)'
  BY <1>1, <1>9
<1> QED
  BY <1>3, <1>4, <1>5, <1>6, <1>7, <1>10 DEF StepInv

LEMMA MaxOfTwo ==
  ASSUME NEW a \in Int, NEW b \in Int
  PROVE Max({a, b}) = IF a >= b THEN a ELSE b
<1>1. PICK m : m = IF a >= b THEN a ELSE b
  OBVIOUS
<1>2. m \in {a, b} /\ \A y \in {a, b} : m >= y
  BY <1>1
<1>3. \A x \in {a, b} : (\A y \in {a, b} : x >= y) => x = m
  BY <1>1
<1> QED
  BY <1>1, <1>2, <1>3 DEF Max

LEMMA MinOfTwo ==
  ASSUME NEW a \in Int, NEW b \in Int
  PROVE Min({a, b}) = IF a <= b THEN a ELSE b
<1>1. PICK m : m = IF a <= b THEN a ELSE b
  OBVIOUS
<1>2. m \in {a, b} /\ \A y \in {a, b} : m <= y
  BY <1>1
<1>3. \A x \in {a, b} : (\A y \in {a, b} : x <= y) => x = m
  BY <1>1
<1> QED
  BY <1>1, <1>2, <1>3 DEF Min

(* What Change does to the items: those of the places that are left stay,   *)
(* and the new ones have an index and an old that are right, and nobody has *)
(* seen them.                                                               *)
LEMMA ChangeItems ==
  ASSUME StepInv, NEW g \in Goroutines, Change(g),
         NEW b, b = Len(items), NEW n, n = Len(val')
  PROVE /\ b \in Nat /\ n \in Nat /\ val' \in Seq(Values)
        /\ items' \in Seq(Items) /\ Len(items') = n
        /\ made \in 0..MaxItems /\ made' \in 0..MaxItems /\ made' >= made
        /\ index' \in [Items -> Nat] /\ old' \in [Items -> Values]
        /\ \A id \in 1..made : index'[id] = index[id] /\ old'[id] = old[id]
        /\ \A id \in 1..made' : id > made => index'[id] >= 1
        /\ \A i \in 1..n : i <= b => items'[i] = items[i] /\ items[i] \in 1..made
        /\ \A i \in 1..n : i > b =>
             /\ items'[i] \in 1..made' /\ items'[i] \in Items /\ items'[i] > made
             /\ index'[items'[i]] = i /\ old'[items'[i]] = val'[i]
<1>1. /\ val' \in Lists /\ made + n - b <= MaxItems
      /\ items' = [i \in 1..n |-> IF i <= b THEN items[i] ELSE made + i - b]
      /\ made' = made + Max({n - b, 0})
      /\ index' = [id \in Items |-> IF id \in made + 1 .. made'
                                    THEN b + id - made ELSE index[id]]
      /\ old' = [id \in Items |-> IF id \in made + 1 .. made'
                                  THEN val'[b + id - made] ELSE old[id]]
  BY DEF Change
<1>2. PICK k \in 0..MaxLen : val' \in [1..k -> Values]
  BY <1>1 DEF Lists
<1>3. /\ val' \in Seq(Values) /\ n \in Nat /\ \A i \in 1..n : val'[i] \in Values
  BY <1>2, DataListAssumption
<1>4. b \in Nat /\ made \in Nat /\ made <= MaxItems /\ MaxItems \in Nat
  BY DataListAssumption DEF StepInv, TypeOK
<1>5. made' = IF n > b THEN made + n - b ELSE made
  <2>1. Max({n - b, 0}) = IF n - b >= 0 THEN n - b ELSE 0
    BY <1>3, <1>4, MaxOfTwo
  <2> QED
    BY <1>1, <1>3, <1>4, <2>1
<1>6. made' \in Nat /\ made' >= made /\ made' <= MaxItems
  BY <1>1, <1>3, <1>4, <1>5
<1>7. \A i \in 1..b : items[i] \in 1..made /\ items[i] \in Items
  BY PlaceTypes DEF StepInv
<1>8. \A i \in 1..n : i <= b => items'[i] = items[i] /\ items[i] \in 1..made
  BY <1>1, <1>3, <1>4, <1>7
<1>9. ASSUME NEW i \in 1..n, i > b
      PROVE /\ items'[i] = made + i - b
            /\ items'[i] \in 1..made' /\ items'[i] \in Items /\ items'[i] > made
            /\ items'[i] \in made + 1 .. made'
            /\ b + items'[i] - made = i
  <2>1. items'[i] = made + i - b
    BY <1>1, <1>3, <1>4, <1>9
  <2>2. made + i - b <= made' /\ made + i - b > made
    BY <1>3, <1>4, <1>5, <1>9
  <2> QED
    BY <1>3, <1>4, <1>6, <1>9, <2>1, <2>2 DEF Items
<1>10. \A i \in 1..n : items'[i] \in Items
  <2> SUFFICES ASSUME NEW i \in 1..n
               PROVE items'[i] \in Items
    OBVIOUS
  <2>1. CASE i <= b
    <3>1. i \in 1..b
      BY <1>3, <1>4, <2>1
    <3> QED
      BY <1>7, <1>8, <2>1, <3>1
  <2>2. CASE i > b
    BY <1>9, <2>2
  <2> QED
    BY <1>3, <1>4, <2>1, <2>2
<1>11. items' \in Seq(Items) /\ Len(items') = n
  <2>1. items' = [i \in 1..n |-> items'[i]]
    BY <1>1
  <2> QED
    BY <1>3, <1>10, <2>1
<1>12. index' \in [Items -> Nat]
  <2>1. \A id \in Items : id \in made + 1 .. made' => b + id - made \in Nat
    BY <1>4, <1>6 DEF Items
  <2>2. index \in [Items -> Nat]
    BY DEF StepInv, TypeOK
  <2> QED
    BY <1>1, <2>1, <2>2
<1>13. old' \in [Items -> Values]
  <2>1. \A id \in Items : id \in made + 1 .. made' => b + id - made \in 1..n
    BY <1>3, <1>4, <1>5 DEF Items
  <2>2. old \in [Items -> Values]
    BY DEF StepInv, TypeOK
  <2> QED
    BY <1>1, <1>3, <2>1, <2>2
<1>14. \A id \in 1..made : index'[id] = index[id] /\ old'[id] = old[id]
  BY <1>1, <1>4, <1>6 DEF Items
<1>15. \A id \in 1..made' : id > made => index'[id] >= 1
  BY <1>1, <1>4, <1>6 DEF Items
<1>16. ASSUME NEW i \in 1..n, i > b
       PROVE index'[items'[i]] = i /\ old'[items'[i]] = val'[i]
  BY <1>1, <1>9, <1>16
<1> QED
  BY <1>3, <1>4, <1>6, <1>8, <1>9, <1>11, <1>12, <1>13, <1>14, <1>15, <1>16

LEMMA ChangeKeeps ==
  ASSUME StepInv, NEW g \in Goroutines, Change(g)
  PROVE StepInv'
<1>1. PICK b : b = Len(items)
  OBVIOUS
<1>2. PICK n : n = Len(val')
  OBVIOUS
<1>3. /\ b \in Nat /\ n \in Nat /\ val' \in Seq(Values)
      /\ items' \in Seq(Items) /\ Len(items') = n
      /\ made \in 0..MaxItems /\ made' \in 0..MaxItems /\ made' >= made
      /\ index' \in [Items -> Nat] /\ old' \in [Items -> Values]
      /\ \A id \in 1..made : index'[id] = index[id] /\ old'[id] = old[id]
      /\ \A id \in 1..made' : id > made => index'[id] >= 1
      /\ \A i \in 1..n : i <= b => items'[i] = items[i] /\ items[i] \in 1..made
      /\ \A i \in 1..n : i > b =>
           /\ items'[i] \in 1..made' /\ items'[i] \in Items /\ items'[i] > made
           /\ index'[items'[i]] = i /\ old'[items'[i]] = val'[i]
  BY <1>1, <1>2, ChangeItems
<1>4. /\ call[g].at = "locked" /\ call[g].kind = "change"
      /\ UNCHANGED <<external, writer, pending, seen, seenLength, blind>>
  BY DEF Change, Locked, At, listeners
<1>5. PICK t : t = Copied(b, n)
  OBVIOUS
<1>6. t = (IF n <= b + 1 THEN n ELSE b + 1) /\ t \in Nat
  <2>1. b \in Nat /\ n \in Nat
    BY <1>3
  <2>2. Min({n, b + 1}) = IF n <= b + 1 THEN n ELSE b + 1
    BY <2>1, MinOfTwo
  <2> QED
    BY <1>5, <2>1, <2>2 DEF Copied
<1>7. PICK d : /\ call' = [call EXCEPT ![g] = d]
               /\ d \in CallType /\ d.at = "read" /\ d.i = 1 /\ d.kind = "change"
               /\ d.to = t /\ d.resized = (b # n)
  <2>1. PICK r \in BOOLEAN : r = (b # n)
    BY Zenon
  <2>2. PICK d : d = [call[g] EXCEPT !.at = "read", !.i = 1, !.to = t, !.resized = r]
    OBVIOUS
  <2>3. call[g] \in CallType
    BY DEF StepInv, TypeOK
  <2>4. d \in CallType
    BY <1>6, <2>1, <2>2, <2>3 DEF CallType, Ats
  <2>5. d.at = "read" /\ d.i = 1 /\ d.kind = "change" /\ d.to = t
    BY <1>4, <2>2, <2>3 DEF CallType
  <2>6. d.resized = r
    BY <2>2, <2>3 DEF CallType
  <2>7. call' = [call EXCEPT ![g] = d]
    BY <1>1, <1>2, <1>5, <2>1, <2>2 DEF Change
  <2> QED
    BY <2>1, <2>4, <2>5, <2>6, <2>7, Zenon
<1>8. /\ call' \in [Goroutines -> CallType] /\ call'[g] = d
      /\ \A h \in Goroutines \ {g} : call'[h] = call[h]
  <2>1. call \in [Goroutines -> CallType]
    BY DEF StepInv, TypeOK
  <2> QED
    BY <1>7, <2>1, OneMoves
<1>9. \A h \in Goroutines \ {g} : call[h].at \notin {"read", "write"}
  BY <1>4 DEF StepInv, Held
<1>10. TypeOK'
  BY <1>2, <1>3, <1>4, <1>8 DEF StepInv, TypeOK
<1>11. Placed'
  <2>1. ASSUME NEW i \in 1..n
        PROVE items'[i] \in 1..made' /\ index'[items'[i]] = i
    <3>1. CASE i <= b
      <4>1. i \in 1..b
        BY <1>3, <3>1
      <4>2. index[items[i]] = i
        BY <1>1, <4>1, PlaceTypes DEF StepInv
      <4> QED
        BY <1>3, <3>1, <4>2
    <3>2. CASE i > b
      BY <1>3, <3>2
    <3> QED
      BY <1>3, <3>1, <3>2
  <2>2. ASSUME NEW id \in 1..made'
        PROVE index'[id] >= 1
    <3>1. CASE id <= made
      <4>1. id \in 1..made
        BY <1>3, <3>1
      <4> QED
        BY <1>3, <4>1 DEF StepInv, Placed
    <3>2. CASE id > made
      BY <1>3, <3>2
    <3> QED
      BY <1>3, <3>1, <3>2
  <2>3. \A id \in Items : id > made' => seen'[id] = None
    BY <1>3, <1>4 DEF StepInv, Placed, Items
  <2> QED
    BY <1>3, <2>1, <2>2, <2>3 DEF Placed
<1>12. Held'
  BY <1>4, <1>7, <1>8 DEF StepInv, Held
<1>13. InHand'
  <2>1. \A h \in Goroutines \ {g} :
          /\ call[h].kind = "SetValue" => call[h].i >= 1
          /\ call[h].at = "find" => call[h].i >= 1
          /\ call[h].at = "set" => call[h].id \in 1..made'
    BY <1>3 DEF StepInv, InHand
  <2>2. d.i >= 1 /\ d.to <= n
    BY <1>3, <1>6, <1>7
  <2> QED
    BY <1>3, <1>7, <1>8, <1>9, <2>1, <2>2 DEF InHand
<1>14. LengthInStep'
  <2>1. CASE b = n
    BY <1>1, <1>3, <1>4, <1>8, <2>1 DEF StepInv, LengthInStep
  <2>2. CASE b # n
    BY <1>7, <1>8, <2>2 DEF LengthInStep
  <2> QED
    BY <2>1, <2>2
<1>15. ASSUME NEW i \in 1..n
       PROVE ItemInStep(i)'
  <2>1. CASE i <= b
    <3>1. i \in 1..Len(items) /\ i \in Nat
      BY <1>1, <1>3, <2>1
    <3>2. ItemInStep(i)
      BY <3>1 DEF StepInv
    <3>3. items'[i] = items[i] /\ old'[items[i]] = old[items[i]]
      BY <1>3, <2>1
    <3>4. ToTell(i) => ToTell(i)'
      BY <1>4, <1>8, <3>3 DEF ToTell
    <3>5. ToReload(i)'
      <4>1. 1 <= i /\ i <= t
        BY <1>3, <1>6, <2>1
      <4> QED
        BY <1>7, <1>8, <4>1 DEF ToReload
    <3>6. ~ToReload(i)
      BY <1>4, <1>9 DEF ToReload
    <3>7. ExternalInStep(i) => ExternalInStep(i)'
      BY <1>4, <1>7, <1>8, <1>9, <3>3, <3>5, <3>6 DEF ExternalInStep, Knows
    <3> QED
      BY <1>4, <3>2, <3>3, <3>4, <3>5, <3>7 DEF ItemInStep
  <2>2. CASE i > b
    <3>1. PICK id : id = items'[i]
      OBVIOUS
    <3>2. id \in Items /\ id > made /\ old'[id] = val'[i]
      BY <1>3, <2>2, <3>1
    <3>3. seen'[id] = None
      BY <1>4, <3>2 DEF StepInv, Placed
    <3> QED
      BY <1>7, <1>8, <1>9, <3>1, <3>2, <3>3 DEF ItemInStep, ExternalInStep, Knows
  <2> QED
    BY <1>3, <2>1, <2>2
<1>16. \A i \in 1..Len(items)' : ItemInStep(i)'
  BY <1>3, <1>15
<1> QED
  BY <1>10, <1>11, <1>12, <1>13, <1>14, <1>16 DEF StepInv

-----------------------------------------------------------------------------
(* The main goroutine and the listeners *)

LEMMA ToldType ==
  ASSUME StepInv, NEW id \in 1..made
  PROVE Told(id) \in Values \cup {None, "outOfBounds"}
<1>1. id \in Items
  BY DataListAssumption DEF StepInv, TypeOK, Items
<1>2. index[id] \in Nat /\ index[id] >= 1
  BY <1>1 DEF StepInv, TypeOK, Placed
<1>3. index[id] <= Len(val) => val[index[id]] \in Values
  BY <1>2 DEF StepInv, TypeOK
<1> QED
  BY <1>3 DEF Told

(* A listener that is told is told what the place of its item holds. *)
LEMMA TellKeeps ==
  ASSUME StepInv, NEW id \in Items,
         UNCHANGED <<external, list, writer, call, seenLength, blind>>,
         pending' \in {pending, pending \ {id}},
         \/ seen' = seen /\ seen[id] = None
         \/ seen' = [seen EXCEPT ![id] = Told(id)],
         seen'[id] # None => id \in 1..made
  PROVE StepInv'
<1>1. UNCHANGED <<external, val, items, index, old, made, writer, call, seenLength, blind>>
  BY DEF list
<1>2. /\ seen' \in [Items -> Values \cup {None, "outOfBounds"}]
      /\ \A j \in Items : j # id => seen'[j] = seen[j]
      /\ seen'[id] \in {None, Told(id)}
  <2>1. CASE seen' = seen /\ seen[id] = None
    BY <2>1 DEF StepInv, TypeOK
  <2>2. CASE seen' = [seen EXCEPT ![id] = Told(id)]
    <3>1. seen \in [Items -> Values \cup {None, "outOfBounds"}]
      BY DEF StepInv, TypeOK
    <3>2. seen'[id] = Told(id)
      BY <2>2, <3>1
    <3>3. Told(id) \in Values \cup {None, "outOfBounds"}
      BY <3>2, ToldType
    <3> QED
      BY <2>2, <3>1, <3>3
  <2> QED
    BY <2>1, <2>2
<1>3. pending' \subseteq Items \cup {List} /\ \A j : j # id /\ j \in pending => j \in pending'
  BY DEF StepInv, TypeOK
<1>4. TypeOK'
  BY <1>1, <1>2, <1>3 DEF StepInv, TypeOK
<1>5. Placed'
  <2>1. \A j \in Items : j > made => seen'[j] = None
    BY <1>2, DataListAssumption DEF StepInv, TypeOK, Placed, Items
  <2> QED
    BY <1>1, <2>1 DEF StepInv, Placed
<1>6. Held' /\ InHand'
  BY <1>1 DEF StepInv, Held, InHand
<1>7. LengthInStep'
  <2>1. List # id
    BY DEF List, Items
  <2> QED
    BY <1>1, <1>3, <2>1 DEF StepInv, LengthInStep
<1>8. ASSUME NEW i \in 1..Len(items)
      PROVE ItemInStep(i)'
  <2>1. ItemInStep(i) /\ index[items[i]] = i /\ items[i] \in Items /\ i <= Len(val)
    BY PlaceTypes DEF StepInv, TypeOK
  <2>2. ToTell(i) => ToTell(i)'
    BY <1>1 DEF ToTell
  <2>3. ToReload(i) => ToReload(i)'
    BY <1>1 DEF ToReload
  <2>4. CASE items[i] = id
    <3>1. Knows(items[i], val[i])'
      BY <1>1, <1>2, <2>1, <2>4 DEF Knows, Told
    <3>2. ExternalInStep(i) => ExternalInStep(i)'
      BY <1>1, <2>3, <3>1 DEF ExternalInStep
    <3> QED
      BY <1>1, <2>1, <2>2, <3>1, <3>2 DEF ItemInStep
  <2>5. CASE items[i] # id
    <3>1. /\ Knows(items[i], val[i]) => Knows(items[i], val[i])'
          /\ Knows(items[i], old[items[i]]) => Knows(items[i], old[items[i]])'
      BY <1>1, <1>2, <1>3, <2>1, <2>5 DEF Knows
    <3>2. ExternalInStep(i) => ExternalInStep(i)'
      BY <1>1, <2>3, <3>1 DEF ExternalInStep
    <3> QED
      BY <1>1, <2>1, <2>2, <2>3, <3>1, <3>2 DEF ItemInStep
  <2> QED
    BY <2>4, <2>5
<1>9. \A i \in 1..Len(items)' : ItemInStep(i)'
  BY <1>1, <1>8
<1> QED
  BY <1>4, <1>5, <1>6, <1>7, <1>9 DEF StepInv

LEMMA TellItemKeeps ==
  ASSUME StepInv, NEW id \in Items, TellItem(id)
  PROVE StepInv'
<1>1. /\ pending' = pending \ {id}
      /\ \/ seen' = seen /\ seen[id] = None
         \/ seen[id] # None /\ seen' = [seen EXCEPT ![id] = Told(id)]
      /\ UNCHANGED <<external, list, writer, call, seenLength, blind>>
  BY DEF TellItem
<1>2. seen'[id] # None => id \in 1..made
  <2>1. seen'[id] # None => seen[id] # None
    BY <1>1
  <2> QED
    BY <2>1, DataListAssumption DEF StepInv, TypeOK, Placed, Items
<1> QED
  BY <1>1, <1>2, TellKeeps

LEMMA AddListenerKeeps ==
  ASSUME StepInv, NEW id \in Items, AddListener(id)
  PROVE StepInv'
<1>1. /\ id \in 1..made /\ seen' = [seen EXCEPT ![id] = Told(id)]
      /\ UNCHANGED <<external, list, writer, call, pending, seenLength, blind>>
  BY DEF AddListener
<1> QED
  BY <1>1, TellKeeps

LEMMA TellListKeeps ==
  ASSUME StepInv, TellList
  PROVE StepInv'
<1>1. /\ pending' = pending \ {List} /\ seenLength' = Len(items)
      /\ UNCHANGED <<external, val, items, index, old, made, writer, call, seen, blind>>
  BY DEF TellList, list
<1>2. TypeOK'
  BY <1>1 DEF StepInv, TypeOK
<1>3. Placed' /\ Held' /\ InHand' /\ LengthInStep'
  BY <1>1 DEF StepInv, Placed, Held, InHand, LengthInStep
<1>4. ASSUME NEW i \in 1..Len(items)
      PROVE ItemInStep(i)'
  <2>1. ItemInStep(i) /\ items[i] # List
    BY PlaceTypes DEF StepInv
  <2>2. ToTell(i) = ToTell(i)' /\ ToReload(i) = ToReload(i)'
    BY <1>1, Zenon DEF ToTell, ToReload
  <2>3. /\ Knows(items[i], val[i]) => Knows(items[i], val[i])'
        /\ Knows(items[i], old[items[i]]) => Knows(items[i], old[items[i]])'
    BY <1>1, <2>1 DEF Knows
  <2>4. ExternalInStep(i) => ExternalInStep(i)'
    BY <1>1, <2>2, <2>3 DEF ExternalInStep
  <2> QED
    BY <1>1, <2>1, <2>2, <2>3, <2>4 DEF ItemInStep
<1>5. \A i \in 1..Len(items)' : ItemInStep(i)'
  BY <1>1, <1>4
<1> QED
  BY <1>2, <1>3, <1>5 DEF StepInv

LEMMA RemoveListenerKeeps ==
  ASSUME StepInv, NEW id \in Items, RemoveListener(id)
  PROVE StepInv'
<1>1. /\ seen' = [seen EXCEPT ![id] = None]
      /\ UNCHANGED <<external, val, items, index, old, made, writer, call, pending,
                     seenLength, blind>>
  BY DEF RemoveListener, list
<1>2. /\ seen' \in [Items -> Values \cup {None, "outOfBounds"}]
      /\ \A j \in Items : seen'[j] \in {None, seen[j]}
  BY <1>1 DEF StepInv, TypeOK
<1>3. TypeOK'
  BY <1>1, <1>2 DEF StepInv, TypeOK
<1>4. Placed'
  BY <1>1, <1>2 DEF StepInv, Placed
<1>5. Held' /\ InHand' /\ LengthInStep'
  BY <1>1 DEF StepInv, Held, InHand, LengthInStep
<1>6. ASSUME NEW i \in 1..Len(items)
      PROVE ItemInStep(i)'
  <2>1. ItemInStep(i) /\ items[i] \in Items
    BY PlaceTypes DEF StepInv
  <2>2. ToTell(i) = ToTell(i)' /\ ToReload(i) = ToReload(i)'
    BY <1>1, Zenon DEF ToTell, ToReload
  <2>3. /\ Knows(items[i], val[i]) => Knows(items[i], val[i])'
        /\ Knows(items[i], old[items[i]]) => Knows(items[i], old[items[i]])'
    BY <1>1, <1>2, <2>1 DEF Knows
  <2>4. ExternalInStep(i) => ExternalInStep(i)'
    BY <1>1, <2>2, <2>3 DEF ExternalInStep
  <2> QED
    BY <1>1, <2>1, <2>2, <2>3, <2>4 DEF ItemInStep
<1>7. \A i \in 1..Len(items)' : ItemInStep(i)'
  BY <1>1, <1>6
<1> QED
  BY <1>3, <1>4, <1>5, <1>7 DEF StepInv

-----------------------------------------------------------------------------
(* The theorems *)

LEMMA StepKeeps == StepInv /\ [Next]_vars => StepInv'
<1> SUFFICES ASSUME StepInv, [Next]_vars
             PROVE StepInv'
  OBVIOUS
<1>1. CASE UNCHANGED vars
  BY <1>1, FrameKeeps DEF vars
<1>2. ASSUME NEW g \in Goroutines, Begin(g) \/ Goes(g)
      PROVE StepInv'
  BY <1>2, BeginKeeps, RLockKeeps, LengthKeeps, LockKeeps, PutValueKeeps,
     FindItemKeeps, SetItemKeeps, ChangeKeeps, RemoveNothingKeeps, ReadValueKeeps,
     WriteValueKeeps, UnlockKeeps, TriggerKeeps DEF Goes
<1>3. CASE Tell
  BY <1>3, TellItemKeeps, TellListKeeps DEF Tell
<1>4. ASSUME NEW id \in Items, AddListener(id) \/ RemoveListener(id)
      PROVE StepInv'
  BY <1>4, AddListenerKeeps, RemoveListenerKeeps
<1> QED
  BY <1>1, <1>2, <1>3, <1>4 DEF Next

(* At every step of every interleaving of the calls, each place of the list *)
(* whose listener has missed a change is one a call is still to come to, or *)
(* one the code passes by (lists.go 388-437, 536-563).                      *)
THEOREM StepsInvariant == Spec => []StepInv
BY InitStepInv, StepKeeps, PTL DEF Spec

(* When nothing is under way, every listener was last told what there is,   *)
(* but for the items of Missed (binding.go 30, lists.go 331-437, 513-563).  *)
THEOREM ListenersInStep == Spec => []InStep
<1>1. StepInv => InStep
  <2> SUFFICES ASSUME StepInv, \A g \in Goroutines : At(g, "idle"), pending = {}
               PROVE /\ seenLength = Len(val)
                     /\ \A i \in 1..Len(val) :
                          seen[items[i]] \in {None, val[i]} \/ items[i] \in blind
    BY DEF InStep
  <2>1. \A g \in Goroutines : call[g].at = "idle"
    BY DEF At
  <2>2. seenLength = Len(val)
    BY <2>1 DEF StepInv, LengthInStep, TypeOK
  <2>3. ASSUME NEW i \in 1..Len(val)
        PROVE seen[items[i]] \in {None, val[i]} \/ items[i] \in blind
    <3>1. ItemInStep(i)
      BY DEF StepInv, TypeOK
    <3>2. ~ToTell(i) /\ ~ToReload(i)
      BY <2>1 DEF ToTell, ToReload
    <3> QED
      BY <3>1, <3>2 DEF ItemInStep, ExternalInStep, Knows
  <2> QED
    BY <2>2, <2>3
<1> QED
  BY <1>1, StepsInvariant, PTL

(* The lock is held where a call is between its Lock and its Unlock, by     *)
(* that call alone, and nowhere else: no path leaves it behind, and nobody  *)
(* has it when nothing is under way (lists.go 331-437).                     *)
THEOREM LockIsHeld == Spec => [](Held /\ ((\A g \in Goroutines : At(g, "idle"))
                                           => writer = None))
<1>1. StepInv => Held /\ ((\A g \in Goroutines : At(g, "idle")) => writer = None)
  BY DEF StepInv, TypeOK, Held, At
<1> QED
  BY <1>1, StepsInvariant, PTL
================================================================================
