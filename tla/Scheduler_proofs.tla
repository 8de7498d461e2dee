-------------------------- MODULE Scheduler_proofs --------------------------
(* That nothing is delivered twice or after it was cancelled, for every set *)
(* of identifiers, any number of failures and any number of restarts.       *)
EXTENDS Scheduler, TLAPS

Kinds == {"none", "start", "schedule", "cancel", "fire"}

(* The entries an operation has taken out, and is about to deliver. *)
Taken == IF op.kind \in {"start", "fire"} THEN op.ids ELSE {}

(* What was delivered or cancelled for good. *)
Gone == shown \cup {i \in Id : status[i] = "cancelled"}

Typed == /\ {entries, armed, fired, handed, file, shown, wrong, stale} \subseteq SUBSET Id
         /\ op.ids \subseteq Id
         /\ status \in [Id -> Status]
         /\ op = [kind |-> op.kind, ids |-> op.ids, step |-> op.step]
         /\ op.kind \in Kinds

(* An identifier is in one place at a time: among the entries, with the     *)
(* operation, or handed over; one that was handed over or is gone is in the *)
(* file only if a failed save left it there.                                *)
OnePlace == /\ ~up => entries = {} /\ handed = {} /\ op = Free
            /\ op.kind # "schedule" => op.ids \cap entries = {}
            /\ op.kind = "schedule" => op.ids \subseteq entries
            /\ op.kind = "none" => op.ids = {}
            /\ handed \cap (entries \cup op.ids \cup Readable) \subseteq stale
            /\ Gone \cap (entries \cup op.ids \cup handed \cup Readable) \subseteq stale
            /\ \A i \in Id : status[i] = "new" =>
                 i \notin entries \cup op.ids \cup handed \cup Readable \cup shown

SInv == Typed /\ OnePlace /\ DeliveredRight

LEMMA InitHolds == Init => SInv
BY DEF Init, SInv, Typed, OnePlace, DeliveredRight, Free, Op, Kinds, Gone, Readable, Status

(* The end of an operation whose save failed. *)
LEMMA MissKeeps ==
  ASSUME SInv, Saving, Miss, NEW ok \in BOOLEAN, Finish(ok),
         ok => op.kind # "schedule" \/ entries = {}
  PROVE  SInv'
<1> USE DEF SInv, Typed, OnePlace, DeliveredRight, Saving, Miss, Locked, Free, Op,
            Kinds, Gone, Readable, Status, memory
<1>1. CASE op.kind \in {"start", "fire"}
  BY <1>1 DEF Finish
<1>2. CASE op.kind = "cancel"
  BY <1>2 DEF Finish, Says
<1>3. CASE op.kind = "schedule"
  BY <1>3 DEF Finish, Says
<1> QED BY <1>1, <1>2, <1>3 DEF Finish

(* The end of one whose save did not: the file names the entries. *)
LEMMA SavedKeeps ==
  ASSUME SInv, Saving, file' = entries, broken' = FALSE, Finish(TRUE),
         UNCHANGED stale
  PROVE  SInv'
<1> USE DEF SInv, Typed, OnePlace, DeliveredRight, Saving, Locked, Free, Op,
            Kinds, Gone, Readable, Status, memory
<1>1. CASE op.kind \in {"start", "fire"}
  BY <1>1 DEF Finish
<1>2. CASE op.kind = "cancel"
  BY <1>2 DEF Finish, Says
<1>3. CASE op.kind = "schedule"
  BY <1>3 DEF Finish, Says
<1> QED BY <1>1, <1>2, <1>3 DEF Finish

LEMMA StepKeeps == SInv /\ [Next]_vars => SInv'
<1> SUFFICES ASSUME SInv, [Next]_vars PROVE SInv'
  OBVIOUS
<1> USE DEF SInv, Typed, OnePlace, DeliveredRight, Locked, Free, Op, Kinds,
            Gone, Readable, Status, memory, disk, ghosts
<1>1. CASE Start
  <2>1. PICK loaded \in {Readable, {}} :
          /\ entries' = loaded \ Due(loaded) /\ armed' = loaded \ Due(loaded)
          /\ op' = IF Due(loaded) = {} THEN Free ELSE Op("start", Due(loaded))
    BY <1>1 DEF Start
  <2>2. PICK due : due = Due(loaded)
    OBVIOUS
  <2>3. due \subseteq loaded /\ loaded \subseteq Readable
    BY <2>1, <2>2 DEF Due
  <2>4. /\ op'.ids = due
        /\ op'.kind = "none" \/ op'.kind = "start"
        /\ op'.kind = "none" => due = {}
        /\ op' = [kind |-> op'.kind, ids |-> op'.ids, step |-> op'.step]
    BY <2>1, <2>2
  <2>5. /\ ~up /\ up'
        /\ UNCHANGED <<fired, handed, file, broken, status, shown, wrong, stale>>
    BY <1>1 DEF Start
  <2>6. Readable \subseteq Id /\ Readable' = Readable
    BY <2>5
  <2>7. Typed'
    BY <2>1, <2>2, <2>3, <2>4, <2>5, <2>6
  <2>8. OnePlace'
    BY <2>1, <2>2, <2>3, <2>4, <2>5, <2>6
  <2> QED BY <2>5, <2>7, <2>8
<1>2. ASSUME NEW i \in Id, Schedule(i) PROVE SInv'
  BY <1>2 DEF Schedule
<1>3. ASSUME NEW i \in Id, Cancel(i) PROVE SInv'
  BY <1>3 DEF Cancel
<1>4. ASSUME NEW i \in Id, TimerFires(i) PROVE SInv'
  BY <1>4 DEF TimerFires
<1>5. ASSUME NEW i \in Id, Fire(i) PROVE SInv'
  BY <1>5 DEF Fire
<1>6. ASSUME NEW i \in Id, Deliver(i) PROVE SInv'
  BY <1>6 DEF Deliver
<1>7. CASE RemoveFile
  BY <1>7, SavedKeeps DEF RemoveFile
<1>8. CASE RemoveFails
  BY <1>8, MissKeeps DEF RemoveFails
<1>9. CASE WriteFails
  BY <1>9, MissKeeps DEF WriteFails
<1>10. CASE Truncate
  BY <1>10 DEF Truncate, Saving
<1>11. CASE Encode
  BY <1>11, SavedKeeps DEF Encode
<1>12. CASE EncodeFails
  BY <1>12, MissKeeps DEF EncodeFails
<1>13. CASE Crash
  BY <1>13 DEF Crash
<1>14. CASE Tick \/ UNCHANGED vars
  BY <1>14 DEF Tick, vars
<1> QED
  BY <1>1, <1>2, <1>3, <1>4, <1>5, <1>6, <1>7, <1>8, <1>9, <1>10, <1>11, <1>12,
     <1>13, <1>14 DEF Next, Save, Timers

(* No notification is delivered again or after its cancellation, unless a   *)
(* failed save left it in the file, however often the program ends and is   *)
(* started again.                                                           *)
THEOREM OnlyStaleRepeats == Spec => []DeliveredRight
<1>1. SInv => DeliveredRight
  BY DEF SInv
<1> QED BY <1>1, InitHolds, StepKeeps, PTL DEF Spec
-----------------------------------------------------------------------------
(* The file, and the timers. *)

FInv == SInv /\ FileIsCurrent /\ entries \subseteq armed \cup fired

LEMMA FileStepKeeps == FInv /\ [Next]_vars => FInv'
<1> SUFFICES ASSUME FInv, [Next]_vars PROVE FileIsCurrent' /\ (entries \subseteq armed \cup fired)'
  BY StepKeeps DEF FInv
<1> USE DEF FInv, SInv, Typed, OnePlace, FileIsCurrent, Readable, Locked, Free, Op,
            memory, disk, ghosts
<1>1. CASE Start
  <2>1. PICK loaded \in {Readable, {}} :
          /\ Load(loaded)
          /\ entries' = loaded \ Due(loaded) /\ armed' = loaded \ Due(loaded)
          /\ op' = IF Due(loaded) = {} THEN Free ELSE Op("start", Due(loaded))
    BY <1>1 DEF Start
  <2>2. Readable' = Readable
    BY <1>1 DEF Start, Readable
  <2>3. CASE Due(loaded) = {}
    BY <2>1, <2>2, <2>3 DEF Load
  <2>4. CASE Due(loaded) # {}
    <3>1. op'.kind = "start"
      BY <2>1, <2>4
    <3> QED BY <2>1, <3>1
  <2> QED BY <2>3, <2>4
<1>2. ASSUME NEW i \in Id, Schedule(i) \/ Cancel(i) \/ Fire(i)
      PROVE FileIsCurrent' /\ (entries \subseteq armed \cup fired)'
  BY <1>2 DEF Schedule, Cancel, Fire
<1>3. ASSUME NEW i \in Id, TimerFires(i) \/ Deliver(i)
      PROVE FileIsCurrent' /\ (entries \subseteq armed \cup fired)'
  BY <1>3 DEF TimerFires, Deliver
<1>4. CASE RemoveFile \/ Encode
  BY <1>4 DEF RemoveFile, Encode, Saving, Finish
<1>5. CASE RemoveFails \/ WriteFails \/ EncodeFails
  <2>1. missed' = TRUE /\ up' = up
    BY <1>5 DEF RemoveFails, WriteFails, EncodeFails, Saving, Miss
  <2>2. (entries \subseteq armed \cup fired)'
    BY <1>5 DEF RemoveFails, WriteFails, EncodeFails, Finish
  <2> QED BY <2>1, <2>2
<1>6. CASE Truncate
  BY <1>6 DEF Truncate, Saving
<1>7. CASE Crash \/ Tick \/ UNCHANGED vars
  BY <1>7 DEF Crash, Tick, vars
<1> QED
  BY <1>1, <1>2, <1>3, <1>4, <1>5, <1>6, <1>7 DEF Next, Save, Timers

(* Whenever the mutex is free the file names the pending entries and each   *)
(* has its timer, but after a save that failed or a start that could not    *)
(* read the file.                                                           *)
THEOREM FileNamesEntries == Spec => []FileIsCurrent
<1>1. Init => FInv
  BY InitHolds DEF Init, FInv, FileIsCurrent, Readable
<1>2. FInv => FileIsCurrent
  BY DEF FInv
<1> QED BY <1>1, <1>2, FileStepKeeps, PTL DEF Spec
=============================================================================
