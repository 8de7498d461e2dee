------------------------------ MODULE Scheduler ------------------------------
(****************************************************************************)
(* The notification scheduler (internal/scheduler/scheduler.go), used where *)
(* the platform has none: entries in memory, a timer for each, and a file   *)
(* in the cache by which they outlive the process.  newApp starts it before *)
(* the application can use it (app.go 189).                                 *)
(*                                                                          *)
(* A save truncates the file and then writes it, and either may fail; the   *)
(* process may end between any two steps and be started again.              *)
(****************************************************************************)
EXTENDS Naturals, FiniteSets

CONSTANTS Id,          \* the identifiers NewID will generate
          Horizon,     \* the clock stops here: a bound
          MaxFailures, \* how often a save or a read fails: a bound
          MaxStarts    \* how often the program is started: a bound

ASSUME SchedulerAssumption == /\ IsFiniteSet(Id)
                              /\ {Horizon, MaxFailures, MaxStarts} \subseteq Nat

VARIABLES
  now,      \* the clock
  when,     \* the delivery time of each identifier
  starts,   \* how often the program was started
  up,       \* whether it runs
  entries,  \* s.entries
  armed,    \* the timers that run
  fired,    \* timers whose func has been started and waits for the mutex
  handed,   \* entries about to be delivered
  op,       \* the operation that holds the mutex and saves, or Free
  file,     \* the identifiers in the file
  broken,   \* the file is truncated or half-written
  failures, \* how often a save or a read failed
  status,   \* ghost: what Schedule and Cancel said of each identifier
  shown,    \* ghost: the identifiers delivered
  wrong,    \* ghost: those delivered again, or after they were cancelled
  stale,    \* ghost: let go of by the program while a failed save left them
            \* in the file
  missed    \* ghost: the last save failed, or the read at the start

memory == <<entries, armed, fired, handed>>
disk == <<file, broken, failures>>
ghosts == <<status, shown, wrong, stale, missed>>
vars == <<now, when, starts, up, memory, op, disk, ghosts>>

(* The mutex is held for an operation on some entries; its save begins. *)
Op(kind, ids) == [kind |-> kind, ids |-> ids, step |-> "save"]

Free == Op("none", {})
Locked == op # Free

Init == /\ now = 0
        /\ when = [i \in Id |-> 0]
        /\ starts = 0 /\ up = FALSE
        /\ entries = {} /\ armed = {} /\ fired = {} /\ handed = {}
        /\ op = Free
        /\ file = {} /\ broken = FALSE /\ failures = 0
        /\ status = [i \in Id |-> "new"]
        /\ shown = {} /\ wrong = {} /\ stale = {} /\ missed = FALSE

-----------------------------------------------------------------------------
(* The operations, up to their call of saveLocked. *)

(* loadLocked makes nothing of a broken file, nor of one that it does not   *)
(* find or cannot open.                                                     *)
Readable == IF broken THEN {} ELSE file
Load(loaded) == \/ /\ loaded = Readable /\ missed' = FALSE
                   /\ UNCHANGED failures
                \/ /\ loaded = {} /\ missed' = TRUE
                   /\ failures < MaxFailures /\ failures' = failures + 1

Due(loaded) == {i \in loaded : when[i] <= now}

(* Mutant of Start: only what is due is looked at. *)
StartUnarmed ==
  /\ ~up /\ starts < MaxStarts
  /\ up' = TRUE /\ starts' = starts + 1
  /\ \E loaded \in {Readable, {}} :
       /\ Load(loaded)
       /\ entries' = loaded \ Due(loaded)
       /\ armed' = {}
       /\ op' = IF Due(loaded) = {} THEN Free ELSE Op("start", Due(loaded))
  /\ UNCHANGED <<now, when, fired, handed, file, broken, status, shown, wrong,
                 stale>>

(* What is due is delivered, the rest armed, and the file saved if anything *)
(* was due.                                                                 *)
Start ==
  /\ ~up /\ starts < MaxStarts
  /\ up' = TRUE /\ starts' = starts + 1
  /\ \E loaded \in {Readable, {}} :
       /\ Load(loaded)
       /\ entries' = loaded \ Due(loaded)
       /\ armed' = loaded \ Due(loaded)
       /\ op' = IF Due(loaded) = {} THEN Free ELSE Op("start", Due(loaded))
  /\ UNCHANGED <<now, when, fired, handed, file, broken, status, shown, wrong,
                 stale>>

Schedule(i) == /\ up /\ ~Locked /\ status[i] = "new"
               /\ \E t \in (now + 1)..Horizon : when' = [when EXCEPT ![i] = t]
               /\ entries' = entries \cup {i}
               /\ armed' = armed \cup {i}
               /\ op' = Op("schedule", {i})
               /\ status' = [status EXCEPT ![i] = "asked"]
               /\ UNCHANGED <<now, starts, up, fired, handed, disk, shown, wrong,
                              stale, missed>>

(* The timer is stopped, which one that has fired ignores. *)
Cancel(i) == /\ up /\ ~Locked /\ i \in entries
             /\ armed' = armed \ {i}
             /\ entries' = entries \ {i}
             /\ op' = Op("cancel", {i})
             /\ UNCHANGED <<now, when, starts, up, fired, handed, disk, ghosts>>

TimerFires(i) == /\ up /\ i \in armed /\ when[i] <= now
                 /\ armed' = armed \ {i}
                 /\ fired' = fired \cup {i}
                 /\ UNCHANGED <<now, when, starts, up, entries, handed, op, disk, ghosts>>

(* Mutant of Fire: the entry the timer was made for is delivered, whether   *)
(* or not it is still there.                                                *)
FireAnyway(i) == /\ up /\ ~Locked /\ i \in fired
                 /\ fired' = fired \ {i}
                 /\ entries' = entries \ {i}
                 /\ op' = Op("fire", {i})
                 /\ UNCHANGED <<now, when, starts, up, armed, handed, disk, ghosts>>

(* armLocked's func *)
Fire(i) == /\ up /\ ~Locked /\ i \in fired
           /\ fired' = fired \ {i}
           /\ entries' = entries \ {i}
           /\ op' = Op("fire", {i} \cap entries)
           /\ UNCHANGED <<now, when, starts, up, armed, handed, disk, ghosts>>

(* deliver, after the mutex was released *)
Deliver(i) == /\ up /\ i \in handed
              /\ handed' = handed \ {i}
              /\ shown' = shown \cup {i}
              /\ wrong' = IF i \in shown \/ status[i] = "cancelled"
                          THEN wrong \cup {i} ELSE wrong
              /\ UNCHANGED <<now, when, starts, up, entries, armed, fired, op, disk,
                             status, stale, missed>>

-----------------------------------------------------------------------------
(* saveLocked, and the rest of the operation. *)

Says(answer) == status' = [i \in Id |-> IF i \in op.ids THEN answer ELSE status[i]]

(* What the operation does once saveLocked has returned: Start and a timer  *)
(* deliver, whatever it returned; Schedule takes its entry back when it     *)
(* returned an error.                                                       *)
Finish(ok) ==
  /\ op' = Free
  /\ \/ /\ op.kind \in {"start", "fire"}
        /\ handed' = handed \cup op.ids
        /\ UNCHANGED <<entries, armed, fired, status>>
     \/ /\ op.kind = "cancel"
        /\ Says(IF ok THEN "cancelled" ELSE "failed")
        /\ UNCHANGED memory
     \/ /\ op.kind = "schedule" /\ ok
        /\ Says("pending")
        /\ UNCHANGED memory
     \/ /\ op.kind = "schedule" /\ ~ok
        /\ Says("failed")
        /\ entries' = entries \ op.ids
        /\ armed' = armed \ op.ids
        /\ UNCHANGED <<fired, handed>>

(* A save that failed leaves what is on the disk, or half of it. *)
Miss == /\ failures < MaxFailures
        /\ failures' = failures + 1
        /\ missed' = TRUE
        /\ stale' = IF broken THEN stale ELSE stale \cup (file \cap op.ids)
        /\ UNCHANGED <<file, broken>>

Saving == up /\ Locked /\ UNCHANGED <<now, when, starts, up, shown, wrong>>

(* With no entries the file is removed, and an error in that is ignored. *)
RemoveFile == /\ Saving /\ entries = {}
              /\ file' = {} /\ broken' = FALSE /\ missed' = FALSE
              /\ Finish(TRUE)
              /\ UNCHANGED <<failures, stale>>

RemoveFails == /\ Saving /\ entries = {}
               /\ Miss
               /\ Finish(TRUE)

(* cache.Write fails *)
WriteFails == /\ Saving /\ entries # {} /\ op.step = "save"
              /\ Miss
              /\ Finish(FALSE)

(* or it truncates the file, *)
Truncate == /\ Saving /\ entries # {} /\ op.step = "save"
            /\ broken' = TRUE
            /\ op' = [op EXCEPT !.step = "encode"]
            /\ UNCHANGED <<memory, file, failures, status, stale, missed>>

(* Mutant of Encode: a cancelled entry stays in the list that is written. *)
EncodeStale == /\ Saving /\ op.step = "encode"
               /\ file' = entries \cup (IF op.kind = "cancel" THEN op.ids ELSE {})
               /\ broken' = FALSE /\ missed' = FALSE
               /\ Finish(TRUE)
               /\ UNCHANGED <<failures, stale>>

(* and the entries are written, *)
Encode == /\ Saving /\ op.step = "encode"
          /\ file' = entries
          /\ broken' = FALSE /\ missed' = FALSE
          /\ Finish(TRUE)
          /\ UNCHANGED <<failures, stale>>

(* or not. *)
EncodeFails == /\ Saving /\ op.step = "encode"
               /\ Miss
               /\ Finish(FALSE)

Save == RemoveFile \/ RemoveFails \/ WriteFails \/ Truncate \/ Encode \/ EncodeFails

-----------------------------------------------------------------------------
(* The process ends, in any place; only the file is left. *)
Crash == /\ up
         /\ up' = FALSE
         /\ entries' = {} /\ armed' = {} /\ fired' = {} /\ handed' = {}
         /\ op' = Free
         /\ UNCHANGED <<now, when, starts, disk, ghosts>>

Tick == /\ now < Horizon
        /\ now' = now + 1
        /\ UNCHANGED <<when, starts, up, memory, op, disk, ghosts>>

Timers == \E i \in Id : TimerFires(i) \/ Fire(i) \/ Deliver(i)

Next == \/ Start \/ Save \/ Crash \/ Tick
        \/ Timers
        \/ \E i \in Id : Schedule(i) \/ Cancel(i)

Spec == Init /\ [][Next]_vars

(* Time passes, timers fire and the goroutines they start run; nothing is   *)
(* assumed of the application, of failures and of the process's end.        *)
FairSpec == /\ Spec
            /\ WF_vars(Tick) /\ WF_vars(Save)
            /\ \A i \in Id : WF_vars(TimerFires(i) \/ Fire(i)) /\ WF_vars(Deliver(i))

-----------------------------------------------------------------------------
Status == {"new", "asked", "pending", "cancelled", "failed"}

TypeOK == /\ now \in 0..Horizon /\ when \in [Id -> 0..Horizon]
          /\ starts \in 0..MaxStarts /\ failures \in 0..MaxFailures
          /\ {up, broken, missed} \subseteq BOOLEAN
          /\ {entries, armed, fired, handed, file, shown, wrong, stale} \subseteq SUBSET Id
          /\ status \in [Id -> Status]
          /\ armed \cap fired = {}

(* The file is what a restart would need: whenever the mutex is free it     *)
(* names exactly the pending entries, unless the last save failed or, with  *)
(* none since, the file could not be read at the start; and each of them    *)
(* has a timer (scheduler.go 4-7).                                          *)
FileIsCurrent ==
  up /\ ~Locked => /\ entries \subseteq armed \cup fired
                   /\ missed \/ Readable = entries

(* Nothing is delivered twice, not even across a restart, and nothing after *)
(* Cancel found it and returned nil, although its timer may have fired and  *)
(* wait for the mutex (scheduler.go 59-61, 131-146).  The exception are     *)
(* entries that a failed save left in the file: a timer and Start ignore    *)
(* its error, and so does Cancel where it removes the file.                 *)
DeliveredRight == wrong \subseteq stale

(* What is pending is delivered, unless it is cancelled or the process ends *)
(* first; and after a restart, what was read from the file is.              *)
IsDelivered ==
  \A i \in Id : (up /\ i \in entries /\ status[i] = "pending")
                  ~> (i \in shown \/ status[i] # "pending" \/ ~up)
=============================================================================
