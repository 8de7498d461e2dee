------------------------------ MODULE Preferences ------------------------------
(****************************************************************************)
(* The preferences of an application: the values in memory                  *)
(* (internal/preferences.go), the listener that saves them, the 100 ms that *)
(* a save silences both the listener and the file watcher                   *)
(* (app/preferences.go, preferences_other.go), and the save at exit.        *)
(*                                                                          *)
(* One key is kept.  Every value ever set, by this program or by another    *)
(* that writes the file, is a new number, so a smaller one is an older one. *)
(* The driver's queue is the FIFO of MainLoop without its wake-ups.         *)
(****************************************************************************)
EXTENDS Naturals, Sequences, FiniteSets

CONSTANTS Writers,      \* goroutines that set preferences
          Late,         \* goroutines of resetSavedRecently that may run their
                        \* func themselves, once the loop has ended; a bound
          MaxSets,      \* bound: values set, by whomever
          MaxExternal,  \* bound: how many of them by another program
          MaxFailures,  \* bound: saves that fail
          MaxEvents,    \* bound: own file events under way; more are one
          MaxQueue,     \* bound: funcs queued for the main goroutine
          Empty         \* the file as os.Create leaves it

ASSUME PreferencesAssumption ==
  /\ {MaxSets, MaxExternal, MaxFailures} \subseteq Nat
  /\ {MaxEvents, MaxQueue} \subseteq Nat \ {0}
  /\ Empty \notin Nat
  /\ {"main", "hook", "watcher"} \cap (Writers \cup Late) = {}
  /\ Writers \cap Late = {}

VARIABLES values,              \* InMemoryPreferences.values
          file,                \* preferences.json
          savedRecently, changedDuringSaving,
          pc,                  \* where each goroutine is in set, load and save
          sleeping,            \* resetSavedRecently goroutines in their Sleep
          events,              \* file events the watcher has not read: of
          others,              \* our own writes and of another program's
          queue,               \* what DoAndWait and Do queued for main
          drained,             \* the loop has ended; see MainLoop
          exited,              \* Run has returned
          last, external, failures,
          shared,   \* ghost: a goroutine other than main has set a value
          tardy,    \* ghost: an own event has outlasted a silence
          dropped   \* ghost: shutdown dropped the OnStopped hook

flags == <<savedRecently, changedDuringSaving>>
unread == <<events, others>>
ghosts == <<shared, tardy, dropped>>
counts == <<last, external, failures, ghosts>>
vars == <<values, file, flags, pc, sleeping, unread, queue, drained, exited,
          counts>>

(* Besides the writers and the main goroutine: the lifecycle's runner,      *)
(* which calls the OnStopped hook, and those that run their funcs           *)
(* themselves once the loop has ended, watchFile's and the Late ones.       *)
Procs == Writers \cup Late \cup {"main", "hook", "watcher"}

(* NewWithID has loaded the file; the listener ignores that load, since     *)
(* app.prefs is not assigned yet.                                           *)
Init == /\ values = 0 /\ file = 0
        /\ savedRecently = FALSE /\ changedDuringSaving = FALSE
        /\ pc = [p \in Procs |-> "idle"]
        /\ sleeping = 0 /\ events = 0 /\ others = 0 /\ queue = <<>>
        /\ drained = FALSE /\ exited = FALSE
        /\ last = 0 /\ external = 0 /\ failures = 0
        /\ shared = FALSE /\ tardy = FALSE /\ dropped = FALSE

At(p, step) == pc[p] = step /\ ~exited
Goto(p, step) == pc' = [pc EXCEPT ![p] = step]
FileEvent == /\ events' = IF events < MaxEvents THEN events + 1 ELSE events
             /\ UNCHANGED others

(* set and remove: the values change, then the listeners are called. *)
Set(p) == /\ At(p, "idle")
          /\ p \in Writers \/ (p = "main" /\ ~drained)
          /\ last < MaxSets
          /\ last' = last + 1 /\ values' = last + 1
          /\ shared' = (shared \/ p # "main")
          /\ Goto(p, "changed")
          /\ UNCHANGED <<file, flags, sleeping, unread, queue, drained, exited,
                         external, failures, tardy, dropped>>

(* Another program writes the file. *)
WriteElsewhere == /\ last < MaxSets /\ external < MaxExternal /\ ~exited
                  /\ last' = last + 1 /\ file' = last + 1
                  /\ external' = external + 1
                  /\ others' = others + 1
                  /\ UNCHANGED <<values, flags, pc, sleeping, events, queue,
                                 drained, exited, failures, ghosts>>

(* Mutant of Changed: an ignored change is not remembered. *)
ChangedForgets(p) ==
  /\ At(p, "changed")
  /\ Goto(p, IF savedRecently THEN "idle" ELSE "create")
  /\ UNCHANGED <<values, file, flags, sleeping, unread, queue, drained, exited,
                 counts>>

(* The change listener. *)
Changed(p) == /\ At(p, "changed")
              /\ IF savedRecently
                 THEN changedDuringSaving' = TRUE /\ Goto(p, "idle")
                 ELSE Goto(p, "create") /\ UNCHANGED changedDuringSaving
              /\ UNCHANGED <<values, file, savedRecently, sleeping, unread,
                             queue, drained, exited, counts>>

(* save: os.Create truncates the file, outside of any lock. *)
Create(p) == /\ At(p, "create")
             /\ \/ /\ file' = Empty /\ FileEvent
                   /\ Goto(p, "mark")
                   /\ UNCHANGED failures
                \/ /\ failures < MaxFailures /\ failures' = failures + 1
                   /\ Goto(p, "idle")
                   /\ UNCHANGED <<file, unread>>
             /\ UNCHANGED <<values, flags, sleeping, queue, drained, exited,
                            last, external, ghosts>>

(* saveToStorage. *)
MarkSaved(p) == /\ At(p, "mark")
                /\ savedRecently' = TRUE
                /\ Goto(p, "write")
                /\ UNCHANGED <<values, file, changedDuringSaving, sleeping,
                               unread, queue, drained, exited, counts>>

(* Mutant of Write: a save that failed returns before the deferred reset. *)
WriteArmsOnSuccess(p) ==
  /\ At(p, "write")
  /\ Goto(p, "idle")
  /\ \/ /\ file' = values /\ FileEvent
        /\ sleeping' = sleeping + 1
        /\ UNCHANGED failures
     \/ /\ failures < MaxFailures /\ failures' = failures + 1
        /\ UNCHANGED <<file, unread, sleeping>>
  /\ UNCHANGED <<values, flags, queue, drained, exited, last, external, ghosts>>

(* Encode writes at once, in ReadValues; resetSavedRecently is deferred. *)
Write(p) == /\ At(p, "write")
            /\ Goto(p, "idle")
            /\ \/ /\ file' = values /\ FileEvent
                  /\ UNCHANGED failures
               \/ /\ failures < MaxFailures /\ failures' = failures + 1
                  /\ UNCHANGED <<file, unread>>
            /\ sleeping' = sleeping + 1
            /\ UNCHANGED <<values, flags, queue, drained, exited, last, external,
                           ghosts>>

(* The 100 ms are over, which are meant to outlast the events: DoAndWait. *)
WakeUp == /\ sleeping > 0 /\ ~drained /\ Len(queue) < MaxQueue
          /\ sleeping' = sleeping - 1
          /\ queue' = Append(queue, "reset")
          /\ tardy' = (tardy \/ events > 0)
          /\ UNCHANGED <<values, file, flags, pc, unread, drained, exited, last,
                         external, failures, shared, dropped>>

(* watchFile's goroutine: Do. *)
TakeEvent == \/ events > 0 /\ events' = events - 1 /\ UNCHANGED others
             \/ others > 0 /\ others' = others - 1 /\ UNCHANGED events
ReadEvent == /\ ~drained /\ Len(queue) < MaxQueue
             /\ TakeEvent
             /\ queue' = Append(queue, "loadFile")
             /\ UNCHANGED <<values, file, flags, pc, sleeping, drained, exited,
                            counts>>

(* The func of resetSavedRecently, on p. *)
Reset(p) == /\ At(p, "idle")
            /\ savedRecently' = FALSE /\ changedDuringSaving' = FALSE
            /\ Goto(p, IF changedDuringSaving THEN "create" ELSE "idle")
            /\ UNCHANGED <<values, file, drained, exited, counts>>

(* Mutant of FileChanged: the watcher does not ask whether we just saved. *)
LoadsAlways(p) == /\ At(p, "idle")
                  /\ Goto(p, "load")
                  /\ UNCHANGED <<values, file, flags, drained, exited, counts>>

(* The watcher's callback, on p. *)
FileChanged(p) == /\ At(p, "idle")
                  /\ Goto(p, IF savedRecently THEN "idle" ELSE "load")
                  /\ UNCHANGED <<values, file, flags, drained, exited, counts>>

(* loadFromStorage: the values are replaced and the listeners called, also  *)
(* when the decoder fails.                                                  *)
Load(p) == /\ At(p, "load")
           /\ values' = IF file = Empty THEN values ELSE file
           /\ Goto(p, "changed")
           /\ UNCHANGED <<file, flags, sleeping, unread, queue, drained, exited,
                          counts>>

(* The loop runs what is queued. *)
MainRuns == /\ queue # <<>> /\ ~drained
            /\ queue' = Tail(queue)
            /\ \/ Head(queue) = "reset" /\ Reset("main")
               \/ Head(queue) = "loadFile" /\ FileChanged("main")
            /\ UNCHANGED <<sleeping, unread>>

(* Once the loop has ended DoFromGoroutine runs its func on the goroutine   *)
(* that calls it: the watcher's takes event after event, and those of       *)
(* resetSavedRecently come when they wake, at any step of the others.       *)
LateReset(p) == /\ drained /\ sleeping > 0
                /\ sleeping' = sleeping - 1
                /\ Reset(p)
                /\ UNCHANGED <<unread, queue>>

LateEvent == /\ drained
             /\ TakeEvent
             /\ FileChanged("watcher")
             /\ UNCHANGED <<sleeping, queue>>

LateRuns == LateEvent \/ \E p \in Late : LateReset(p)

(* shutdown: what is still queued is signalled and dropped, and the runner  *)
(* calls the hook of OnStopped, which is forceImmediateSave; unless it had  *)
(* queued it for the loop already, and it is dropped as well.               *)
Stop == /\ ~drained /\ pc["main"] = "idle"
        /\ drained' = TRUE /\ queue' = <<>>
        /\ dropped' \in BOOLEAN
        /\ IF dropped' THEN UNCHANGED pc ELSE Goto("hook", "create")
        /\ UNCHANGED <<values, file, flags, sleeping, unread, exited, last,
                       external, failures, shared, tardy>>

(* Run returns, and the process ends, when the hook has. *)
Exit == /\ drained /\ ~exited /\ pc["hook"] = "idle"
        /\ exited' = TRUE
        /\ UNCHANGED <<values, file, flags, pc, sleeping, unread, queue,
                       drained, counts>>

Advance(p) == Changed(p) \/ Create(p) \/ MarkSaved(p) \/ Write(p) \/ Load(p)
Environment == WriteElsewhere \/ \E p \in Procs : Set(p)
Next == \/ Environment \/ WakeUp \/ ReadEvent \/ MainRuns \/ LateRuns
        \/ Stop \/ Exit
        \/ \E p \in Procs : Advance(p)

(* Every goroutine goes on, and the loop runs what is queued; nobody has to *)
(* set anything or to quit.                                                 *)
Spec == Init /\ [][Next]_vars
FairSpec == /\ Spec
            /\ WF_vars(WakeUp) /\ WF_vars(ReadEvent) /\ WF_vars(MainRuns)
            /\ \A p \in Procs : WF_vars(Advance(p))

-----------------------------------------------------------------------------
AllIdle == \A p \in Procs : pc[p] = "idle"
Settled == AllIdle /\ queue = <<>> /\ sleeping + events + others = 0

(* The 100 ms of silence always end, and a change they silenced is never    *)
(* left behind: while savedRecently holds some goroutine is still going to  *)
(* clear it, and only then can changedDuringSaving hold (app/preferences.go *)
(* 49-68, 79-85, 150-158).                                                  *)
NoChangeStranded ==
  /\ changedDuringSaving => savedRecently
  /\ savedRecently /\ ~drained =>
       \/ sleeping > 0
       \/ \E i \in 1..Len(queue) : queue[i] = "reset"
       \/ \E p \in Procs : pc[p] = "write"

(* When nothing is under way, and when the process has ended with no save   *)
(* under way, the file holds the values of the memory: each change was      *)
(* saved, at once or by the reset, or else by the hook at exit.  Only a     *)
(* save that failed, or what another goroutine or program wrote, may make   *)
(* the two differ (app/preferences.go 39-97, 139-158); and where shutdown   *)
(* drops the hook, as it does what it finds in the queue (loop.go 297-302), *)
(* what the last silence held back is lost, and nothing else.               *)
Saved == /\ Settled \/ (exited /\ AllIdle)
         /\ ~shared /\ external = 0 /\ failures = 0
         => file = values \/ (dropped /\ changedDuringSaving)

(* As long as the loop runs, a value that was set on the main goroutine is  *)
(* not replaced by an older one, unless it could not be saved: the watcher  *)
(* never brings back what the file held before, however late its events are *)
(* and whoever wrote the file (preferences_other.go 21-31).  Once the loop  *)
(* has ended a reset and a reload may cross, and this is no longer so.      *)
NotUndoneOnMain ==
  [][shared' \/ failures > 0 \/ drained \/ values' >= values]_vars

(* Saving, hearing of the save from the watcher, loading and saving what    *)
(* was loaded does not go on for ever, as long as no save of another        *)
(* goroutine crosses one of main's and the 100 ms outlast the program's own *)
(* events, which is what they are for (preferences.go 51,                   *)
(* preferences_other.go 21-31).                                             *)
ComesToRest == <>[](Settled \/ drained \/ shared \/ tardy)
===============================================================================
