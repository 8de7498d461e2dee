-------------------------- MODULE Preferences_proofs --------------------------
(****************************************************************************)
(* The saving of the preferences, for any goroutines and any number of      *)
(* values, external writes, failures and events: what a save silences is    *)
(* not forgotten, no reload undoes what main set, and the file comes to     *)
(* hold the values.                                                         *)
(*                                                                          *)
(* The argument is about who is still to save.  Where the file and the      *)
(* memory differ a goroutine is on its way through set, load or save, or    *)
(* changedDuringSaving tells the reset to save; after the hook has saved no *)
(* change is made, and only a save can make the two differ.  As long as the *)
(* loop runs, the memory is ahead only in the silence in which the watcher  *)
(* does not load.                                                           *)
(****************************************************************************)
EXTENDS Preferences, SequenceTheorems, TLAPS

Funcs == {"reset", "loadFile"}
Steps == {"idle", "changed", "create", "mark", "write", "load"}

TypeOK == /\ values \in Nat /\ file \in Nat \cup {Empty}
          /\ savedRecently \in BOOLEAN /\ changedDuringSaving \in BOOLEAN
          /\ pc \in [Procs -> Steps]
          /\ sleeping \in Nat /\ events \in Nat /\ others \in Nat
          /\ queue \in Seq(Funcs)
          /\ drained \in BOOLEAN /\ exited \in BOOLEAN
          /\ last \in Nat /\ external \in Nat /\ failures \in Nat
          /\ shared \in BOOLEAN /\ tardy \in BOOLEAN /\ dropped \in BOOLEAN

(* Who runs the funcs once the loop has ended. *)
Afterwards == Late \cup {"watcher"}

(* The writers wake with the first value another goroutine sets, the main   *)
(* goroutine ends with the loop, and then the hook and late funcs begin.    *)
Roles == /\ ~shared => \A p \in Writers : pc[p] = "idle"
         /\ pc["hook"] \in {"idle", "create", "mark", "write"}
         /\ ~drained => /\ pc["hook"] = "idle"
                        /\ \A p \in Afterwards : pc[p] = "idle"
         /\ drained => pc["main"] = "idle"
         /\ exited => drained

(* A number is given to one value, in order. *)
Numbered == values <= last /\ (file # Empty => file <= last)

(* The file is empty only inside a save. *)
Truncated == failures = 0 /\ file = Empty
               => \E p \in Procs : pc[p] \in {"mark", "write"}

(* Only main has set values, and every save has succeeded. *)
Undisturbed == ~shared /\ external = 0 /\ failures = 0

(* Where file and memory differ somebody is still to save. *)
Saving == \E p \in Procs : pc[p] \in {"create", "mark", "write"}
StillToSave ==
  Undisturbed => \/ file = values \/ changedDuringSaving \/ Saving
                 \/ \E p \in Procs : pc[p] = "changed"

(* After the hook's save they differ only inside another. *)
HookSaved == Undisturbed /\ drained /\ ~dropped /\ pc["hook"] = "idle"
               => file = values \/ Saving

(* As long as the loop runs the memory is ahead only where main is about to *)
(* save or a silence has yet to end, and the watcher loads in neither.      *)
Ahead == file # Empty /\ file < values
MainInTime ==
  ~shared /\ failures = 0 /\ ~drained /\ Ahead
    => /\ changedDuringSaving \/ pc["main"] \in {"changed", "create"}
       /\ pc["main"] # "load"

PrefsInv == /\ TypeOK /\ Roles /\ Numbered /\ NoChangeStranded
            /\ Truncated /\ StillToSave /\ HookSaved /\ MainInTime

(* What a goroutine's step says of the others. *)
LEMMA ProcsAre ==
  /\ {"main", "hook", "watcher"} \subseteq Procs
  /\ \A p \in Procs :
       p \in Writers \/ p \in Afterwards \/ p \in {"main", "hook"}
  /\ \A p \in Writers : p \in Procs /\ p \notin Afterwards \cup {"main", "hook"}
  /\ \A p \in Afterwards : p \in Procs /\ p \notin {"main", "hook"}
BY PreferencesAssumption DEF Procs, Afterwards

LEMMA GotoMoves ==
  ASSUME TypeOK, NEW p \in Procs, NEW s \in Steps, Goto(p, s)
  PROVE  /\ pc' \in [Procs -> Steps]
         /\ pc'[p] = s
         /\ \A r \in Procs : r # p => pc'[r] = pc[r]
BY DEF TypeOK, Goto

LEMMA InitHolds == Init => PrefsInv
<1> SUFFICES ASSUME Init PROVE PrefsInv
  OBVIOUS
<1>1. TypeOK
  BY EmptySeq DEF Init, TypeOK, Steps
<1>2. file # Empty /\ ~Ahead
  BY PreferencesAssumption DEF Init, Ahead
<1>3. Roles /\ Numbered /\ NoChangeStranded
  BY ProcsAre DEF Init, Roles, Numbered, NoChangeStranded
<1>4. Truncated /\ StillToSave /\ HookSaved /\ MainInTime
  BY <1>2 DEF Init, Truncated, StillToSave, HookSaved, MainInTime
<1> QED BY <1>1, <1>3, <1>4 DEF PrefsInv

-----------------------------------------------------------------------------
(* The steps that move no goroutine, or the loop alone. *)

Sound == /\ Roles /\ Numbered /\ NoChangeStranded
         /\ Truncated /\ StillToSave /\ HookSaved /\ MainInTime

(* A step that moves no goroutine and leaves file and memory alone. *)
LEMMA NothingMoves ==
  ASSUME PrefsInv,
         UNCHANGED <<values, file, flags, pc, drained, last, external, failures,
                     shared, dropped>>
  PROVE  Truncated' /\ StillToSave' /\ HookSaved' /\ MainInTime'
<1> USE DEF PrefsInv, flags
<1>1. Truncated'
  BY DEF Truncated
<1>2. Undisturbed' <=> Undisturbed
  BY DEF Undisturbed
<1>3. Saving' <=> Saving
  BY DEF Saving
<1>4. StillToSave'
  BY <1>2, <1>3 DEF StillToSave
<1>5. HookSaved'
  BY <1>2, <1>3 DEF HookSaved
<1>6. MainInTime'
  BY DEF MainInTime, Ahead
<1> QED BY <1>1, <1>4, <1>5, <1>6

LEMMA ElsewhereKeeps ==
  ASSUME PrefsInv, WriteElsewhere
  PROVE  TypeOK' /\ Sound'
<1> USE DEF PrefsInv, WriteElsewhere, flags, ghosts
<1>1. file' \in Nat /\ file' # Empty /\ file' = last + 1
  BY PreferencesAssumption DEF TypeOK
<1>2. TypeOK'
  BY <1>1 DEF TypeOK
<1>3. Roles' /\ NoChangeStranded'
  BY DEF Roles, NoChangeStranded
<1>4. Numbered' /\ ~Ahead'
  BY <1>1 DEF TypeOK, Numbered, Ahead
<1>5. ~Undisturbed'
  BY DEF TypeOK, Undisturbed
<1>6. Truncated'
  BY <1>1 DEF Truncated
<1> QED
  BY <1>2, <1>3, <1>4, <1>5, <1>6 DEF Sound, StillToSave, HookSaved, MainInTime

LEMMA TakeEventTypes ==
  ASSUME TypeOK, TakeEvent
  PROVE  events' \in Nat /\ others' \in Nat
BY DEF TypeOK, TakeEvent

LEMMA QueuesKeep ==
  ASSUME PrefsInv, WakeUp \/ ReadEvent
  PROVE  TypeOK' /\ Sound'
<1> DEFINE f == IF WakeUp THEN "reset" ELSE "loadFile"
<1>1. /\ UNCHANGED <<values, file, flags, pc, drained, exited, last, external,
                      failures, shared, dropped>>
      /\ ~drained /\ tardy' \in BOOLEAN
  BY DEF PrefsInv, TypeOK, WakeUp, ReadEvent, counts, ghosts
<1>2. PICK g \in Funcs : g = f /\ queue' = Append(queue, g)
  BY DEF WakeUp, ReadEvent, Funcs
<1>3. /\ queue' \in Seq(Funcs) /\ Len(queue) \in Nat
      /\ Len(queue') = Len(queue) + 1
      /\ \A i \in 1..Len(queue) : queue'[i] = queue[i]
      /\ queue'[Len(queue) + 1] = g
  BY <1>2, AppendProperties, LenProperties DEF PrefsInv, TypeOK
<1>4. sleeping' \in Nat /\ events' \in Nat /\ others' \in Nat
  BY TakeEventTypes DEF PrefsInv, TypeOK, WakeUp, ReadEvent, unread
<1>5. TypeOK'
  BY <1>1, <1>3, <1>4 DEF PrefsInv, TypeOK, flags
<1>6. NoChangeStranded'
  <2>1. CASE WakeUp
    <3>1. Len(queue) + 1 \in 1..Len(queue') /\ queue'[Len(queue) + 1] = "reset"
      BY <1>2, <1>3, <2>1
    <3> QED BY <1>1, <3>1 DEF PrefsInv, NoChangeStranded, flags
  <2>2. CASE ReadEvent
    <3>1. sleeping' = sleeping
      BY <2>2 DEF ReadEvent
    <3>2. \A i \in 1..Len(queue) : i \in 1..Len(queue')
      BY <1>3
    <3> QED BY <1>1, <1>3, <3>1, <3>2 DEF PrefsInv, NoChangeStranded, flags
  <2> QED BY <2>1, <2>2
<1>7. Roles' /\ Numbered'
  BY <1>1 DEF PrefsInv, Roles, Numbered
<1>8. Truncated' /\ StillToSave' /\ HookSaved' /\ MainInTime'
  BY <1>1, NothingMoves
<1> QED BY <1>5, <1>6, <1>7, <1>8 DEF Sound

LEMMA StopKeeps ==
  ASSUME PrefsInv, Stop
  PROVE  TypeOK' /\ Sound'
<1>1. /\ UNCHANGED <<values, file, flags, sleeping, unread, exited, last,
                      external, failures, shared, tardy>>
      /\ ~drained /\ drained' = TRUE /\ pc["main"] = "idle" /\ queue' = <<>>
      /\ dropped' \in BOOLEAN
  BY DEF Stop
<1>2. /\ pc' \in [Procs -> Steps]
      /\ pc'["hook"] \in {"idle", "create"}
      /\ ~dropped' => pc'["hook"] = "create"
      /\ \A r \in Procs : r # "hook" => pc'[r] = pc[r]
  <2>1. pc["hook"] = "idle" /\ pc \in [Procs -> Steps]
    BY <1>1 DEF PrefsInv, Roles, TypeOK
  <2>2. CASE dropped'
    BY <2>1, <2>2 DEF Stop
  <2>3. CASE ~dropped'
    BY <2>3, GotoMoves, ProcsAre DEF PrefsInv, Stop, Steps
  <2> QED BY <2>2, <2>3
<1>3. TypeOK'
  BY <1>1, <1>2, EmptySeq DEF PrefsInv, TypeOK, flags, unread
<1>4. pc["hook"] = "idle"
  BY <1>1 DEF PrefsInv, Roles
<1>5. Roles' /\ Numbered' /\ NoChangeStranded'
  BY <1>1, <1>2, <1>4, ProcsAre
  DEF PrefsInv, Roles, Numbered, NoChangeStranded, flags
<1>6. Truncated' /\ MainInTime'
  BY <1>1, <1>2, <1>4, ProcsAre DEF PrefsInv, Truncated, MainInTime
<1>7. StillToSave' /\ HookSaved'
  <2> SUFFICES ASSUME Undisturbed' PROVE StillToSave' /\ HookSaved'
    BY DEF StillToSave, HookSaved
  <2>1. Undisturbed
    BY <1>1 DEF Undisturbed
  <2>2. \A r \in Procs : pc[r] # "idle" => pc'[r] = pc[r]
    BY <1>2, <1>4
  <2>3. StillToSave'
    BY <1>1, <2>1, <2>2 DEF PrefsInv, StillToSave, Saving, flags
  <2>4. HookSaved'
    BY <1>2 DEF HookSaved
  <2> QED BY <2>3, <2>4
<1> QED BY <1>3, <1>5, <1>6, <1>7 DEF Sound

LEMMA StillKeeps ==
  ASSUME PrefsInv, Exit \/ UNCHANGED vars
  PROVE  TypeOK' /\ Sound'
<1>1. /\ UNCHANGED <<values, file, flags, pc, sleeping, unread, queue, drained,
                      counts>>
      /\ exited' \in BOOLEAN
  BY DEF PrefsInv, TypeOK, Exit, vars
<1>2. TypeOK'
  BY <1>1 DEF PrefsInv, TypeOK, flags, unread, counts, ghosts
<1>3. Roles' /\ Numbered' /\ NoChangeStranded'
  BY <1>1 DEF PrefsInv, Roles, Numbered, NoChangeStranded, Exit, vars, flags,
              counts, ghosts
<1>4. Truncated' /\ StillToSave' /\ HookSaved' /\ MainInTime'
  BY <1>1, NothingMoves DEF counts, ghosts
<1> QED BY <1>2, <1>3, <1>4 DEF Sound

-----------------------------------------------------------------------------
(* The steps of a goroutine. *)

(* A goroutine that was not saving moves, and the rest stays. *)
LEMMA SavingStays ==
  ASSUME NEW p \in Procs, pc[p] \notin {"create", "mark", "write"},
         \A r \in Procs : r # p => pc'[r] = pc[r]
  PROVE  /\ Saving => Saving'
         /\ Truncated /\ UNCHANGED <<file, failures>> => Truncated'
BY DEF Saving, Truncated

LEMMA SetKeeps ==
  ASSUME PrefsInv, NEW p \in Procs, Set(p)
  PROVE  TypeOK' /\ Sound'
<1>1. /\ pc[p] = "idle" /\ (p \in Writers \/ (p = "main" /\ ~drained))
      /\ last' = last + 1 /\ values' = last + 1
      /\ shared' = (shared \/ p # "main")
      /\ UNCHANGED <<file, flags, sleeping, unread, queue, drained, exited,
                     external, failures, tardy, dropped>>
  BY DEF Set, At
<1>2. /\ pc' \in [Procs -> Steps] /\ pc'[p] = "changed"
      /\ \A r \in Procs : r # p => pc'[r] = pc[r]
  BY GotoMoves DEF PrefsInv, Set, Steps
<1>3. TypeOK'
  BY <1>1, <1>2 DEF PrefsInv, TypeOK, flags, unread
<1>4. Roles'
  BY <1>1, <1>2, ProcsAre DEF PrefsInv, Roles
<1>5. Numbered'
  BY <1>1 DEF PrefsInv, TypeOK, Numbered
<1>6. NoChangeStranded'
  BY <1>1, <1>2 DEF PrefsInv, NoChangeStranded, flags
<1>7. Truncated'
  BY <1>1, <1>2, SavingStays DEF PrefsInv
<1>8. StillToSave'
  BY <1>2 DEF StillToSave
<1>9. ~shared' => p = "main" /\ ~drained'
  BY <1>1, ProcsAre
<1>10. HookSaved' /\ MainInTime'
  BY <1>2, <1>9 DEF HookSaved, Undisturbed, MainInTime
<1> QED BY <1>3, <1>4, <1>5, <1>6, <1>7, <1>8, <1>10 DEF Sound

LEMMA ChangedKeeps ==
  ASSUME PrefsInv, NEW p \in Procs, Changed(p)
  PROVE  TypeOK' /\ Sound'
<1>1. /\ pc[p] = "changed"
      /\ UNCHANGED <<values, file, savedRecently, sleeping, unread, queue,
                     drained, exited, counts>>
      /\ changedDuringSaving' \in BOOLEAN
      /\ changedDuringSaving => changedDuringSaving'
      /\ changedDuringSaving' => savedRecently
  BY DEF PrefsInv, TypeOK, NoChangeStranded, Changed, At
<1>2. PICK s \in {"idle", "create"} :
        /\ pc' \in [Procs -> Steps] /\ pc'[p] = s
        /\ \A r \in Procs : r # p => pc'[r] = pc[r]
        /\ s = "idle" => changedDuringSaving'
  BY GotoMoves DEF PrefsInv, Changed, Steps
<1>3. TypeOK'
  BY <1>1, <1>2 DEF PrefsInv, TypeOK, unread, counts, ghosts
<1>4. Roles' /\ Numbered'
  BY <1>1, <1>2, ProcsAre DEF PrefsInv, Roles, Numbered, counts, ghosts
<1>5. NoChangeStranded'
  BY <1>1, <1>2 DEF PrefsInv, NoChangeStranded
<1>6. Truncated' /\ (Saving => Saving')
  BY <1>1, <1>2, SavingStays DEF PrefsInv, counts
<1>7. Undisturbed' => Undisturbed
  BY <1>1 DEF Undisturbed, counts, ghosts
<1>8. StillToSave'
  BY <1>2 DEF StillToSave, Saving
<1>9. HookSaved'
  <2>1. pc["hook"] = pc'["hook"]
    BY <1>1, <1>2, ProcsAre DEF PrefsInv, Roles
  <2> QED BY <1>1, <1>6, <1>7, <2>1 DEF PrefsInv, HookSaved, counts, ghosts
<1>10. MainInTime'
  BY <1>1, <1>2, ProcsAre DEF PrefsInv, MainInTime, Ahead, counts, ghosts
<1> QED BY <1>3, <1>4, <1>5, <1>6, <1>8, <1>9, <1>10 DEF Sound

LEMMA CreateKeeps ==
  ASSUME PrefsInv, NEW p \in Procs, Create(p)
  PROVE  TypeOK' /\ Sound'
<1>1. /\ pc[p] = "create"
      /\ UNCHANGED <<values, flags, sleeping, queue, drained, exited, last,
                     external, ghosts>>
      /\ failures' \in Nat /\ events' \in Nat /\ others' \in Nat
  BY DEF PrefsInv, TypeOK, Create, At, FileEvent, unread
<1>2. PICK s \in {"mark", "idle"} :
        /\ pc' \in [Procs -> Steps] /\ pc'[p] = s
        /\ \A r \in Procs : r # p => pc'[r] = pc[r]
        /\ s = "mark" => file' = Empty
        /\ s = "idle" => file' = file /\ failures' # 0
  BY GotoMoves DEF PrefsInv, TypeOK, Create, Steps
<1>3. TypeOK'
  BY <1>1, <1>2 DEF PrefsInv, TypeOK, flags, ghosts
<1>4. Roles' /\ Numbered'
  BY <1>1, <1>2, ProcsAre DEF PrefsInv, Roles, Numbered, ghosts
<1>5. NoChangeStranded'
  BY <1>1, <1>2 DEF PrefsInv, NoChangeStranded, flags
<1>6. Truncated' /\ MainInTime'
  BY <1>2 DEF Truncated, MainInTime, Ahead
<1>7. failures' = 0 => Saving'
  BY <1>2 DEF Saving
<1> QED
  BY <1>3, <1>4, <1>5, <1>6, <1>7 DEF Sound, StillToSave, HookSaved, Undisturbed

LEMMA MarkSavedKeeps ==
  ASSUME PrefsInv, NEW p \in Procs, MarkSaved(p)
  PROVE  TypeOK' /\ Sound'
<1>1. /\ pc[p] = "mark" /\ savedRecently' = TRUE
      /\ UNCHANGED <<values, file, changedDuringSaving, sleeping, unread,
                     queue, drained, exited, counts>>
  BY DEF MarkSaved, At
<1>2. /\ pc' \in [Procs -> Steps] /\ pc'[p] = "write"
      /\ \A r \in Procs : r # p => pc'[r] = pc[r]
  BY GotoMoves DEF PrefsInv, MarkSaved, Steps
<1>3. TypeOK'
  BY <1>1, <1>2 DEF PrefsInv, TypeOK, unread, counts, ghosts
<1>4. Roles' /\ Numbered' /\ NoChangeStranded'
  BY <1>1, <1>2, ProcsAre
  DEF PrefsInv, Roles, Numbered, NoChangeStranded, counts, ghosts
<1>5. Truncated' /\ Saving'
  BY <1>2 DEF Truncated, Saving
<1>6. MainInTime'
  BY <1>1, <1>2, ProcsAre DEF PrefsInv, MainInTime, Ahead, counts, ghosts
<1> QED BY <1>3, <1>4, <1>5, <1>6 DEF Sound, StillToSave, HookSaved

LEMMA WriteKeeps ==
  ASSUME PrefsInv, NEW p \in Procs, Write(p)
  PROVE  TypeOK' /\ Sound'
<1>1. /\ pc[p] = "write" /\ sleeping' = sleeping + 1
      /\ UNCHANGED <<values, flags, queue, drained, exited, last, external,
                     ghosts>>
      /\ failures' \in Nat /\ events' \in Nat /\ others' \in Nat
      /\ file' = values \/ (file' = file /\ failures' # 0)
  BY DEF PrefsInv, TypeOK, Write, At, FileEvent, unread
<1>2. /\ pc' \in [Procs -> Steps] /\ pc'[p] = "idle"
      /\ \A r \in Procs : r # p => pc'[r] = pc[r]
  BY GotoMoves DEF PrefsInv, Write, Steps
<1>3. TypeOK'
  BY <1>1, <1>2 DEF PrefsInv, TypeOK, flags, ghosts
<1>4. Roles' /\ Numbered'
  BY <1>1, <1>2, ProcsAre DEF PrefsInv, TypeOK, Roles, Numbered, ghosts
<1>5. NoChangeStranded'
  BY <1>1 DEF PrefsInv, TypeOK, NoChangeStranded, flags
<1>6. failures' = 0 => file' = values' /\ values' \in Nat
  BY <1>1 DEF PrefsInv, TypeOK
<1>7. Truncated' /\ MainInTime'
  BY <1>6, PreferencesAssumption DEF Truncated, MainInTime, Ahead
<1>8. StillToSave' /\ HookSaved'
  BY <1>6 DEF StillToSave, HookSaved, Undisturbed
<1> QED BY <1>3, <1>4, <1>5, <1>7, <1>8 DEF Sound

LEMMA LoadKeeps ==
  ASSUME PrefsInv, NEW p \in Procs, Load(p)
  PROVE  /\ TypeOK' /\ Sound'
         /\ ~shared /\ failures = 0 /\ ~drained => values' >= values
<1>1. /\ pc[p] = "load"
      /\ values' = IF file = Empty THEN values ELSE file
      /\ UNCHANGED <<file, flags, sleeping, unread, queue, drained, exited,
                     counts>>
  BY DEF Load, At
<1>2. /\ pc' \in [Procs -> Steps] /\ pc'[p] = "changed"
      /\ \A r \in Procs : r # p => pc'[r] = pc[r]
  BY GotoMoves DEF PrefsInv, Load, Steps
<1>3. TypeOK'
  BY <1>1, <1>2 DEF PrefsInv, TypeOK, flags, unread, counts, ghosts
<1>4. Roles' /\ Numbered'
  BY <1>1, <1>2, ProcsAre DEF PrefsInv, Roles, Numbered, counts, ghosts
<1>5. NoChangeStranded'
  BY <1>1, <1>2 DEF PrefsInv, NoChangeStranded, flags
<1>6. Truncated'
  BY <1>1, <1>2, SavingStays DEF PrefsInv, counts
<1>7. StillToSave'
  BY <1>2 DEF StillToSave
<1>8. HookSaved'
  <2> SUFFICES ASSUME Undisturbed' PROVE file' = values' \/ Saving'
    BY DEF HookSaved
  <2>1. CASE file = Empty
    <3>1. Saving
      BY <1>1, <2>1 DEF PrefsInv, Truncated, Undisturbed, Saving, counts
    <3> QED BY <1>1, <1>2, <3>1, SavingStays
  <2>2. CASE file # Empty
    BY <1>1, <2>2
  <2> QED BY <2>1, <2>2
<1>9. ~Ahead'
  BY <1>1 DEF PrefsInv, TypeOK, Ahead
<1>10. ~shared /\ failures = 0 /\ ~drained => values' >= values
  <2> SUFFICES ASSUME ~shared, failures = 0, ~drained PROVE values' >= values
    OBVIOUS
  <2>1. p = "main"
    BY <1>1, ProcsAre DEF PrefsInv, Roles
  <2>2. ~Ahead
    BY <1>1, <2>1 DEF PrefsInv, MainInTime
  <2> QED BY <1>1, <2>2 DEF PrefsInv, TypeOK, Ahead
<1> QED
  BY <1>3, <1>4, <1>5, <1>6, <1>7, <1>8, <1>9, <1>10 DEF Sound, MainInTime

-----------------------------------------------------------------------------
(* The funcs, on the main goroutine or afterwards. *)

LEMMA ResetKeeps ==
  ASSUME PrefsInv, NEW p \in Procs, Reset(p),
         (p = "main" /\ ~drained) \/ (drained /\ p \in Afterwards),
         sleeping' \in Nat, UNCHANGED unread, queue' \in Seq(Funcs)
  PROVE  TypeOK' /\ Sound'
<1>1. /\ pc[p] = "idle" /\ ~savedRecently' /\ ~changedDuringSaving'
      /\ savedRecently' \in BOOLEAN /\ changedDuringSaving' \in BOOLEAN
      /\ UNCHANGED <<values, file, drained, exited, counts>>
  BY DEF Reset, At
<1>2. PICK s \in {"idle", "create"} :
        /\ pc' \in [Procs -> Steps] /\ pc'[p] = s
        /\ \A r \in Procs : r # p => pc'[r] = pc[r]
        /\ changedDuringSaving => s = "create"
        /\ s = "create" => changedDuringSaving
  BY GotoMoves DEF PrefsInv, Reset, Steps
<1>3. TypeOK'
  BY <1>1, <1>2 DEF PrefsInv, TypeOK, unread, counts, ghosts
<1>4. Roles'
  BY <1>1, <1>2, ProcsAre DEF PrefsInv, Roles, counts, ghosts
<1>5. Numbered' /\ NoChangeStranded'
  BY <1>1 DEF PrefsInv, Numbered, NoChangeStranded, counts
<1>6. Truncated' /\ (Saving => Saving')
  BY <1>1, <1>2, SavingStays DEF PrefsInv, counts
<1>7. Undisturbed' => Undisturbed
  BY <1>1 DEF Undisturbed, counts, ghosts
<1>8. StillToSave'
  BY <1>1, <1>2, <1>6, <1>7 DEF PrefsInv, StillToSave, Saving
<1>9. HookSaved'
  <2>1. pc["hook"] = pc'["hook"]
    BY <1>2, ProcsAre
  <2> QED BY <1>1, <1>6, <1>7, <2>1 DEF PrefsInv, HookSaved, counts, ghosts
<1>10. MainInTime'
  BY <1>1, <1>2, ProcsAre DEF PrefsInv, Roles, MainInTime, Ahead, counts, ghosts
<1> QED BY <1>3, <1>4, <1>5, <1>6, <1>8, <1>9, <1>10 DEF Sound

LEMMA FileChangedKeeps ==
  ASSUME PrefsInv, NEW p \in Procs, FileChanged(p),
         (p = "main" /\ ~drained) \/ (drained /\ p \in Afterwards),
         sleeping' = sleeping, events' \in Nat, others' \in Nat,
         queue' \in Seq(Funcs),
         ~drained => \A i \in 1..Len(queue) : queue[i] = "reset" =>
                       \E k \in 1..Len(queue') : queue'[k] = "reset"
  PROVE  TypeOK' /\ Sound'
<1>1. /\ pc[p] = "idle"
      /\ UNCHANGED <<values, file, flags, drained, exited, counts>>
  BY DEF FileChanged, At
<1>2. PICK s \in {"idle", "load"} :
        /\ pc' \in [Procs -> Steps] /\ pc'[p] = s
        /\ \A r \in Procs : r # p => pc'[r] = pc[r]
        /\ savedRecently => s = "idle"
  BY GotoMoves DEF PrefsInv, FileChanged, Steps
<1>3. TypeOK'
  BY <1>1, <1>2 DEF PrefsInv, TypeOK, flags, counts, ghosts
<1>4. Roles' /\ Numbered'
  BY <1>1, <1>2, ProcsAre DEF PrefsInv, Roles, Numbered, counts, ghosts
<1>5. NoChangeStranded'
  BY <1>1, <1>2 DEF PrefsInv, NoChangeStranded, flags
<1>6. Truncated' /\ (Saving => Saving')
  BY <1>1, <1>2, SavingStays DEF PrefsInv, counts
<1>7. Undisturbed' => Undisturbed
  BY <1>1 DEF Undisturbed, counts, ghosts
<1>8. StillToSave'
  BY <1>1, <1>2, <1>6, <1>7 DEF PrefsInv, StillToSave, flags
<1>9. HookSaved'
  <2>1. pc["hook"] = pc'["hook"]
    BY <1>2, ProcsAre
  <2> QED BY <1>1, <1>6, <1>7, <2>1 DEF PrefsInv, HookSaved, counts, ghosts
<1>10. MainInTime'
  <2> SUFFICES ASSUME ~shared, failures = 0, ~drained, Ahead
               PROVE  changedDuringSaving /\ pc'["main"] # "load"
    <3>1. Ahead' = Ahead /\ UNCHANGED <<shared, failures, drained, flags>>
      BY <1>1 DEF Ahead, counts, ghosts
    <3> QED BY <3>1 DEF MainInTime, flags
  <2>1. p = "main"
    BY <1>1
  <2>2. changedDuringSaving
    BY <1>1, <2>1 DEF PrefsInv, MainInTime
  <2>3. s = "idle"
    BY <1>2, <2>2 DEF PrefsInv, NoChangeStranded
  <2> QED BY <1>2, <2>1, <2>2, <2>3
<1> QED BY <1>3, <1>4, <1>5, <1>6, <1>8, <1>9, <1>10 DEF Sound

LEMMA MainRunsKeeps ==
  ASSUME PrefsInv, MainRuns
  PROVE  TypeOK' /\ Sound'
<1>1. /\ ~drained /\ queue # <<>> /\ queue \in Seq(Funcs)
      /\ queue' = Tail(queue)
      /\ UNCHANGED <<sleeping, unread>>
      /\ sleeping' \in Nat /\ events' \in Nat /\ others' \in Nat
      /\ "main" \in Procs
  BY ProcsAre DEF PrefsInv, TypeOK, MainRuns, unread
<1>2. /\ queue' \in Seq(Funcs) /\ Len(queue) \in Nat
      /\ Len(queue') = Len(queue) - 1
      /\ \A i \in 1..Len(queue') : queue'[i] = queue[i+1]
      /\ Head(queue) = queue[1]
  BY <1>1, HeadTailProperties, LenProperties
<1>3. CASE Head(queue) = "reset" /\ Reset("main")
  BY <1>1, <1>2, <1>3, ResetKeeps
<1>4. CASE Head(queue) = "loadFile" /\ FileChanged("main")
  <2>1. ASSUME NEW i \in 1..Len(queue), queue[i] = "reset"
        PROVE  \E k \in 1..Len(queue') : queue'[k] = "reset"
    <3>1. i # 1
      BY <1>2, <1>4, <2>1
    <3>2. i - 1 \in 1..Len(queue') /\ (i - 1) + 1 = i
      BY <1>2, <3>1
    <3> QED BY <1>2, <2>1, <3>2
  <2> QED BY <1>1, <1>2, <1>4, <2>1, FileChangedKeeps
<1> QED BY <1>3, <1>4 DEF MainRuns

LEMMA LateRunsKeeps ==
  ASSUME PrefsInv, LateRuns
  PROVE  TypeOK' /\ Sound'
<1>1. drained /\ queue' = queue /\ queue \in Seq(Funcs)
  BY DEF PrefsInv, TypeOK, LateRuns, LateReset, LateEvent
<1>2. ASSUME NEW p \in Late, LateReset(p) PROVE TypeOK' /\ Sound'
  <2>1. p \in Afterwards /\ p \in Procs /\ sleeping' \in Nat
    BY <1>2, ProcsAre DEF PrefsInv, TypeOK, Afterwards, LateReset
  <2> QED BY <1>1, <1>2, <2>1, ResetKeeps DEF LateReset
<1>3. ASSUME LateEvent PROVE TypeOK' /\ Sound'
  <2>1. "watcher" \in Afterwards /\ "watcher" \in Procs
    BY ProcsAre DEF Afterwards
  <2>2. events' \in Nat /\ others' \in Nat
    BY <1>3, TakeEventTypes DEF PrefsInv, LateEvent
  <2> QED BY <1>1, <1>3, <2>1, <2>2, FileChangedKeeps DEF LateEvent
<1> QED BY <1>2, <1>3 DEF LateRuns

LEMMA StepKeeps == PrefsInv /\ [Next]_vars => PrefsInv'
<1> SUFFICES ASSUME PrefsInv, [Next]_vars PROVE TypeOK' /\ Sound'
  BY DEF PrefsInv, Sound
<1>1. CASE Environment
  BY <1>1, ElsewhereKeeps, SetKeeps DEF Environment
<1>2. ASSUME NEW p \in Procs, Advance(p) PROVE TypeOK' /\ Sound'
  BY <1>2, ChangedKeeps, CreateKeeps, MarkSavedKeeps, WriteKeeps, LoadKeeps
  DEF Advance
<1> QED
  BY <1>1, <1>2, QueuesKeep, MainRunsKeeps, LateRunsKeeps, StopKeeps, StillKeeps
  DEF Next

-----------------------------------------------------------------------------
(* PrefsInv holds in every run, for any goroutines and bounds: where file   *)
(* and memory differ, and where the file is empty, who is still to save.    *)
THEOREM Inductive == Spec => []PrefsInv
BY InitHolds, StepKeeps, PTL DEF Spec

(* What a save silences is not forgotten, whatever the goroutines do and    *)
(* however many saves fail: the reset that ends the silence is still to     *)
(* come (app/preferences.go 49-68, 79-85, 150-158).                         *)
THEOREM SilenceEnds == Spec => []NoChangeStranded
<1>1. PrefsInv => NoChangeStranded
  BY DEF PrefsInv
<1> QED BY <1>1, Inductive, PTL

(* At rest and at exit the file holds the values that main set, for any     *)
(* number of them: nobody is left who could be still to save.  At exit the  *)
(* hook has saved what a silence had held back, unless shutdown dropped it  *)
(* with a change so held back (app/preferences.go 39-97, 139-158;           *)
(* loop.go 297-302).                                                        *)
THEOREM FileIsSaved == Spec => []Saved
<1>1. PrefsInv /\ Settled /\ ~drained => ~changedDuringSaving
  BY ProcsAre, EmptySeq DEF PrefsInv, TypeOK, NoChangeStranded, Settled, AllIdle
<1>2. PrefsInv => Saved
  <2> SUFFICES ASSUME PrefsInv, AllIdle, Settled \/ exited, Undisturbed
               PROVE  file = values \/ (dropped /\ changedDuringSaving)
    BY DEF Saved, Settled, Undisturbed
  <2>1. file = values \/ changedDuringSaving
    BY DEF PrefsInv, StillToSave, Saving, AllIdle
  <2>2. drained /\ ~dropped => file = values
    BY ProcsAre DEF PrefsInv, HookSaved, Saving, AllIdle
  <2>3. ~drained => Settled
    BY DEF PrefsInv, Roles
  <2> QED BY <1>1, <2>1, <2>2, <2>3
<1> QED BY <1>2, Inductive, PTL

(* As long as the loop runs the watcher never brings back an older value    *)
(* than what main has set, with any number of writes by other programs and  *)
(* however late its events are, unless a save failed                        *)
(* (preferences_other.go 21-31).                                            *)
THEOREM MainIsNotUndone == Spec => NotUndoneOnMain
<1>1. PrefsInv /\ [Next]_vars
        => [shared' \/ failures > 0 \/ drained \/ values' >= values]_vars
  <2> SUFFICES ASSUME PrefsInv, Next, ~shared', failures = 0, ~drained
               PROVE  values' >= values
    BY DEF PrefsInv, TypeOK
  <2>1. values' = values => values' >= values
    BY DEF PrefsInv, TypeOK
  <2>2. ASSUME NEW p \in Procs, Set(p) PROVE values' >= values
    BY <2>2 DEF PrefsInv, TypeOK, Numbered, Set
  <2>3. ASSUME NEW p \in Procs, Load(p) PROVE values' >= values
    BY <2>3, LoadKeeps DEF Load, counts, ghosts
  <2>4. ASSUME NEW p \in Procs, Advance(p) PROVE values' >= values
    BY <2>1, <2>3, <2>4 DEF Advance, Changed, Create, MarkSaved, Write
  <2> QED
    BY <2>1, <2>2, <2>4
    DEF Next, Environment, WriteElsewhere, WakeUp, ReadEvent, MainRuns, LateRuns,
        LateReset, LateEvent, Stop, Exit, Reset, FileChanged
<1> QED BY <1>1, Inductive, PTL DEF Spec, NotUndoneOnMain
===============================================================================
