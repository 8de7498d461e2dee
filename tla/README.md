# Verification of the toolkit's core

This directory holds TLA+ models of the concurrent and stateful core of this
repository, a fork of the Fyne GUI toolkit whose desktop driver has been
rewritten around an event-driven loop, damage tracking and frame pacing.  TLC
checks the models on small instances, and TLAPS proves the most important
properties for every value of the constants.

`tlc -config MCAppRun.cfg MCAppRun` runs one configuration, and `tlapm
Driver_proofs.tla` checks one module's proofs; `PROJECT.json`
pairs each run with its module, names the source lines each definition stands
for, lists the hazards, and gives for every checked property a mutant: a
plausible bug that makes the property fail.

## 1. The system

| part | state | operations | who calls it |
|---|---|---|---|
| driver loop (`internal/driver/glfw/loop.go`, `driver.go`) | `running`, `drained`, `wakePosted`, `pendingFuncs`, `funcQueue`, `d.done`, the deadline `next` | `runOnMainWithWait`, `wakeLoop`, `runGL`, `drainFuncQueue`, `framePending`, `shutdown`, `Quit` | every goroutine, through `fyne.Do` and `fyne.DoAndWait` |
| unbounded channel (`internal/async/chan.go`) | two Go channels, a slice, a forwarding goroutine | `In`, `Out`, `Close` | the loop's `funcQueue`, the lifecycle's event queue |
| application and lifecycle (`internal/app/lifecycle.go`) | the event queue, the hooks | `RunEventQueue`, `QueueEvent`, `WaitForEvents` | the loop, windows, `fyneApp.Run` |
| animation runner (`internal/animation/runner.go`) | three lists and `runnerStarted` | `Start`, `Stop`, `TickAnimations`, `HasAnimations` | any goroutine; the loop once a frame |
| damage tracking of a canvas (`internal/driver/common`, `glfw/canvas.go`, `painter/gl/snapshot.go`) | refresh queue, dirty flag, last rects, the region, the snapshot of the last frame | `Refresh`, `FreeDirtyTextures`, `ComputeDamage`, `paint`, `RestorePreviousFrame`, `SnapshotFrame` | widgets; the loop's frame |
| damage region (`internal/damage.go`) | an array of at most four rectangles | `Add`, `Reset`, `SetFull`, `Coverage` | damage tracking |
| preferences (`app/preferences*.go`, `internal/preferences.go`) | the values, the file, `savedRecently`, `changedDuringSaving` | setters, `save`, `load`, `watch`, `forceImmediateSave` | the application, the file watcher, the OnStopped hook |
| present gates (`glfw/present*.go`) | `waiting`, a stamp, a channel of kicks | `ready`, `requestFrame`, `markReady` | the loop's frame; a waiter goroutine or Wayland's callbacks |
| canvas object queue (`internal/async/queue.go`) | a lock-free list with pooled nodes | `In`, `Out`, `Len` | `Refresh` on any goroutine; the frame |
| notification scheduler (`internal/scheduler`) | timers, a map, a file | `Schedule`, `Cancel`, the restart | the application |
| caches (`internal/cache`) | renderers, canvases and textures with their expiry | lookups, `Clean`, destroy | widgets, the frame |
| overlays and focus (`internal/overlay_stack.go`, `focus_manager.go`) | a stack with focus managers and render caches, the focused object | `Add`, `Remove`, `Focus`, `FocusNext`, `Show`, `Hide` | windows, dialogs, pop-ups |
| window events (`glfw/window*.go`) | mouse, drag, keyboard and focus state | GLFW's callbacks | GLFW, on the main goroutine |
| data binding (`data/binding`) | values with locks and listeners | `Set`, `Get`, `AddListener` | any goroutine; listeners on main |
| text entry (`widget/entry.go`, `selectable.go`) | text, cursor, selection, the undo stack | keys, shortcuts, the mouse, `SetText`, `Undo`, `Redo` | window events, the application |
| settings (`app/settings*.go`) | the settings and their listeners | `load`, `watch`, `apply` | the watcher, the application |

What remains is sequential presentation code (the other widgets, containers, layouts,
dialogs, canvas primitives, painters), thin wrappers (storage, translations),
other drivers and build tools; `PROJECT.json` lists each with the reason it is
left out.

How the parts meet: the **main goroutine** runs `runGL`: drain the queued
funcs, and when a frame is due poll GLFW, tick animations, and repaint each
window that asks for it; then sleep in the OS event queue until an event, the
frame's deadline or `idleWait`.  **Any goroutine** may queue a func
(`fyne.Do`), start an animation, set a preference, and, in builds that are not
migrated to `fyne.Do`, call `Refresh`.  The **forwarding goroutine** of an
unbounded channel stands between a send and its receipt.  The **lifecycle's
runner** hands events to the main goroutine with a waiting call, also while the
loop is shutting down.  The **watcher** and the goroutines that **sleep 100 ms
after a save** queue funcs of their own.

What is hard, and the properties that make each part correct:

- *Driver loop*: a func queued while the loop goes to sleep must wake it; the
  count of pending funcs stands in for a queue whose content is not yet
  visible; `DoAndWait` returns after its func; a pending frame is drawn; the
  application ends.
- *Unbounded channel*: first in, first out, over three buffers; `Close` loses
  nothing and ends.
- *Animation runner*: `Start` and `Stop` between and inside the critical
  sections of a frame.
- *Damage*: a frame that repaints a part must show what a whole repaint shows.
- *Preferences*: changes made while a save silences the listener are saved in
  the end, and the program's own writes are not read back over newer values.
- *Present gates*: one frame per blank of the display, and no window that
  freezes because the blank, the wait or the answer never comes.
- *Object queue*: a lock-free list whose nodes are reused.
- *Scheduler*: once each, across failed saves, crashes and restarts.
- *Window events and focus*: presses, hovers, drags, overlays and the focus come
  in pairs, while what is under the pointer changes without an event.
- *Entry*: an undo stack of merged actions that has to fit the text it is
  applied to, along any mix of edits.
- *Data binding*: locks of the list and of its items over one slice, and
  listeners that run later, on another goroutine.

## 2. The modules

| module | models | extends or instantiates |
|---|---|---|
| `FifoQueue` | what a queue promises (abstract) | |
| `UnboundedChan` | `internal/async/chan.go` | implements `FifoQueue` (`IsFifo`) |
| `MainLoop` | `loop.go`, `Quit` | extends `UnboundedChan`: `funcQueue` |
| `AppRun` | `gLDriver.Run` and the lifecycle's queue | extends `MainLoop` |
| `WindowFrames` | one window's frames in `loop.go`, `present*.go` | |
| `AnimationRunner` | `internal/animation/runner.go` | |
| `DamageTracking` | a canvas's frame, from `Refresh` to the snapshot | |
| `DamageRegion` | `internal/damage.go` | |
| `ObjectQueue` | `internal/async/queue.go` | implements `FifoQueue` (`IsFifo`) |
| `Preferences` | the preferences, their file and watcher | |
| `Scheduler` | `internal/scheduler`, `app_schedule.go` | |
| `CanvasFocus` | overlays, focus managers, pop-ups, as operators on a record | |
| `WindowInput` | `glfw/window.go`: mouse, taps, drags, focus, Tab | extends `CanvasFocus` |
| `History` | what undoing promises (abstract) | |
| `Entry` | `widget/entry.go`, `selectable.go` | implements `History` (`IsHistory`) |
| `DataList` | `data/binding/lists.go`, `binding.go` | |
| `Driver_proofs` | theorems about `UnboundedChan`, `MainLoop` and `AppRun` | extends `AppRun` |
| `Damage_proofs` | theorems about `DamageRegion` and `DamageTracking` | extends both |
| `Frames_proofs` | theorems about `WindowFrames` and `AnimationRunner` | extends both |
| other `*_proofs` | theorems about the module of that name | extends it |
| `MC*` | values, bounds and symmetry for TLC | |

### MainLoop

The variables are the code's package variables and fields (`running`,
`drained`, `wakePosted`, `pendingFuncs`, `d.done`), the OS event queue as one
bit `osEvent` (an event or a posted empty event is waiting), the place of the
main goroutine in `loop`, and for every call of `runOnMainWithWait` its place
in `call`.  One element of `Calls` is one call together with its func; a call
is made at most once, so a finite set of calls bounds the run, and `fate` says
what became of the func.

Each step is one access to shared state.  `Count`, `Enqueue`, `LoadRunning`,
`ClaimWake` and `Post` are the producer's; `DrainCheck` to `Signal` are
`drainFuncQueue`; `Pace` to `DrawFrame` the frame; `RestIdle`/`RestFrame`/
`RestNot`, `ReleaseClaim`, `Recheck` and `WakeUp` the wait; `Terminate` to
`CloseQueue` are `shutdown`.  `Count` merges the test of `drained` with the
following `Add`: only the loop reads the count, and it no longer does once
`drained` is set.  Callbacks of the application may call `fyne.Do`
(`MainCalls`, only while the main goroutine is in application code, `OnMain`)
and `Quit`, which always runs on the main goroutine: `catchTerm` queues it
and menus and windows call it there.  A waiting call from the main goroutine
is not modelled: `thread.go` forbids it and it would wait for itself.  The
channel `done` of a waiting call is unbuffered, so `Signal` and the caller's
return are one step; that the channels come from a pool and are used again is
left out.  What a GLFW event means, the windows, and the tray are
left out; that something is to be drawn is the flag `pendingFrame`, which
callbacks and funcs may raise and a frame leaves either way.  The clock is the
flag `due`.

### UnboundedChan and FifoQueue

One turn of `processing`'s selects is one step.  `IsFifo` is the abstract queue
with `items` read as `chout \o q \o chin`; an element leaves the abstract queue
when it is received.  The capacities, 16 in the code, are constants.

### AppRun

Adds the lifecycle's event queue, which is taken as the FIFO that
`UnboundedChan` has been shown to be, the runner that hands events over one at
a time, the OnStopped event that `shutdown` queues and the event
`WaitForEvents` waits for.  Each step is one of `MainLoop` or leaves its
variables alone (`DriverIsMainLoop`), so that what is proved of the loop holds
of the application.

### WindowFrames

One window under the loop: `PollEvents`, the check of the deadline,
`CheckClosed`, `Repaint` or not, `Swap`, `Rest` and the wait, in the order of
`runGL`.  The gate is chosen in the initial state.  `waiting`, `kick` and
`dead` are the Windows gate's fields and `waiter` its goroutine; on Wayland
`waiter` is the frame callback.  Time is counted in frame intervals (`age` is
the time since `g.since`), so that the timeout and a blank may come in either
order.  `owed`, `taken` and `excused` are ghosts: what is refreshed and not yet
drawn, whether the compositor has taken the last frame, and why the next may
come early.  The choices that `MainLoop` makes freely in `DrawFrame` are taken
here from the window; the queue of funcs is an event that may come at any time.

### AnimationRunner

`Start` and `Stop` are one step each (they hold the mutex) and may come on any
goroutine at any time, also from a tick's callback.  A frame is `BeginFrame`,
one step per item, `EndFrame`, and `StopRunner` if nothing is left.  Whether an
item ends at a tick is nondeterministic.  The `stopped` flag is read without
the mutex: a flag set by another goroutine during a frame may not be seen before
its end (`unseen`).  Ghost variables say which items a `Stop` missed because
both lists held its animation (`missed`) and which were started between the end
of a frame that left nothing and the reset of `runnerStarted` (`late`).  That a
start on another goroutine does not wake a sleeping loop, as runner.go 87-92
says, concerns when the next frame comes and not what it ticks.

### DamageTracking

The canvas is a line of pixels; an object covers a set of them and shows one of
two looks; a painted pixel is the set of objects, with their looks, painted on
it.  That is what the question needs: is every pixel what a whole repaint
(`Whole`) would make it?  A frame is `BeginFrame`, the draining of the refresh
queue object by object, `Compute` (`updateGLContext`, then `ComputeDamage` or
`ResetDamage`) and `Paint` (restore, paint, snapshot, present).  `SetContent`
appears as the initial state.  The region is the damaged pixels or their hull:
`DamageRegion` never covers less than what was added (`RegionCovers`) and may
cover more.  The cap of 80 per cent on partial repaints is taken on the exact
set.

`migrated` is the build tag of that name.  A migrated build calls `Refresh` on
the main goroutine only; in one that is not, another goroutine's `Refresh` is
split at each access of `deduplicatedObjectQueue.In`, with `CanvasObjectQueue`
itself taken as atomic.  `NothingStale` is stated of migrated builds, since the
deduplication loses refreshes in the others (section 6).  Pads around objects,
effects that reach beyond an object's rect (Blur), clips of scrolling
containers, overlays' own caches and the texture cache are left out.

### DamageRegion

`internal/damage.go` on integers instead of `float32`.  `Add` ends where it
calls `coalesce`, and one turn of `coalesce`'s outer loop is a step, so that the
shuffling of the array is visible.  `Coverage` only reads and is left out.

### Preferences

One key.  Every value ever set, by this program or another that writes the
file, is a new number, so that "older" means smaller.  `set`, the listener,
`os.Create`, `savedRecently = true`, the write, the 100 ms, the watcher's event
and `load` are steps of their own.  `os.Create` truncates and is reported by the
watcher like the write; `events` counts the program's own file events under way
and `others` those of another program, and both may come before or after the
100 ms of a silence (`tardy` notes that an own one came after).  A write puts all
values into the file at once (one `Encode`, one flush).  `Stop` is `shutdown`: it
drops what is queued and hands the OnStopped hook to the lifecycle's runner, or
drops it too (`dropped`), which it does if the runner had queued it for the loop
(`AppRun.FlushTake`).  After `drained` the funcs run on the goroutines that would
have queued them, at once and side by side: the hook, the watcher's callback, and
as many resets as there are in `Late`.

### ObjectQueue

Every load, store and compare-and-swap of `In` and `Out` is a step.  Nodes are
values that go back to `free` and may be handed out at once, as `sync.Pool`
may.  `In` runs on the main goroutine and on others, `Out` on the main one.
The ghost `reused` notes that a node was handed out while an `In` still held it
as `last` or `lastnext`: from then on a comparison may succeed by accident, and
the properties end.

### Scheduler

One operation at a time holds the mutex (`op`) and saves in steps: the file is
removed, or truncated and then encoded, and each may fail.  Timers fire on
goroutines of their own and wait for the mutex (`fired`); what is delivered is
handed out before it is (`handed`).  `Crash` may come between any two steps and
leaves the file; `Start` reads it, or does not find or cannot open it, and then
begins without entries over a file that is intact (`Load`).  The clock stops at
`Horizon`.

### CanvasFocus and WindowInput

`CanvasFocus` gives each function of the overlay stack, of the focus manager
and of pop-ups as an operator from canvas to canvas; `managers` joins the
content's focus manager to those of the overlays.  `WindowInput` has an action
per GLFW callback, whole, since they run on the main goroutine, and three per
`waitForDoubleTap` goroutine: its cancel function is stored, its wait ends, its
closing func runs.  A place stands for a mouse position and `Trail` says what
lies under it, inwards.  The application's steps between events are focus
changes, `SetContent`, pop-ups shown and hidden, and an object hidden or shown.
Ghosts say which press was the last and by what it was answered (`answer`:
nothing, `TappedSecondary`, or `Tapped` or `DoubleTapped`), and note who was told
`MouseIn`, `Dragged` and `FocusGained` and not yet the opposite.  A
`TappedSecondary` that is passed on to the object under a dismissed overlay
answers no press.  There are no disabled objects, no Focusable within another
(the reverse walk of Shift+Tab would come to it second), no main menu, no key but
Tab, no touch, and a layout that `OverlayStack.Add` triggers calls nothing back.

### Entry and History

A rune is a letter, a space or a line break; each handler is an operator from
the entry's state to the next and ends in `Settle`, the part of the renderer's
`Refresh` that brings the cursor back into the text.  The actions of the undo
stack are records, merged by `TryMerge`'s rules.  `History` is the abstract
promise, a list of texts before and one of texts undone; `Before` and `After`
compute them from the stack, which is the refinement mapping.  Wrapped,
concealed and disabled entries, Tab, `OnSubmitted`, validation, data binding,
touch and callbacks that change the text while a handler runs are left out.

### DataList

A step is what happens under one lock: `Lock` is split from the entry into it
(`writer` is set while readers are still in), as new readers wait from there on;
`GetValue` and `SetValue` take the read lock twice.  `Change` stands for
Append, Prepend, Remove, Set and Reload up to `doReload`'s second loop: the
slice becomes any other one and items are dropped or made at the end.
`ReadValue` and `WriteValue` are the two halves of an item's update, since the
argument is read before the item's lock is taken.  `fyne.Do` is the set
`pending`.  `blind` is a ghost: items whose last change nobody will be told of.

## 3. The runs

| run | question | bounds |
|---|---|---|
| `app_run` | is the queue a FIFO, is no wake-up lost, are funcs run and frames drawn by wakes alone, does `Run` return, and only after OnStopped? | the two events, one more waiting call, one call made on main; capacities 1 |
| `window_frames` | is what is owed drawn, and at most one frame per blank? | all three gates, a timeout of two frames |
| `animations` | are animations held once, ticked when started and not when stopped? | two animations, three starts, any number of stops and frames |
| `damage_tracking` | does a partial repaint show what a whole one would? | three objects, two canvas sizes, three areas; two objects and one size in a build that is not migrated |
| `damage_region` | coverage, the cap and the merging of rectangles | 3 by 3 pixels, a cap of three, 39 rectangles |
| `object_queue` | is the lock-free queue a FIFO, and `len` its length? | four nodes, two objects, two goroutines |
| `preferences` | do changes reach the file, and does the saving end? | three values, two of them by another program, a failing save, a writer besides main, one reset at a time after the loop's end |
| `scheduler` | does the file hold what a restart needs, is everything delivered, and once? | two entries, two failing saves or reads, three starts, four times |
| `window_input` | does each tap answer a press, do hovers, drags and focus pair up, do the overlays' stacks agree? | six objects, two contents, two pop-ups, two places and the outside; three presses or six other steps |
| `entry` | do Undo and Redo walk through the texts that were shown? | texts up to three runes, two on a single line, a stack of two actions |
| `data_list` | do listeners know what there is once all is quiet, and does no path keep the lock? | two goroutines, three calls, two places, two values, three items |
| `list_jams` | the disagreement of section 6 | the same |

Why the bounds are enough to be interesting:

- *Capacities of 1*: a send blocks with one element in the channel, so every
  place where a full channel matters is reached with three calls: one in
  `chin`, one in `q`, one in `chout`.
- *Four calls*: the lifecycle's runner, which hands over one event at a time,
  races one further waiting call for `wakePosted` while a call made on main stems
  from a func or a callback, and the OnStopped event meets the shutdown.  A lost
  wake needs one producer, a claim held by somebody else two, of which main may
  be one.  The theorems lift both bounds.
- *A timeout of two frames*: a blank that comes in time, late, or after the
  gate has opened and kicked again.
- *Three starts of two animations*: an animation listed twice, restarted in the
  frame that ended it, or started while another is being ticked.
- *Three objects with areas that overlap on a pixel*: an object uncovered by
  one above it, and one covered by it; two sizes make a snapshot of the wrong
  size.
- *A cap of three rectangles on 3 by 3 pixels*: the cap is reached, the merge
  past it covers others, and `coalesce` takes more than one turn.
- *Four nodes*: the head's, two in the list and one in somebody's hand, so that
  the pool must hand out nodes that are still remembered.  The nodes are
  symmetric: no property or action tells them apart.
- *Three values, of which two by another program*: a change and two within its
  silence, or two and a third after it; with the hook, the watcher and a reset
  that is one of `Late`, three saves or loads meet after the loop's end.
- *Three starts of two entries*: a restart with one entry expired and one not,
  and another after the file was lost or could not be read; a second failure
  lets a save fail after that.
- *A cost of six*: a double click and a third press, or one click with four
  steps of the application between its press, its release and its goroutine.
- *Three runes, two actions*: a merged action, one that replaces a selection
  (which is two), a dropped redo, and a line break to join or to split.
- *Three calls on a list*: a change, another that crosses it, and a set of an
  item that has left the list.

The longest runs, on two cores, are `damage_tracking` (10 million states, two
minutes), `preferences` (1.7 million states, two minutes), `app_run` (236,000
states with five temporal properties, a minute and a half), `data_list` (4.5
million states, a minute and a quarter) and `entry` (178,000 states, a minute).

Deadlock checking is off where the system may stop: all calls made and the loop
returned, all starts made, all values set, the text or the clock at its bound.
It is on in `damage_region` and `window_frames`.

## 4. Properties

- *Driver loop.* `NoLostWake`: while the loop waits, a queued func whose caller
  has finished `wakeLoop` has a wake on its way.  `CountIsExact`: `pendingFuncs`
  is the number of funcs counted and not taken, until shutdown; both an over-
  and an undercount are bugs.  `WaitedIsRun`: `DoAndWait` returns before Quit
  only after the loop ran the func.  `EveryFuncRuns`, `PendingFrameIsDrawn`: the
  same as liveness, with no fairness for the end of `idleWait`, so that a lost
  wake would show as a loop that sleeps.
- *Channel.* `IsFifo`; `ForwarderEnds`: its goroutine ends after shutdown unless
  what is left does not fit into `ch.out`.
- *End of the application.* `StoppedBeforeExit`: the queue's order holds `Run`
  back.  `RunReturns`: it is not held back for ever, but in the two cases that
  the property names.
- *Frames.* `KickMeansWaiting`: the kick channel's one place is enough and the
  waiter never waits for a blank that nothing was presented for.  `Paced`: at
  most one frame per blank, but for the excuses it names.  `OwedIsDrawn`: no
  gate freezes a window that can be seen.  `WaiterEnds`.
- *Animations.* `HeldOnce`, `StopStops`, `StartedIsTicked`, with the two
  exceptions of section 6 stated in them.
- *Damage.* `NothingStale`, `SnapshotIsShown`, `RefreshAnnounced`; `Covers` and
  `Separate` for the region.
- *Object queue.* `IsFifo` as an action property with the list's content as
  `items`; `ListIsSound`: the tail is on the list, no node of the list is in
  the pool, `Out` does not panic; `LenCounts`.
- *Preferences.* `NoChangeStranded`, `Saved`, `NotUndoneOnMain` and `ComesToRest`,
  with the exceptions of section 6 stated in them: a dropped hook in `Saved`, the
  end of the loop in `NotUndoneOnMain`, saves that cross and events that outlast a
  silence in `ComesToRest`.
- *Scheduler.* `FileIsCurrent`, unless the last save failed or the start could not
  read the file and nothing was saved since; `DeliveredRight`, `IsDelivered`.
- *Window.* `ClickIsAwaited`: no click counts as the second of one that is over;
  `TapsAnswerPresses`: a tap is of the object pressed last, and of a press that
  has not been tapped; `InPairs`; `KeysReachFocused`; `StackInStep`.
- *Entry.* `IsHistory` and `CursorFollowsEdit`.
- *Lists.* `InStep`: when nothing is under way, every listener was last told
  what there is; `CallsGoOn`.

Fairness.  The Go scheduler runs what can run: weak fairness of the next step of
each goroutine that the code starts, of the loop, of the forwarding goroutine
and of sleeping ones, and of the clock (`Tick`).  `WindowFrames` assumes that a
Wayland compositor answers and nothing of the display's blanks, of events or of
`idleWait`; `Scheduler` nothing of the application, of failures and of crashes;
`Preferences` that the watcher reports.  Nowhere is anything assumed of calls,
starts, sets, input or Quit, nor of the end of `idleWait`: the wakes have to do.
In `ComesToRest` nothing makes anybody quit.

## 5. Proofs

| theorem | says, for every value of the constants |
|---|---|
| `Driver_proofs!ChanIsFifo` | the channel implements `FifoQueue` |
| `Driver_proofs!ChanTypeCorrect`, `ChanBuffersBounded` | its Go channels keep to their capacity and are empty when closed |
| `Driver_proofs!Inductive` | `IInv` is an invariant of the driver loop |
| `Driver_proofs!TypeCorrect`, `WakeNeverLost`, `PendingIsExact`, `WaitedFuncsRan` | the loop's types and `NoLostWake`, `CountIsExact`, `WaitedIsRun` |
| `Driver_proofs!DriverIsMainLoop` | the application implements the driver loop |
| `Driver_proofs!AppInductive`, `AppTypeCorrect`, `NoExitBeforeStopped` | `IInv /\ AppInv` is an invariant, and `StoppedBeforeExit` |
| `ObjectQueue_proofs!QueueIsFifo` | the lock-free queue implements `FifoQueue` |
| `ObjectQueue_proofs!Inductive`, `ListStaysSound`, `LenIsAccountable` | `IInv` is an invariant, and with it `ListIsSound`, `LenCounts` |
| `Preferences_proofs!Inductive`, `SilenceEnds`, `FileIsSaved` | `PrefsInv` is an invariant, and with it `NoChangeStranded`, `Saved` |
| `Preferences_proofs!MainIsNotUndone` | the action property `NotUndoneOnMain` |
| `WindowInput_proofs!ClicksAreAwaited`, `TapsAnswer`, `EventsArePaired` | `ClickIsAwaited`, `TapsAnswerPresses`, `InPairs` |
| `WindowInput_proofs!StackStaysInStep`, `KeysAreExpected` | `StackInStep`, `KeysReachFocused` |
| `Frames_proofs!KickFollowsWaiting`, `GateTypeCorrect` | `KickMeansWaiting` and the types |
| `Frames_proofs!FramesArePaced` | the action property `Paced` |
| `Frames_proofs!AnimInvariant`, `AnimationsHeldOnce` | `AnimInv` is an invariant, and with it `HeldOnce` |
| `Frames_proofs!StopIsFinal` | the action property `StopStops` |
| `DataList_proofs!StepsInvariant`, `ListenersInStep` | `StepInv` is an invariant, and with it `InStep` |
| `DataList_proofs!LockIsHeld` | the list's lock is held where the calls say, and free when nothing is under way |
| `Damage_proofs!NothingIsStale`, `SnapshotIsTheFrame`, `RefreshIsAnnounced`, `TypeCorrect` | the three properties of a frame |
| `Damage_proofs!RegionTypeCorrect`, `RegionCovers`, `RegionSeparate` | the region's three |
| `Scheduler_proofs!OnlyStaleRepeats`, `FileNamesEntries` | `DeliveredRight`, `FileIsCurrent` |

`Driver_proofs` holds the theorems of `UnboundedChan`, `MainLoop` and `AppRun`,
each of which extends the one before; `Damage_proofs` and `Frames_proofs` put two
components side by side, one after the other; every other proofs module is about
one component.

The assumptions are the named ones of the modules: capacities are positive,
`Calls` is finite and contains `WaitCalls` and `MainCalls`, which are disjoint;
the two events are different waiting calls; width and height are naturals, the
cap is positive, inputs have integer corners; areas lie within every size;
the nodes and goroutines of the object queue are finitely many (its length is
compared with their number) and `Nil` is no node; no writer of preferences and no
late goroutine is the other or one of the three with names of their own; a bound
list has some value, and `None` is neither one nor a goroutine; trails and trees name
objects, there is a content, and nothing is both a content and a pop-up.  Two
are more than types.  `PaddingAssumption`: the canvas is so large that the root's
padding leaves it more than the 80 per cent from which a repaint is whole.
`TreesApart`: what a pop-up shows is in no other pop-up and in no content, since
a Fyne object has one parent; two contents may share objects.  Without it
`Focus` would take the first manager that holds the object, and an object could
have the focus of two managers at once.

*Driver loop.*  `NoLostWake` is not inductive: it says nothing of the moment
when the loop has released the claim and not yet looked at the count.
`ClaimMeansWake` does: from the release on, a claim that stands means that a
wake is on its way, which is what a producer relies on that finds the claim
taken.  `QueuedOnce` ties the queue's content to the calls (a func is queued
once, after its send), so that `CountIsExact` can compare the number with a set;
`Phases` says what the loop's place implies about the flags, for shutdown.
`IInv` is the conjunction.  The proof has one lemma per conjunct.  Steps that
leave the queue's content alone are recognised by `QuietEffect`; the forwarding
goroutine's steps are among them by `ForwardKeeps`, from the proof of the
refinement.

*Channel.*  `ChanTypeOK` is invariant; under it each step of the goroutine
leaves `chout \o q \o chin` as it is, a send appends and a receive takes
the head (`MoveHead`, `AppendLast`, `TakeFirst`).

*End of the application.*  `AppInv` says where the two events are: from
`Terminate` on the OnStopped event is queued, being handed over, or over; `Run`'s
own is queued once `runGL` has returned, so behind it; and since the runner
hands over one at a time, `Run`'s is not taken up before the other is over.
`AppStepIsLoopStep` makes every step one of `MainLoop`, so `IInv` comes with it.

*Object queue.*  `IInv` says that some sequence of nodes `c[1] .. c[n]` is the
list: `c[1]` is the head, each `next` names the following node and the last one's
is `Nil` (`Linked`); the tail is the last or the one before (`TailNear`); and no
node is twice in the list, or in it and in the pool or with an `In` that fills it
or the `Out` that took it (`Apart`).  `Loaded` and `OutLoaded` say of each place
how old what has been read may be: a loaded node is on the list or has a next
node for good, so a comparison succeeds only with the end of the list, and only
once the tail has come to it.  `IInv` ends with `reused`, as the properties do: once a
node has been through the pool under a pending comparison the code promises
nothing (section 6).  There is one lemma per action, which keeps `c`, appends to
it or drops its head.  What the queue holds is a recursive function on the list
(`Reach`); `ReachIs` finds it equal to the values of `c[2] .. c[n]` with a least
counterexample (`LeastNat`), which is how far induction goes without the
library's induction theorems.  `LenCounts` is an equation modulo `LenModulus`,
from the same invariant and the number of goroutines in the places that follow a
link or a move (`ModAdd`, `LenTurns`).

*Preferences.*  `PrefsInv` is about who is still to save.  Where file and memory
differ, and main alone has set values and every save has succeeded, some
goroutine has changed the values and not yet asked, or is in a save, or
`changedDuringSaving` tells the reset to save (`StillToSave`); a load goes on to
ask in the same way.  Once the hook has saved nothing is set any more, a load only
makes the two equal or finds the file empty, and it is empty only inside a save
(`Truncated`), so that they differ only inside one (`HookSaved`).  At rest or at
exit nobody is in a save: the file is the memory, or the hook was dropped with a
change that the silence held back.  For `NotUndoneOnMain` the order counts, too:
as long as the loop runs, the memory is ahead of the file only where main is about
to save or `changedDuringSaving` holds (`MainInTime`); that means `savedRecently`,
under which the watcher does not load, and the reset that ends both goes on to
save in the same step.  `Roles` says who can be running: writers once another
goroutine has set a value, hook, watcher and late resets after the loop.

*Frames of a window.*  `KickMeansWaiting` with the types is inductive as it
stands; the lemmas take apart presenting and dispatching, and the types of the
places, for the SMT solver, from those of the flags, for Zenon (as they do in the
driver loop).  `Paced` needs `PaceInv`: the compositor has taken the last frame,
or its wait is outstanding and not yet over, or the frame is excused, or a wait
has failed.  A wait that ends takes the first with it, so a gate that is ready
without a timeout leaves only the others.

*Damage.*  `DamageInv` says, in its parts, that a valid snapshot is the frame
(`SnapInv`); that the region is empty outside a frame (`FrameInv`); that each
pixel of the snapshot shows what stood there when the diff's rects were taken,
with today's looks except for what is pending a refresh (`DiffInv`); and that
while a frame is being painted, what the region leaves out is right already
(`PaintInv`).  Two facts carry it: an object is painted on a pixel only if it
covered it when the rects were taken or does now, and both are damaged when they
differ; and without tracking the root alone exceeds 80 per cent, so the frame is
whole (`RootIsEnough`, from `PaddingAssumption`).

*Animations.*  `AnimInv` follows the four lists through a frame.  They share
nothing but `toTick`, which begins as a copy of `animations` (`KeptApart`); no
item is twice in one (`FourLists`); and what goes on is in `pendingAnimations`, or
during a frame in what it has still to tick or to carry over, or between frames
in `animations` (`LiveListed`).  `HeldOnce` is these three.  For `StopStops`,
`StopFinds` says why it is enough that `Stop` looks into `animations` and
`pendingAnimations`: what a frame has in hand stays in `animations`, or has its
flag.  So after a Stop an item has the flag or is in no list (`StopReaches`).
`Stop` prunes a list by enumerating in order the places it keeps (`InOrder`);
that there is such an enumeration, and that it gives each place once, is proved
from the ranks of the places (`OrderExists`).

*Lists.*  `InStep` says nothing of a list with calls under way.  `StepInv` names,
for each place whose listener has missed a change, the call that is still to come
to it: a `SetValue` that has written the slice and is still to find the item and
set it (`ToTell`), or a `doReload` that is still to come to the place
(`ToReload`), and the same of the length (`LengthInStep`).  An external list compares with
`old` and not with the value, so that `ExternalInStep` relates three: the value,
`old` and what was last told, and says of a `doReload` between its reading and
its writing that what it has read is not behind both.  `Held` makes whoever has
the lock the only one in `doReload`, so the slice and the items keep their length
under it.  When nothing is under way there is no such call, and what is left is
`InStep`.  `Held` and the types give `LockIsHeld`, the part of `CallsGoOn` that is
not about ENABLED.

*Region.*  The invariant is `TypeOK`, `Covers` and that all pairs without the
grown rectangle are apart: only the one that grew may be mergeable with
another, which is why `coalesce` looks at that one alone.  It needs that being
free to merge is symmetric (`FreeSymmetric`), that a union covers both and stays
in the bound (`UnionCovers`, `UnionGood`), and the case in which `coalesce`'s
rectangle is the last and moves.

*Scheduler.*  `OnePlace` is the strengthening: an identifier is among the
entries, with the operation that holds the mutex, or handed over, never in two
of these; and one that is handed over, delivered or cancelled is in the file
only if a failed save left it there (`stale`).  For `FileIsCurrent` the
invariant also says that every entry has its timer, also while an operation
holds the mutex.

*Window.*  `ClickIsAwaited` with the types of what it is about is inductive
(`Awaited`).  For `TapsAnswerPresses`, `Answered` says that what is still
`mousePressed` is what was pressed last, and that no `Tapped` or `DoubleTapped`
has answered that press.  `InPairs` needs to know that a
drag has begun where a `DragEnd` is owed (`Paired`).  For the focus, `Sound` is
an invariant of the canvas that every operator of `CanvasFocus` preserves:
overlays, caches and managers are in step, what a manager has focused is in its
own tree, and whoever a manager has focused was told, unless its root is among
the exceptions.  One lemma per operator (`MoveSound`, `FocusSound`,
and so on) says so for any canvas and any exceptions, one per action puts
them together, and `KeysInv` adds that while the window has the focus the
exceptions are `strayed`.

TLC agrees with the inductive invariants on the bounds of the runs.  Model-checked
only:

- liveness (`EveryFuncRuns`, `PendingFrameIsDrawn`, `RunReturns`,
  `ForwarderEnds`, `OwedIsDrawn`, `WaiterEnds`, `StartedIsTicked`,
  `ComesToRest`, `IsDelivered`), which needs fairness and ENABLED, and
  `CallsGoOn`, which is stated with ENABLED;
- `IsHistory` of the entry, whose refinement mapping folds the undo stack, that is,
  needs induction over data, and `CursorFollowsEdit`, an equation of parts of
  texts for which no proof is written.

## 6. Where the code and what is said of it part

One run expects a violation, and its counterexample is a behaviour of the code.

- `list_jams`: `GetValue` and `SetValue` of a bound list hold its lock for
  reading and call `Length`, which takes it again.  If another goroutine's
  `Append`, `Remove`, `Set` or `Reload` asks for the lock in between, both are
  blocked for ever, and every later call with them, although "all APIs on
  bindable data items are safe to invoke directly from any goroutine"
  (`binding.go` 25).

The models contain further behaviours of that kind; the properties name them
where they are exceptions.

*Loop and shutdown.*

- `shutdown` flushes what has reached `Out`.  A waiting call whose func is still
  being forwarded is never answered; if it is the OnStopped event, the
  lifecycle's runner waits for ever and `Run` with it (named in `RunReturns`).
- `shutdown` answers a waiting call whose func it drops, so `DoAndWait` returns
  without it having run (`WaitedIsRun` is limited to the time before Quit); if
  it is the OnStopped event, its hook, which saves the preferences, is not
  called.
- A call that tested `drained` before it was set may send on the closed channel
  (`SendPanics`).
- `running` is set before `d.init`, so a goroutine may post to a GLFW that is
  not initialised.
- A Quit from a callback of `pollEvents` may have its post taken by that same
  call, and the loop then sleeps for `idleWait` before it sees `done`.

*Frames.*

- `framePending` passes over a closing window before its `ShouldClose` is
  looked at, so that it may stay for `idleWait`.  A window shown again is
  painted whatever the gate says, and vsync is read twice in a frame (`excused`).
- An animation started by another goroutine between the end of a frame that
  left none and the reset of `runnerStarted` is ticked only once another is
  started (`late`); a `Stop` may leave a second registration running
  (`missed`).
- With `Refresh` on another goroutine the mark in `dedup` may be stored after
  the drain took the object, and the next `Refresh` is then skipped.
- A Blur shows what is under it beyond what moved there, which nothing damages.
- In a window so small that the root covers less than 80 per cent of it,
  switching partial repaint off and on again may leave a stale place where
  something was hidden meanwhile.
- Two rectangles that overlap in a corner are both held by the region and
  painted twice.
- The object queue compares pointers to pooled nodes: an `In` that was held up
  may succeed on a node that has been through the pool meanwhile, and lose what
  is in the queue (`reused`).

*Preferences and scheduler.*

- `save` truncates the file, which the watcher reports, before it sets
  `savedRecently`: a reload that began in between can overwrite a value that
  another goroutine set meanwhile (`NotUndoneOnMain` is about the main one).
- After the loop has ended, a late reset or reload may truncate the preferences
  file while the process exits (`Saved` asks for an exit with no save under
  way); and a reset and a reload may cross, so that an older value, read from the
  file before, replaces one that main has set (`NotUndoneOnMain` ends with the
  loop).
- Where `shutdown` drops the hook together with the queue, a change made within
  the 100 ms after the last save is not in the file (`dropped` in `Saved`).
- Saves of two goroutines that cross, or file events that come later than the
  100 ms, may keep the watcher reloading and saving (`shared` and `tardy` in
  `ComesToRest`).
- Timers and `Start` ignore a failed save, so that an entry may be delivered
  again after a restart; so does `Cancel` of the last entry, which returns nil
  although the file could not be removed (`stale`).  A crash between the save
  and the delivery loses an entry, and one between truncation and encoding all
  of them.
- A `Start` that does not find the file or cannot open it begins without entries,
  and the next save drops those that were in it; until then `Cancel` of one of
  them returns nil and does nothing, and a restart delivers it.

*Windows and focus.*

- When the window loses the focus, an overlay is opened, and it is dismissed
  after the window has come back, the one below it gets the keys without
  `FocusGained` (`strayed`).
- Opening an overlay does not tell the content's focused object; `SetContent`
  calls its `FocusGained` again without `FocusLost`.
- Hiding a pop-up under another takes both away, but the upper one still thinks
  it is shown, and its next `Show` shows nothing.
- A goroutine of a first click that ends during the second press taps early and
  the second click is lost; clicks on two double-tappable objects within the
  delay lose both taps; after a drag a stale `mousePressed` remains; and a click
  that GLFW reports with a move lands at the old position.
- `TappedSecondary` leaves `mousePressed` standing: if the next press is on nothing
  that can be tapped and its button comes up over the same object, that is tapped
  once more, by `Tapped` or `TappedSecondary`, for the one press.  A double tap
  counts two releases on an object, wherever the buttons went down.

*Entry.*

- Pasting an empty clipboard over a selection records a deletion and leaves the
  text (`blanked`): the next Undo inserts what was never removed.
- `selecting` outlives `SetText`, Undo and a lost focus: an empty stale selection
  swallows a Backspace and lets Left jump to the start.
- Ctrl+Delete at the end of a row pushes an empty action and drops what could be
  redone; Ctrl+Backspace passes over a selection; Ctrl+Left on an empty row does
  not leave it.

*Lists.*

- `doReload` reads a value before it takes the item's lock and writes it back,
  over what another goroutine set in between.
- `Set` of an external list's item leaves `old` behind, so that a `Set` or
  `Reload` of the list that brings the old value back passes the item by; and a
  `Set` of an item that has left the list changes the value of the item that
  has its place now, whose listeners are not told (both in `blind`).
- A `Set` of such an item, or a `SetValue` that crosses a Remove, may write past
  the end of the slice, and panics (`crashed`).

## 7. Not modelled, and what could follow

What is left out of a modelled component is said in section 2 and, for each
component, in `PROJECT.json`.  Components without a module:

- *Renderer and texture caches*: maps on the main goroutine with times of
  expiry.  What a use of an expired renderer does depends on each widget.
- *Settings, in-memory preferences, translations, storage*: a file and a list of
  listeners, a map under a lock, lookups and wrappers; no step of one actor
  meets another's in a way that their locks do not settle.
- *Painters and shaders, canvas primitives, containers, layouts, dialogs and the
  other widgets*: floating-point geometry and presentation, sequential on the
  main goroutine.
- *Other drivers and command line tools*: not part of a desktop application of
  this fork.

These make up most of the repository's lines, which is why the modules stand for
a small part of them.

Next would be: trees and maps of data binding, which repeat the pattern of
lists; scrolling and menus in `WindowInput`; wrapped text in `Entry`; and the
cache of a canvas's overlays in `DamageTracking`.  A proof that is within reach
is `CursorFollowsEdit`, handler by handler.
