---------------------------- MODULE WindowFrames ----------------------------
(****************************************************************************)
(* When a window is presented: the frames of the driver loop (loop.go) and  *)
(* the present gate that holds them back until the compositor has taken the *)
(* last one.  On Windows the gate waits for the display's vertical blank on *)
(* a goroutine of its own (present_windows.go), on Wayland for the answer   *)
(* to a frame callback (present_wayland.go), elsewhere it is always ready.  *)
(*                                                                          *)
(* One window.  What gives the loop a frame is the canvas's dirty flag; the *)
(* unit of time is the loop's frame interval.                               *)
(****************************************************************************)
EXTENDS Naturals

CONSTANTS Gates,        \* the gates of the build, out of AllGates
          GateTimeout   \* how long a blank may fail to arrive, in frames

AllGates == {"none", "vblank", "wayland"}

ASSUME GatesAssumption == Gates \subseteq AllGates /\ GateTimeout \in Nat \ {0}

VARIABLES
  loop,       \* the place of the main goroutine in runGL
  due,        \* the deadline of the next frame is reached
  visible,    \* w.visible
  life,       \* "open", "closing" (w.closing) or "destroyed"
  dirty,      \* the canvas's dirty flag
  vsync,      \* what SetVSync was last called with
  interval,   \* swapInterval: SwapBuffers waits for the display
  gate,       \* which gate newPresentGate made
  waiting,    \* g.waiting; on Wayland, that ready is not set
  age,        \* the time since g.since, up to GateTimeout + 1
  kick,       \* the kick channel, of capacity one, is full
  dead,       \* g.dead
  waiter,     \* where the goroutine run is; on Wayland, the frame callback
  owed,       \* ghost: something refreshed has not been drawn since
  taken,      \* ghost: the compositor has taken the last frame
  excused     \* ghost: why the next frame may come early all the same

app == <<visible, life, dirty, vsync>>
gateVars == <<waiting, age, kick, dead, waiter>>
pacing == <<taken, excused>>
ghosts == <<owed, pacing>>
vars == <<loop, due, app, interval, gate, gateVars, ghosts>>

Init == /\ loop = "drain" /\ due = TRUE
        /\ visible = TRUE /\ life = "open" /\ dirty = TRUE /\ vsync = TRUE
        /\ interval = TRUE
        /\ gate \in Gates
        /\ waiting = FALSE /\ age = 0 /\ kick = FALSE /\ dead = FALSE
        /\ waiter = "select"
        /\ owed = TRUE /\ taken = TRUE /\ excused = FALSE

-----------------------------------------------------------------------------
(* The gate. *)

(* Mutant of Ready: without the timeout. *)
ReadyByBlank == gate = "none" \/ ~waiting

(* Mutant of Ready: the timeout is as long as a frame. *)
ReadyEarly == gate = "none" \/ ~waiting \/ age > 0

Ready == CASE gate = "none" -> TRUE
           [] gate = "vblank" -> ~waiting \/ age > GateTimeout
           [] gate = "wayland" -> ~waiting \/ life = "destroyed"

(* A frame callback is asked for, and one that is outstanding destroyed;    *)
(* a wait for the blank is armed, unless one is outstanding already.        *)
Arm == \/ /\ gate = "wayland"
          /\ waiting' = TRUE /\ waiter' = "blank" /\ excused' = FALSE
          /\ UNCHANGED <<age, kick, dead>>
       \/ /\ gate = "vblank" /\ ~dead /\ ~vsync /\ ~waiting
          /\ age' = 0
          /\ kick' = TRUE /\ waiting' = ~kick   \* select with default
          /\ excused' = FALSE
          /\ UNCHANGED <<dead, waiter>>

NotArmed == /\ gate # "wayland"
            /\ gate = "vblank" => dead \/ vsync \/ waiting
            /\ excused' = (waiting \/ (vsync /\ ~interval'))
            /\ UNCHANGED gateVars

(* requestFrame and SwapBuffers, which with an interval waits for the       *)
(* display itself.                                                          *)
Present == /\ Arm \/ NotArmed
           /\ taken' = interval'

-----------------------------------------------------------------------------
(* The goroutine run of the Windows gate. *)

(* Mutant of TakeKick: the gate opens when the waiter has heard of it. *)
TakeKickReady == /\ gate = "vblank" /\ waiter = "select" /\ kick
                 /\ kick' = FALSE /\ waiter' = "blank" /\ waiting' = FALSE
                 /\ UNCHANGED <<loop, due, app, interval, gate, age, dead, ghosts>>

TakeKick == /\ gate = "vblank" /\ waiter = "select" /\ kick
            /\ kick' = FALSE /\ waiter' = "blank"
            /\ UNCHANGED <<loop, due, app, interval, gate, waiting, age, dead, ghosts>>

(* A blank composes what was last presented, and ends the wait for it;      *)
(* nothing else does, unless the wait fails.                                *)
Blank == /\ gate = "vblank"
         /\ taken' = TRUE
         /\ waiter' = IF waiter = "blank" THEN "store" ELSE waiter
         /\ UNCHANGED <<loop, due, app, interval, gate, waiting, age, kick, dead, owed, excused>>

WaitFails == /\ gate = "vblank" /\ waiter = "blank"
             /\ dead' = TRUE /\ waiter' = "store"
             /\ UNCHANGED <<loop, due, app, interval, gate, waiting, age, kick, ghosts>>

Waited == /\ gate = "vblank" /\ waiter = "store"
          /\ waiting' = FALSE /\ waiter' = "select"
          /\ UNCHANGED <<loop, due, app, interval, gate, age, kick, dead, ghosts>>

(* Mutant of CloseAdapter: done is looked at after a kick only. *)
CloseAfterKick == /\ gate = "vblank" /\ waiter = "select" /\ life = "destroyed"
                  /\ kick /\ kick' = FALSE
                  /\ waiter' = "closed"
                  /\ UNCHANGED <<loop, due, app, interval, gate, waiting, age, dead, ghosts>>

(* free has closed done: the adapter's handle is closed. *)
CloseAdapter == /\ gate = "vblank" /\ waiter = "select" /\ life = "destroyed"
                /\ waiter' = "closed"
                /\ UNCHANGED <<loop, due, app, interval, gate, waiting, age, kick, dead, ghosts>>

Waiter == TakeKick \/ Waited \/ CloseAdapter

(* The compositor's answer to the frame callback, on the connection. *)
Answer == /\ gate = "wayland" /\ waiter = "blank"
          /\ waiter' = "store" /\ taken' = TRUE
          /\ UNCHANGED <<loop, due, app, interval, gate, waiting, age, kick, dead, owed, excused>>

-----------------------------------------------------------------------------
(* What the application does on the main goroutine: in a func of the queue  *)
(* or a callback of the wait, in one of pollEvents, or in a tick.           *)
InApp == loop \in {"drain", "poll", "tick"} /\ UNCHANGED <<loop, due, gate>>

Refresh == /\ InApp /\ ~dirty
           /\ dirty' = TRUE /\ owed' = TRUE
           /\ UNCHANGED <<visible, life, vsync, interval, gateVars, pacing>>

Hide == /\ InApp /\ life = "open" /\ visible
        /\ visible' = FALSE
        /\ UNCHANGED <<life, dirty, vsync, interval, gateVars, ghosts>>

(* doShowAgain repaints at once, whatever the gate says. *)
ShowAgain == /\ InApp /\ life = "open"
             /\ visible' = TRUE
             /\ interval' = (vsync /\ gate # "wayland")
             /\ Present
             /\ owed' = FALSE
             /\ UNCHANGED <<life, dirty, vsync>>

Close == /\ InApp /\ life = "open"
         /\ life' = "closing"
         /\ UNCHANGED <<visible, dirty, vsync, interval, gateVars, ghosts>>

(* processFocused, on Wayland: markReady and SetDirty. *)
FocusGained == /\ InApp /\ gate = "wayland" /\ life # "destroyed"
               /\ waiting' = FALSE /\ dirty' = TRUE /\ owed' = TRUE
               /\ excused' = (excused \/ ~taken)
               /\ UNCHANGED <<visible, life, vsync, interval, age, kick, dead, waiter, taken>>

(* SetVSync, on any goroutine. *)
SetVSync == /\ vsync' = ~vsync
            /\ UNCHANGED <<loop, due, visible, life, dirty, interval, gate, gateVars, ghosts>>

App == Refresh \/ Hide \/ ShowAgain \/ Close \/ FocusGained \/ SetVSync

-----------------------------------------------------------------------------
(* The loop. *)

(* frame_done is called by pollEvents and waitEvents. *)
Dispatch == IF gate = "wayland" /\ waiter = "store"
            THEN waiting' = FALSE /\ waiter' = "select" /\ UNCHANGED <<age, kick, dead>>
            ELSE UNCHANGED gateVars

PollEvents == /\ loop = "drain" /\ due
              /\ loop' = "poll"
              /\ Dispatch
              /\ UNCHANGED <<due, app, interval, gate, ghosts>>

NotDue == /\ loop = "drain" /\ ~due
          /\ loop' = "rest"
          /\ UNCHANGED <<due, app, interval, gate, gateVars, ghosts>>

(* A window that ShouldClose is destroyed, and its gate freed. *)
CheckClosed == /\ loop = "poll"
               /\ loop' = "tick"
               /\ IF life = "closing"
                  THEN life' = "destroyed" /\ visible' = FALSE
                  ELSE UNCHANGED <<life, visible>>
               /\ UNCHANGED <<due, dirty, vsync, interval, gate, gateVars, ghosts>>

(* decideRepaint: the flag is cleared only once the gate is ready.          *)
Repaint == /\ loop = "tick" /\ life = "open"
           /\ visible /\ Ready /\ dirty
           /\ dirty' = FALSE /\ owed' = FALSE
           /\ interval' = (vsync /\ gate # "wayland")
           /\ loop' = "swap" /\ due' = FALSE
           /\ UNCHANGED <<visible, life, vsync, gate, gateVars, pacing>>

(* Mutant of NoRepaint: the flag is cleared before the gate is asked. *)
NoRepaintCleared == /\ loop = "tick"
                    /\ ~(life = "open" /\ visible /\ Ready /\ dirty)
                    /\ loop' = "rest" /\ due' = FALSE /\ dirty' = FALSE
                    /\ UNCHANGED <<visible, life, vsync, interval, gate, gateVars, ghosts>>

NoRepaint == /\ loop = "tick"
             /\ ~(life = "open" /\ visible /\ Ready /\ dirty)
             /\ loop' = "rest" /\ due' = FALSE
             /\ UNCHANGED <<app, interval, gate, gateVars, ghosts>>

Swap == /\ loop = "swap"
        /\ loop' = "rest"
        /\ interval' = interval
        /\ Present
        /\ UNCHANGED <<due, app, gate, owed>>

FramePending == life = "open" /\ visible /\ dirty

(* With nothing to draw the loop sleeps on the OS queue and leaves the      *)
(* deadline behind; else until the deadline.                                *)
Rest == /\ loop = "rest"
        /\ \/ ~FramePending /\ due' = TRUE /\ loop' = "asleep"
           \/ FramePending /\ due' = due
              /\ loop' = IF due THEN "drain" ELSE "paused"
        /\ UNCHANGED <<app, interval, gate, gateVars, ghosts>>

(* An event, a posted func or the end of idleWait. *)
WakeUp == /\ loop \in {"asleep", "paused"}
          /\ loop' = "drain"
          /\ Dispatch
          /\ UNCHANGED <<due, app, interval, gate, ghosts>>

Deadline == loop = "paused" /\ due /\ WakeUp

LoopStep == PollEvents \/ NotDue \/ CheckClosed \/ Repaint \/ NoRepaint \/ Swap \/ Rest

Tick == /\ due' = TRUE
        /\ age' = IF age > GateTimeout THEN age ELSE age + 1
        /\ UNCHANGED <<loop, app, interval, gate, waiting, kick, dead, waiter, ghosts>>

Next == App \/ LoopStep \/ WakeUp \/ Waiter \/ Blank \/ WaitFails \/ Answer \/ Tick

Spec == Init /\ [][Next]_vars

(* The Go scheduler, the clock, and a compositor that answers.  Nothing is  *)
(* assumed of the display's blanks, of events and of the end of idleWait.   *)
FairSpec == /\ Spec
            /\ WF_vars(LoopStep) /\ WF_vars(Deadline) /\ WF_vars(Tick)
            /\ WF_vars(TakeKick) /\ WF_vars(Waited) /\ WF_vars(CloseAdapter)
            /\ WF_vars(Answer)

-----------------------------------------------------------------------------
TypeOK == /\ loop \in {"drain", "poll", "tick", "swap", "rest", "asleep", "paused"}
          /\ life \in {"open", "closing", "destroyed"}
          /\ gate \in Gates
          /\ waiter \in {"select", "blank", "store", "closed"}
          /\ age \in 0..(GateTimeout + 1)
          /\ {due, visible, dirty, vsync, interval, waiting, kick, dead,
              owed, taken, excused} \subseteq BOOLEAN

(* The kick channel's one place is enough: while a kick or a wait for a     *)
(* blank is outstanding the gate is waiting, so that requestFrame never     *)
(* finds the channel full (present_windows.go 162-167), and the waiter      *)
(* never waits for a blank that nothing was presented for.                  *)
KickMeansWaiting ==
  gate = "vblank" => /\ kick \/ waiter \in {"blank", "store"} => waiting
                     /\ waiting => kick \/ waiter \in {"blank", "store"}
                     /\ ~(kick /\ waiter \in {"blank", "store"})

(* The loop presents a frame only after the compositor has taken the one    *)
(* before, "DWM composes a window once per vertical blank and keeps only    *)
(* the newest" (present_windows.go 17-22): unless it paces itself by its    *)
(* swap interval, the wait has failed or timed out, or the last frame could *)
(* not arm a wait of its own (excused).                                     *)
Paced == [][Repaint => \/ taken \/ interval' \/ excused
                       \/ gate = "none" \/ dead \/ age > GateTimeout]_vars

(* No gate freezes the window (present_windows.go 36-39): what is dirty is  *)
(* drawn although the display stops blanking, the wait fails, VSync is      *)
(* switched or no event arrives, as long as the window is there to be seen. *)
OwedIsDrawn == owed ~> (~owed \/ ~visible \/ life # "open")

(* The gate's goroutine ends with its window and closes the adapter, unless *)
(* it is in the wait for a blank, which cannot be cancelled.                *)
WaiterEnds == (gate = "vblank" /\ life = "destroyed")
                ~> (waiter = "closed" \/ waiter = "blank")
=============================================================================
