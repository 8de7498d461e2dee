-------------------------------- MODULE AppRun --------------------------------
(****************************************************************************)
(* How a desktop application ends: gLDriver.Run (driver.go 183-202) around  *)
(* the driver loop, and the lifecycle's event queue (internal/app/          *)
(* lifecycle.go).  fyneApp.Run starts a goroutine, the runner, that takes   *)
(* one event after the other from the queue and hands it to the main        *)
(* goroutine with DoFromGoroutine(event, true); shutdown queues the         *)
(* OnStopped event, which also saves the preferences (app.go 181-185); and  *)
(* once runGL has returned, Run waits for a last event of its own.          *)
(*                                                                          *)
(* The event queue is an UnboundedChan too: here it is the queue that       *)
(* UnboundedChan implements (ChanIsFifo).                                   *)
(****************************************************************************)
EXTENDS MainLoop

CONSTANTS Stopped,  \* the call of runOnMainWithWait for the OnStopped event
          Waiter    \* the one for the event of WaitForEvents

EventCalls == {Stopped, Waiter}

ASSUME EventAssumption == /\ EventCalls \subseteq WaitCalls
                          /\ Stopped # Waiter
                          /\ "none" \notin EventCalls

VARIABLES events,   \* the lifecycle's event queue
          runner,   \* the event the runner is handing over, or "none"
          appExit   \* how far Run has got once runGL returned

appVars == <<events, runner, appExit>>

AppInit == /\ Init
           /\ events = <<>> /\ runner = "none" /\ appExit = "running"

(* A step of the driver loop or of a call that is not an event's.  The      *)
(* OnStopped event is queued where shutdown calls Terminate.                *)
DriverStep == /\ Next
              /\ \A c \in EventCalls : call[c] = "idle" => call'[c] = "idle"
              /\ events' = IF loop = "terminate" /\ loop' = "flush"
                           THEN Append(events, Stopped) ELSE events
              /\ UNCHANGED <<runner, appExit>>

(* for fn := range l.eventQueue.Out() *)
RunnerTake == /\ runner = "none"
              /\ events # <<>>
              /\ runner' = Head(events)
              /\ events' = Tail(events)
              /\ UNCHANGED <<vars, appExit>>

(* run(fn, true), up to where runOnMainWithWait has tested drained *)
RunnerCall == /\ runner # "none"
              /\ RunDirect(runner) \/ Count(runner)
              /\ UNCHANGED appVars

(* Mutant of RunnerNext: run(fn, false). *)
RunnerHurries == /\ runner # "none"
                 /\ call[runner] # "idle"
                 /\ runner' = "none"
                 /\ UNCHANGED <<vars, events, appExit>>

(* run(fn, true) returns *)
RunnerNext == /\ runner # "none"
              /\ call[runner] = "returned"
              /\ runner' = "none"
              /\ UNCHANGED <<vars, events, appExit>>

(* l.WaitForEvents(): its event is queued, *)
WaitForEvents == /\ loop = "returned" /\ appExit = "running"
                 /\ events' = Append(events, Waiter)
                 /\ appExit' = "waiting"
                 /\ UNCHANGED <<vars, runner>>

(* and Run returns when that event has been run. *)
RunReturn == /\ appExit = "waiting"
             /\ call[Waiter] = "returned"
             /\ appExit' = "returned"
             /\ UNCHANGED <<vars, events, runner>>

AppStep == RunnerTake \/ RunnerCall \/ RunnerNext \/ WaitForEvents \/ RunReturn

AppNext == DriverStep \/ AppStep

AppSpec == AppInit /\ [][AppNext]_<<vars, appVars>>

(* The scheduler's fairness of MainLoop, and the same for the runner; again *)
(* nothing is assumed of idleWait's end.                                    *)
AppFairSpec == /\ AppSpec
               /\ WF_vars(LoopStep /\ DriverStep) /\ WF_vars(ForwardFunc)
               /\ WF_vars(Tick) /\ WF_vars(QuitStep)
               /\ \A c \in Calls : WF_vars(CallStep(c))
               /\ WF_<<vars, appVars>>(AppStep)

-----------------------------------------------------------------------------
(* Run does not return before the OnStopped event is over: the events are   *)
(* handed over one at a time, and the one Run waits for is queued last.     *)
StoppedBeforeExit == appExit = "returned" => call[Stopped] = "returned"

(* The argument for it, as an inductive invariant.  From Terminate on, the  *)
(* OnStopped event is queued, being handed over or over; Run's own event is *)
(* queued once runGL has returned, so behind it; and as the runner hands    *)
(* over one at a time, Run's is not taken up before the other is over.      *)
Ended == {"flush", "flushSignal", "setDrained", "close", "returned"}

AppTypeOK == /\ events \in Seq(EventCalls)
             /\ runner \in EventCalls \cup {"none"}
             /\ appExit \in {"running", "waiting", "returned"}

StoppedOnItsWay == loop \in Ended => \/ Stopped \in Elements(events)
                                     \/ runner = Stopped
                                     \/ call[Stopped] = "returned"

WaiterNotYet == appExit = "running" => /\ Waiter \notin Elements(events)
                                       /\ runner # Waiter
                                       /\ call[Waiter] = "idle"

WaiterIsLast == \A i, j \in 1..Len(events) :
                  events[i] = Stopped /\ events[j] = Waiter => i < j

WaiterFollows == runner = Waiter \/ call[Waiter] # "idle"
                   => call[Stopped] = "returned"

AppInv == /\ AppTypeOK /\ StoppedOnItsWay /\ WaiterNotYet /\ WaiterIsLast
          /\ WaiterFollows /\ StoppedBeforeExit
          /\ appExit # "running" => loop = "returned"
          /\ appExit = "returned" => call[Waiter] = "returned"

(* Every func that is counted is run, unless the program quits: by the wake *)
(* of its own call, never by the end of idleWait, of which AppFairSpec      *)
(* assumes nothing (loop.go 222-236: a lost wake costs the whole idleWait). *)
EveryFuncRuns ==
  \A c \in Calls \ EventCalls :
    (call[c] = "send") ~> (fate[c] = "ran" \/ quit # "none")

(* What is to be drawn gets its frame without idleWait running out: the     *)
(* loop never idles over a pending frame (loop.go 215-221, 307-312).        *)
PendingFrameIsDrawn == pendingFrame ~> (loop = "frame" \/ quit # "none")

(* "Ensure lifecycle events run to completion before the app exits"         *)
(* (driver.go 198): the wait for them ends, and the application exits once  *)
(* its loop has returned.  Two cases are left out, in both of which it      *)
(* hangs: the send of OnStopped met the closed channel and panicked, or its *)
(* func had not been forwarded when shutdown flushed the queue, and nobody  *)
(* will receive it (loop.go 295-303).                                       *)
RunReturns == (loop = "returned")
                ~> \/ appExit = "returned"
                   \/ call[Stopped] = "panicked"
                   \/ loop = "returned" /\ Stopped \in InQueue

(* The forwarding goroutine of the queue ends once shutdown has closed it.  *)
(* Nobody receives any more, so closed() spins for ever if what is left     *)
(* does not fit into ch.out (internal/async/chan.go 82-96).                 *)
ForwarderEnds == (loop = "returned") ~> (fwd = "closed" \/ Len(chout) = OutCap)
===============================================================================
