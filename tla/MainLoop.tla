------------------------------- MODULE MainLoop -------------------------------
(****************************************************************************)
(* The desktop driver's loop (internal/driver/glfw/loop.go) and the calls   *)
(* that hand it work: runOnMainWithWait, which fyne.Do and fyne.DoAndWait   *)
(* reach from any goroutine, and Quit.                                      *)
(*                                                                          *)
(* The loop blocks in the OS event queue, so a call queues its func and     *)
(* then wakes the loop; wakePosted lets one post serve every func queued    *)
(* before the loop parks again.  Functions travel in funcQueue, an          *)
(* UnboundedChan, whose forwarding goroutine may be slower than the wake;   *)
(* pendingFuncs is what tells the loop that one is still on its way.        *)
(*                                                                          *)
(* One element of Calls is one call of runOnMainWithWait together with its  *)
(* func.  A step is one access to the state the goroutines share.           *)
(****************************************************************************)
EXTENDS UnboundedChan, Integers, FiniteSets

CONSTANTS Calls,      \* the calls of runOnMainWithWait
          WaitCalls,  \* those with wait = TRUE (fyne.DoAndWait)
          MainCalls   \* those made on the main goroutine

ASSUME CallsAssumption == /\ Elem = Calls
                          /\ IsFiniteSet(Calls)
                          /\ WaitCalls \subseteq Calls
                          /\ MainCalls \subseteq Calls \ WaitCalls

VARIABLES loop,         \* where the main goroutine is: see LoopStates
          cur,          \* the call whose func the loop took last
          parkFor,      \* what the wait runs out with: "frame" or "idle"
          running, drained, wakePosted, pendingFuncs,  \* loop.go 25-38
          done,         \* d.done is closed
          quit,         \* how far Quit has got
          glfwUp,       \* between glfw.Init and glfw.Terminate
          osEvent,      \* an event, or an empty one, is in the OS queue
          due,          \* time.Until(next) < waitResolution
          pendingFrame, \* what framePending answers
          call,         \* where each call of runOnMainWithWait is
          fate          \* what became of its func

driverVars == <<running, drained, wakePosted, pendingFuncs>>
timeVars == <<parkFor, due, pendingFrame>>
callVars == <<call, fate>>
quitVars == <<done, quit>>
vars == <<chanVars, loop, cur, driverVars, timeVars, quitVars, glfwUp, osEvent,
          callVars>>

LoopStates ==
  {"before", "init", "hooks",     \* Run not called; up to d.init; OnStarted
   "drain", "block", "try", "run", "signal",             \* drainFuncQueue
   "pace", "poll", "frame", "rest",                      \* the pass
   "release", "recheck", "parked", "waking",             \* the wait
   "terminate", "flush", "flushSignal", "setDrained", "close",  \* shutdown
   "returned"}                                           \* runGL returned

(* Where the main goroutine runs code of the application: hooks, queued     *)
(* funcs, GLFW callbacks, animations and layout.                            *)
OnMain == {"before", "hooks", "run", "poll", "frame", "waking", "returned"}

CallStates == {"idle", "send", "load", "claim", "post", "waiting", "returned",
               "panicked"}

(* "ran": by the loop; "direct": by the caller itself; "dropped": taken     *)
(* from the queue by shutdown, which does not call it.                      *)
Fates == {"none", "ran", "direct", "dropped"}

TypeOK == /\ ChanTypeOK
          /\ loop \in LoopStates
          /\ cur \in Calls \cup {"none"}
          /\ parkFor \in {"frame", "idle"}
          /\ running \in BOOLEAN /\ drained \in BOOLEAN
          /\ wakePosted \in BOOLEAN
          /\ pendingFuncs \in Nat
          /\ done \in BOOLEAN
          /\ quit \in {"none", "swapped", "closed", "posted"}
          /\ glfwUp \in BOOLEAN /\ osEvent \in BOOLEAN
          /\ due \in BOOLEAN /\ pendingFrame \in BOOLEAN
          /\ call \in [Calls -> CallStates]
          /\ fate \in [Calls -> Fates]

Init == /\ ChanInit
        /\ loop = "before" /\ cur = "none"
        /\ parkFor = "frame" /\ due = TRUE /\ pendingFrame = FALSE
        /\ running = FALSE /\ drained = FALSE
        /\ wakePosted = FALSE /\ pendingFuncs = 0
        /\ done = FALSE /\ quit = "none"
        /\ glfwUp = FALSE /\ osEvent = FALSE
        /\ call = [c \in Calls |-> "idle"]
        /\ fate = [c \in Calls |-> "none"]

-----------------------------------------------------------------------------
(* runOnMainWithWait(f, wait) *)

(* A call made on the main goroutine holds the loop up until it returns. *)
MainBusy == \/ \E c \in MainCalls : call[c] \in {"send", "load", "claim", "post"}
            \/ quit \in {"swapped", "closed"}

MayCall(c) == c \in MainCalls => loop \in OnMain /\ ~MainBusy

(* Mutant of AfterWake: DoAndWait does not wait for done. *)
ReturnsAtOnce(c) == "returned"

(* Where the call goes once it has woken the loop, or need not. *)
AfterWake(c) == IF c \in WaitCalls THEN "waiting" ELSE "returned"

(* The guard on running and drained is where the func is run at once. *)
RunDirect(c) == /\ call[c] = "idle"
                /\ MayCall(c)
                /\ (~running /\ c \in MainCalls) \/ drained
                /\ call' = [call EXCEPT ![c] = "returned"]
                /\ fate' = [fate EXCEPT ![c] = "direct"]
                /\ UNCHANGED <<chanVars, loop, cur, driverVars, timeVars,
                               quitVars, glfwUp, osEvent>>

(* The test and pendingFuncs.Add(1).  Only the loop reads the count, and it *)
(* no longer does once drained is set, so one step stands for both.         *)
Count(c) == /\ call[c] = "idle"
            /\ MayCall(c)
            /\ ~((~running /\ c \in MainCalls) \/ drained)
            /\ pendingFuncs' = pendingFuncs + 1
            /\ call' = [call EXCEPT ![c] = "send"]
            /\ UNCHANGED <<chanVars, loop, cur, running, drained, wakePosted,
                           timeVars, quitVars, glfwUp, osEvent, fate>>

(* funcQueue.In() <- funcData{...} *)
Enqueue(c) == /\ call[c] = "send"
              /\ ChanSend(c)
              /\ call' = [call EXCEPT ![c] = "load"]
              /\ UNCHANGED <<loop, cur, driverVars, timeVars, quitVars, glfwUp,
                             osEvent, fate>>

(* The same send after funcQueue.Close. *)
SendPanics(c) == /\ call[c] = "send"
                 /\ ~InOpen
                 /\ call' = [call EXCEPT ![c] = "panicked"]
                 /\ UNCHANGED <<chanVars, loop, cur, driverVars, timeVars,
                                quitVars, glfwUp, osEvent, fate>>

(* wakeLoop: running.Load(), the compare-and-swap and the post. *)
LoadRunning(c) == /\ call[c] = "load"
                  /\ call' = [call EXCEPT ![c] = IF running THEN "claim"
                                                 ELSE AfterWake(c)]
                  /\ UNCHANGED <<chanVars, loop, cur, driverVars, timeVars,
                                 quitVars, glfwUp, osEvent, fate>>

ClaimWake(c) == /\ call[c] = "claim"
                /\ wakePosted' = TRUE
                /\ call' = [call EXCEPT ![c] = IF wakePosted THEN AfterWake(c)
                                               ELSE "post"]
                /\ UNCHANGED <<chanVars, loop, cur, running, drained,
                               pendingFuncs, timeVars, quitVars, glfwUp,
                               osEvent, fate>>

(* postEmptyEvent, which reaches no queue unless GLFW is initialised. *)
Post(c) == /\ call[c] = "post"
           /\ osEvent' = (osEvent \/ glfwUp)
           /\ call' = [call EXCEPT ![c] = AfterWake(c)]
           /\ UNCHANGED <<chanVars, loop, cur, driverVars, timeVars, quitVars,
                          glfwUp, fate>>

CallStep(c) == \/ Enqueue(c) \/ SendPanics(c)
               \/ LoadRunning(c) \/ ClaimWake(c) \/ Post(c)

-----------------------------------------------------------------------------
(* Quit, which runs on the main goroutine: catchTerm, the menus and the     *)
(* last window's destroyWindow all reach it there.                          *)
callFrame == <<chanVars, loop, cur, timeVars, glfwUp, callVars>>

QuitSwap == /\ running
            /\ loop \in OnMain /\ ~MainBusy
            /\ running' = FALSE
            /\ quit' = "swapped"
            /\ UNCHANGED <<callFrame, drained, wakePosted, pendingFuncs, done,
                           osEvent>>

QuitClose == /\ quit = "swapped"
             /\ quit' = "closed"
             /\ done' = TRUE
             /\ UNCHANGED <<callFrame, driverVars, osEvent>>

QuitPost == /\ quit = "closed"
            /\ quit' = "posted"
            /\ osEvent' = (osEvent \/ glfwUp)
            /\ UNCHANGED <<callFrame, driverVars, done>>

QuitStep == QuitClose \/ QuitPost

-----------------------------------------------------------------------------
(* runGL *)
loopFrame == <<quitVars, callVars>>

(* The running.CompareAndSwap that lets runGL in once. *)
Start == /\ loop = "before" /\ ~MainBusy
         /\ running' = TRUE
         /\ loop' = "init"
         /\ UNCHANGED <<chanVars, cur, drained, wakePosted, pendingFuncs,
                        timeVars, glfwUp, osEvent, loopFrame>>

(* d.init from createWindow, before Run. *)
CreateWindow == /\ loop = "before" /\ ~glfwUp
                /\ glfwUp' = TRUE
                /\ UNCHANGED <<chanVars, loop, cur, driverVars, timeVars,
                               osEvent, loopFrame>>

(* d.init *)
InitDriver == /\ loop = "init"
              /\ glfwUp' = TRUE
              /\ loop' = "hooks"
              /\ UNCHANGED <<chanVars, cur, driverVars, timeVars, osEvent,
                             loopFrame>>

(* The tray and OnStarted *)
StartHooks == /\ loop = "hooks" /\ ~MainBusy
              /\ loop' = "drain"
              /\ UNCHANGED <<chanVars, cur, driverVars, timeVars, glfwUp,
                             osEvent, loopFrame>>

(* drainFuncQueue: pendingFuncs.Load picks the blocking or the polling      *)
(* select.                                                                  *)
DrainCheck == /\ loop = "drain"
              /\ loop' = IF pendingFuncs > 0 THEN "block" ELSE "try"
              /\ UNCHANGED <<chanVars, cur, driverVars, timeVars, glfwUp,
                             osEvent, loopFrame>>

(* Mutant of TakeFunc: pendingFuncs.Add(-1) left out. *)
TakeUncounted == /\ loop \in {"block", "try"}
                 /\ ChanRecv
                 /\ cur' = Head(chout)
                 /\ loop' = "run"
                 /\ UNCHANGED <<driverVars, timeVars, glfwUp, osEvent, loopFrame>>

(* case f = <-funcQueue.Out(), and pendingFuncs.Add(-1) *)
TakeFunc == /\ loop \in {"block", "try"}
            /\ ChanRecv
            /\ cur' = Head(chout)
            /\ pendingFuncs' = pendingFuncs - 1
            /\ loop' = "run"
            /\ UNCHANGED <<running, drained, wakePosted, timeVars, glfwUp,
                           osEvent, loopFrame>>

(* case <-d.done: d.shutdown(), which calls Terminate first.  With a func   *)
(* at hand as well, Go's select picks either.                               *)
TakeDone == /\ loop \in {"block", "try"}
            /\ done
            /\ loop' = "terminate"
            /\ UNCHANGED <<chanVars, cur, driverVars, timeVars, glfwUp, osEvent,
                           loopFrame>>

(* default *)
NothingQueued == /\ loop = "try"
                 /\ chout = <<>> /\ ~done
                 /\ loop' = "pace"
                 /\ UNCHANGED <<chanVars, cur, driverVars, timeVars, glfwUp,
                                osEvent, loopFrame>>

(* f.f(), which may leave something to draw *)
RunFunc == /\ loop = "run" /\ ~MainBusy
           /\ fate' = [fate EXCEPT ![cur] = "ran"]
           /\ pendingFrame' \in {pendingFrame, TRUE}
           /\ loop' = IF cur \in WaitCalls THEN "signal" ELSE "drain"
           /\ UNCHANGED <<chanVars, cur, driverVars, parkFor, due, quitVars,
                          glfwUp, osEvent, call>>

(* f.done <- struct{}{}: unbuffered, so it meets the caller's <-done. *)
Signal == /\ loop = "signal"
          /\ call[cur] = "waiting"
          /\ call' = [call EXCEPT ![cur] = "returned"]
          /\ loop' = "drain"
          /\ UNCHANGED <<chanVars, cur, driverVars, timeVars, quitVars, glfwUp,
                         osEvent, fate>>

(* if time.Until(next) < waitResolution *)
Pace == /\ loop = "pace"
        /\ loop' = IF due THEN "poll" ELSE "rest"
        /\ UNCHANGED <<chanVars, cur, driverVars, timeVars, glfwUp, osEvent,
                       loopFrame>>

(* pollEvents empties the OS queue, of what its callbacks post too: on      *)
(* Windows the posts of this very call are taken with the rest.             *)
PollEvents == /\ loop = "poll" /\ ~MainBusy
              /\ osEvent' = FALSE
              /\ pendingFrame' \in {pendingFrame, TRUE}
              /\ loop' = "frame"
              /\ UNCHANGED <<chanVars, cur, driverVars, parkFor, due, glfwUp,
                             loopFrame>>

(* The windows, TickAnimations and drawSingleFrame, and the next deadline.  *)
(* What is left to draw is any outcome: an animation goes on, a present     *)
(* gate was not ready, or everything was drawn.                             *)
DrawFrame == /\ loop = "frame" /\ ~MainBusy
             /\ pendingFrame' \in BOOLEAN
             /\ due' = FALSE
             /\ loop' = "rest"
             /\ UNCHANGED <<chanVars, cur, driverVars, parkFor, glfwUp, osEvent,
                            loopFrame>>

restFrame == <<chanVars, cur, driverVars, pendingFrame, glfwUp, osEvent,
               loopFrame>>

(* Mutant of RestIdle: framePending is not asked. *)
RestUnasked == /\ loop = "rest"
               /\ parkFor' = "idle" /\ due' = TRUE
               /\ loop' = "release"
               /\ UNCHANGED restFrame

(* idleWait > wait && !d.framePending(): next = time.Now() *)
RestIdle == /\ loop = "rest"
            /\ ~pendingFrame
            /\ parkFor' = "idle" /\ due' = TRUE
            /\ loop' = "release"
            /\ UNCHANGED restFrame

(* Otherwise a wait for the frame's deadline, which a frame rate under ten  *)
(* a second puts beyond idleWait; due is a wait under waitResolution.       *)
RestFrame == /\ loop = "rest"
             /\ pendingFrame \/ ~due
             /\ parkFor' = "frame"
             /\ loop' = "release"
             /\ UNCHANGED <<restFrame, due>>

(* wait <= 0 *)
RestNot == /\ loop = "rest"
           /\ pendingFrame /\ due
           /\ loop' = "drain"
           /\ UNCHANGED <<restFrame, parkFor, due>>

(* Mutant of ReleaseClaim: wakePosted is left true. *)
ReleaseKeepsWake == /\ loop = "release"
                    /\ loop' = "recheck"
                    /\ UNCHANGED <<chanVars, cur, driverVars, timeVars, glfwUp,
                                   osEvent, loopFrame>>

(* wakePosted.Store(false) *)
ReleaseClaim == /\ loop = "release"
                /\ wakePosted' = FALSE
                /\ loop' = "recheck"
                /\ UNCHANGED <<chanVars, cur, running, drained, pendingFuncs,
                               timeVars, glfwUp, osEvent, loopFrame>>

(* Mutant of Recheck: the wait follows the release at once. *)
RecheckSkipped == /\ loop = "recheck"
                  /\ loop' = "parked"
                  /\ UNCHANGED <<chanVars, cur, driverVars, timeVars, glfwUp,
                                 osEvent, loopFrame>>

(* if pendingFuncs.Load() > 0 { continue }, else waitEvents *)
Recheck == /\ loop = "recheck"
           /\ loop' = IF pendingFuncs > 0 THEN "drain" ELSE "parked"
           /\ UNCHANGED <<chanVars, cur, driverVars, timeVars, glfwUp, osEvent,
                          loopFrame>>

(* waitEvents returns: for an event, or because its time ran out. *)
WakeUp == /\ loop = "parked"
          /\ osEvent
          /\ loop' = "waking"
          /\ osEvent' = FALSE
          /\ UNCHANGED <<chanVars, cur, driverVars, timeVars, glfwUp, loopFrame>>

FrameTimeout == /\ loop = "parked"
                /\ parkFor = "frame" /\ due
                /\ loop' = "waking"
                /\ UNCHANGED <<chanVars, cur, driverVars, timeVars, glfwUp,
                               osEvent, loopFrame>>

IdleTimeout == /\ loop = "parked"
               /\ parkFor = "idle"
               /\ loop' = "waking"
               /\ UNCHANGED <<chanVars, cur, driverVars, timeVars, glfwUp,
                              osEvent, loopFrame>>

(* The callbacks GLFW runs from the wait, and the queue emptied of what     *)
(* they posted, or not, as the platform does it.                            *)
RunCallbacks == /\ loop = "waking" /\ ~MainBusy
                /\ osEvent' \in {osEvent, FALSE}
                /\ pendingFrame' \in {pendingFrame, TRUE}
                /\ loop' = "drain"
                /\ UNCHANGED <<chanVars, cur, driverVars, parkFor, due, glfwUp,
                               loopFrame>>

-----------------------------------------------------------------------------
(* shutdown *)
Terminate == /\ loop = "terminate"
             /\ glfwUp' = FALSE
             /\ loop' = "flush"
             /\ UNCHANGED <<chanVars, cur, driverVars, timeVars, osEvent,
                            loopFrame>>

(* for len(funcQueue.Out()) > 0: the func is taken and its caller signalled *)
(* but it is not called, and pendingFuncs keeps counting it.                *)
FlushTake == /\ loop = "flush"
             /\ ChanRecv
             /\ cur' = Head(chout)
             /\ fate' = [fate EXCEPT ![Head(chout)] = "dropped"]
             /\ loop' = IF Head(chout) \in WaitCalls THEN "flushSignal"
                        ELSE "flush"
             /\ UNCHANGED <<driverVars, timeVars, quitVars, glfwUp, osEvent,
                            call>>

(* Mutant of FlushSignal: what shutdown drops is not answered. *)
FlushSilent == /\ loop = "flushSignal"
               /\ loop' = "flush"
               /\ UNCHANGED <<chanVars, cur, driverVars, timeVars, quitVars,
                              glfwUp, osEvent, callVars>>

FlushSignal == /\ loop = "flushSignal"
               /\ call[cur] = "waiting"
               /\ call' = [call EXCEPT ![cur] = "returned"]
               /\ loop' = "flush"
               /\ UNCHANGED <<chanVars, cur, driverVars, timeVars, quitVars,
                              glfwUp, osEvent, fate>>

FlushEnd == /\ loop = "flush"
            /\ chout = <<>>
            /\ loop' = "setDrained"
            /\ UNCHANGED <<chanVars, cur, driverVars, timeVars, glfwUp, osEvent,
                           loopFrame>>

SetDrained == /\ loop = "setDrained"
              /\ drained' = TRUE
              /\ loop' = "close"
              /\ UNCHANGED <<chanVars, cur, running, wakePosted, pendingFuncs,
                             timeVars, glfwUp, osEvent, loopFrame>>

(* funcQueue.Close(), and runGL returns *)
CloseQueue == /\ loop = "close"
              /\ ChanClose
              /\ loop' = "returned"
              /\ UNCHANGED <<cur, driverVars, timeVars, glfwUp, osEvent,
                             loopFrame>>

-----------------------------------------------------------------------------
(* The environment: window events, and the clock reaching the deadline. *)
Input == /\ glfwUp /\ ~osEvent
         /\ osEvent' = TRUE
         /\ UNCHANGED <<chanVars, loop, cur, driverVars, timeVars, glfwUp,
                        loopFrame>>

Tick == /\ ~due
        /\ due' = TRUE
        /\ UNCHANGED <<chanVars, loop, cur, driverVars, parkFor, pendingFrame,
                       glfwUp, osEvent, loopFrame>>

ForwardFunc == /\ Forward
               /\ UNCHANGED <<loop, cur, driverVars, timeVars, quitVars, glfwUp,
                              osEvent, callVars>>

Drain == DrainCheck \/ TakeFunc \/ TakeDone \/ NothingQueued \/ RunFunc \/ Signal
Pass == Pace \/ PollEvents \/ DrawFrame \/ RestIdle \/ RestFrame \/ RestNot
Park == ReleaseClaim \/ Recheck \/ WakeUp \/ FrameTimeout \/ RunCallbacks
Shutdown == \/ Terminate \/ FlushTake \/ FlushSignal \/ FlushEnd
            \/ SetDrained \/ CloseQueue

(* Everything the main goroutine does unprompted, but for idleWait's end. *)
LoopStep == Start \/ InitDriver \/ StartHooks \/ Drain \/ Pass \/ Park \/ Shutdown

Next == \/ LoopStep \/ IdleTimeout \/ CreateWindow
        \/ QuitSwap \/ QuitStep
        \/ \E c \in Calls : RunDirect(c) \/ Count(c) \/ CallStep(c)
        \/ ForwardFunc \/ Input \/ Tick

Spec == Init /\ [][Next]_vars

(* The Go scheduler runs every goroutine that can run, and time passes.     *)
(* Nothing is assumed of idleWait's end, nor that anybody calls or quits.   *)
Fairness == /\ WF_vars(LoopStep) /\ WF_vars(ForwardFunc) /\ WF_vars(Tick)
            /\ WF_vars(QuitStep)
            /\ \A c \in Calls : WF_vars(CallStep(c))

FairSpec == Spec /\ Fairness

-----------------------------------------------------------------------------
(* The calls whose func is queued or about to be, but not with the loop. *)
Elements(s) == {s[i] : i \in 1..Len(s)}
InQueue == Elements(Contents)
Unrun == {c \in Calls : call[c] = "send"} \cup InQueue

(* pendingFuncs counts exactly the funcs the loop has yet to take, until    *)
(* shutdown begins.  The blocking select of drainFuncQueue relies on it:    *)
(* one too many and the loop blocks on a channel nobody will write to, one  *)
(* too few and it parks over a func (loop.go 259-276).                      *)
CountIsExact ==
  loop \notin {"flush", "flushSignal", "setDrained", "close", "returned"}
    => pendingFuncs = Cardinality(Unrun)

(* No lost wake-up: while the loop waits on the OS queue, a func whose      *)
(* caller has finished wakeLoop is never left lying with nothing on its way *)
(* to end the wait.  Either an event is in the queue, or some caller holds  *)
(* the claim and is about to post one, or Quit is (loop.go 222-245).        *)
WakeOnItsWay == \/ osEvent
                \/ \E c \in Calls : call[c] = "post"
                \/ quit # "none"

NoLostWake ==
  loop = "parked" =>
    \A c \in InQueue : call[c] \in {"waiting", "returned"} => WakeOnItsWay

(* A func is run at most once and in the place it belongs: the caller runs  *)
(* it only where the loop cannot, and DoAndWait returns before Quit only    *)
(* once the loop has run its func (loop.go 52-75).                          *)
WaitedIsRun ==
  \A c \in WaitCalls : call[c] = "returned" /\ quit = "none" => fate[c] = "ran"

-----------------------------------------------------------------------------
(* The inductive invariant behind the three above. *)

Distinct(s) == \A i, j \in 1..Len(s) : s[i] = s[j] => i = j

(* A func is in the queue at most once, and only after its call sent it. *)
QueuedOnce == /\ Distinct(Contents)
              /\ \A c \in InQueue : call[c] \in {"load", "claim", "post",
                                                 "waiting", "returned"}

ShutdownStates == {"terminate", "flush", "flushSignal", "setDrained", "close",
                   "returned"}

(* What the loop's place says of the flags. *)
Phases == /\ fwd # "open" => loop = "returned"
          /\ drained => loop \in {"close", "returned"}
          /\ loop \in ShutdownStates => done
          /\ done => quit # "none"
          /\ loop # "before" => running \/ quit # "none"
          /\ loop \notin {"before", "init"} \cup ShutdownStates => glfwUp
          /\ loop \in {"run", "signal", "flushSignal"} => cur \in Calls
          /\ loop = "signal" => fate[cur] = "ran"

(* From the release on, a claim that stands means that a wake will come: it *)
(* is what a call that finds the claim taken relies on.                     *)
ClaimMeansWake ==
  loop \in {"recheck", "parked"} /\ wakePosted => WakeOnItsWay

IInv == /\ TypeOK /\ QueuedOnce /\ Phases /\ ClaimMeansWake
        /\ CountIsExact /\ NoLostWake /\ WaitedIsRun
=============================================================================
