---------------------------- MODULE AnimationRunner ----------------------------
(****************************************************************************)
(* internal/animation/runner.go: the animations the driver loop ticks once  *)
(* a frame.  Start and Stop run under the runner's mutex, on the main       *)
(* goroutine (from a tick's callback too) or on any other; TickAnimations   *)
(* runs on the main goroutine and holds the mutex only around its two ends. *)
(*                                                                          *)
(* An element of Items is one registration of an animation, the code's      *)
(* *anim; Start makes a new one.  What a tick computes is left out: a tick  *)
(* ends its item or not.                                                    *)
(****************************************************************************)
EXTENDS Naturals, Sequences, FiniteSets

CONSTANTS Animations,  \* the *fyne.Animation values
          MaxStarts    \* bound: how often Start is called

ASSUME RunnerAssumption == MaxStarts \in Nat

VARIABLES animations,    \* r.animations
          pending,       \* r.pendingAnimations
          nextFrame,     \* r.nextFrameAnimations
          toTick,        \* what is left of oldList in runOneFrame
          runnerStarted,
          tick,          \* where TickAnimations is
          of,            \* the animation of each item, in the order of Start
          stopped,       \* the items with the stopped flag
          ticked,        \* the items that have been ticked
          over,          \* the items whose last tick said they had ended
          unseen,        \* flags set in this frame by another goroutine
          stopAsked,     \* the items whose animation was stopped after Start
          missed,        \* those a Stop left in pendingAnimations
          late           \* the items started between runOneFrame and the reset

lists == <<animations, pending, nextFrame, toTick>>
animVars == <<lists, runnerStarted, tick, of, stopped, ticked, over, unseen,
              stopAsked, missed, late>>
asked == <<stopAsked, missed, late>>

Items == 1..MaxStarts
Started == DOMAIN of
Live == Started \ (stopped \cup over)
ElementsOf(s) == {s[i] : i \in 1..Len(s)}

AnimInit == /\ animations = <<>> /\ pending = <<>>
            /\ nextFrame = <<>> /\ toTick = <<>>
            /\ runnerStarted = FALSE /\ tick = "idle"
            /\ of = <<>>
            /\ stopped = {} /\ ticked = {} /\ over = {}
            /\ unseen = {} /\ stopAsked = {} /\ missed = {} /\ late = {}

(* On the main goroutine, in a tick's callback or between frames, or on any *)
(* other at any time; for an animation that is listed already, too.         *)
Start(a) == /\ Len(of) < MaxStarts
            /\ of' = Append(of, a)
            /\ runnerStarted' = TRUE
            /\ IF runnerStarted
               THEN /\ pending' = Append(pending, Len(of) + 1)
                    /\ UNCHANGED animations
               ELSE /\ animations' = Append(animations, Len(of) + 1)
                    /\ UNCHANGED pending
            /\ late' = IF tick = "reset" THEN late \cup {Len(of) + 1} ELSE late
            /\ UNCHANGED <<nextFrame, toTick, tick, stopped, ticked, over,
                           unseen, stopAsked, missed>>

(* The places of what Stop keeps of a list, and the new list it makes. *)
InOrder(places) == CHOOSE f \in [1..Cardinality(places) -> places] :
                     \A j, k \in 1..Cardinality(places) : j < k => f[j] < f[k]
Without(s, a) == LET kept == InOrder({n \in 1..Len(s) : of[s[n]] # a})
                 IN  [k \in DOMAIN kept |-> s[kept[k]]]
ItemsOf(s, a) == {i \in ElementsOf(s) : of[i] = a}

(* Mutant of Stop: the lists are pruned but the flag is not set. *)
StopPrunesOnly(a) ==
  /\ animations' = Without(animations, a)
  /\ pending' = Without(pending, a)
  /\ stopAsked' = stopAsked \cup {i \in Started : of[i] = a}
  /\ UNCHANGED <<nextFrame, toTick, runnerStarted, tick, of, stopped, ticked,
                 over, unseen, missed, late>>

(* pendingAnimations is looked at only if animations had none.  The flag is *)
(* read without the mutex: set by another goroutine while a frame runs, it  *)
(* may or may not be seen before the frame's end takes the mutex.           *)
Stop(a) == /\ animations' = Without(animations, a)
           /\ IF ItemsOf(animations, a) # {}
              THEN /\ stopped' = stopped \cup ItemsOf(animations, a)
                   /\ missed' = missed \cup ItemsOf(pending, a)
                   /\ UNCHANGED pending
              ELSE /\ stopped' = stopped \cup ItemsOf(pending, a)
                   /\ pending' = Without(pending, a)
                   /\ UNCHANGED missed
           /\ IF tick = "ticking"
              THEN unseen' \in {unseen, unseen \cup (stopped' \ stopped)}
              ELSE UNCHANGED unseen
           /\ stopAsked' = stopAsked \cup {i \in Started : of[i] = a}
           /\ UNCHANGED <<nextFrame, toTick, runnerStarted, tick, of, ticked,
                          over, late>>

(* TickAnimations, up to the end of runOneFrame's first critical section.   *)
(* runnerStarted is read without the mutex; only this goroutine clears it.  *)
BeginFrame == /\ tick = "idle"
              /\ runnerStarted
              /\ toTick' = animations
              /\ tick' = "ticking"
              /\ UNCHANGED <<animations, pending, nextFrame, runnerStarted, of,
                             stopped, ticked, over, unseen, asked>>

(* One turn of the loop over oldList. *)
SkipStopped == /\ tick = "ticking" /\ toTick # <<>>
               /\ Head(toTick) \in stopped
               /\ toTick' = Tail(toTick)
               /\ UNCHANGED <<animations, pending, nextFrame, runnerStarted,
                              tick, of, stopped, ticked, over, unseen,
                              asked>>

TickOne(i) == /\ tick = "ticking" /\ toTick # <<>>
              /\ i = Head(toTick) /\ i \notin stopped \ unseen
              /\ ticked' = ticked \cup {i}
              /\ toTick' = Tail(toTick)
              /\ \/ nextFrame' = Append(nextFrame, i) /\ UNCHANGED over
                 \/ over' = over \cup {i} /\ UNCHANGED nextFrame
              /\ UNCHANGED <<animations, pending, runnerStarted, tick, of,
                             stopped, unseen, asked>>

(* Mutant of EndFrame: what was started meanwhile is cleared, not kept. *)
EndFrameDropsPending ==
  /\ tick = "ticking" /\ toTick = <<>>
  /\ animations' = nextFrame
  /\ nextFrame' = <<>> /\ pending' = <<>>
  /\ tick' = IF animations' = <<>> THEN "reset" ELSE "idle"
  /\ unseen' = {}
  /\ UNCHANGED <<toTick, runnerStarted, of, stopped, ticked, over, asked>>

(* Mutant of EndFrame: nextFrameAnimations is not emptied. *)
EndFrameKeepsNext ==
  /\ tick = "ticking" /\ toTick = <<>>
  /\ animations' = nextFrame \o pending
  /\ pending' = <<>>
  /\ tick' = IF animations' = <<>> THEN "reset" ELSE "idle"
  /\ unseen' = {}
  /\ UNCHANGED <<nextFrame, toTick, runnerStarted, of, stopped, ticked, over,
                 asked>>

(* runOneFrame's second critical section. *)
EndFrame == /\ tick = "ticking" /\ toTick = <<>>
            /\ animations' = nextFrame \o pending
            /\ nextFrame' = <<>> /\ pending' = <<>>
            /\ tick' = IF animations' = <<>> THEN "reset" ELSE "idle"
            /\ unseen' = {}
            /\ UNCHANGED <<toTick, runnerStarted, of, stopped, ticked, over,
                           asked>>

(* if done: the mutex is taken again. *)
StopRunner == /\ tick = "reset"
              /\ runnerStarted' = FALSE
              /\ tick' = "idle"
              /\ UNCHANGED <<lists, of, stopped, ticked, over, unseen, asked>>

Frame == \/ BeginFrame \/ SkipStopped \/ (\E i \in Items : TickOne(i))
         \/ EndFrame \/ StopRunner

AnimNext == \/ \E a \in Animations : Start(a) \/ Stop(a)
            \/ Frame

HasAnimations == runnerStarted \/ pending # <<>>

(* The driver loop comes back to TickAnimations every frame as long as      *)
(* HasAnimations says that something is left, which framePending asks.      *)
AnimSpec == AnimInit /\ [][AnimNext]_animVars /\ WF_animVars(HasAnimations /\ Frame)

-----------------------------------------------------------------------------
(* An animation that goes on is held in exactly one place and once, through *)
(* every exchange of the four lists: none is forgotten and none is ticked   *)
(* twice in a frame (runner.go 115-141).                                    *)
HeldOnce ==
  LET places == <<pending, nextFrame,
                  IF tick = "ticking" THEN toTick ELSE animations>>
  IN  \A i \in Live :
        \E l \in 1..3 : \E n \in DOMAIN places[l] :
          \A k \in 1..3 : \A m \in DOMAIN places[k] :
            places[k][m] = i <=> k = l /\ m = n

(* "Stop causes an animation to stop ticking (if it was still running) and  *)
(* removes it from the runner" (runner.go 56): from a callback of the very  *)
(* frame too, an item is never ticked after its animation was stopped.  Of  *)
(* an animation that was started again while it was still listed, Stop may  *)
(* miss the second item; and a flag that another goroutine sets while a     *)
(* frame runs may be unseen until its end.                                  *)
StopStops ==
  [][\A i \in stopAsked \ (missed \cup unseen) : ~TickOne(i)]_animVars

(* Every animation that is started gets ticked, unless it is stopped; it    *)
(* may wait for another to be started if it is late.                        *)
StartedIsTicked ==
  \A i \in Items : (i \in Started) ~> (i \in ticked \cup stopped \cup late)
===============================================================================
