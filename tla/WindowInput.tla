------------------------------ MODULE WindowInput ------------------------------
(****************************************************************************)
(* What a window does with the events of its mouse, its focus and the Tab   *)
(* key (internal/driver/glfw/window.go), on the canvas of CanvasFocus.      *)
(*                                                                          *)
(* Events are handled whole on the main goroutine.  A click on something    *)
(* that can be double-tapped starts a goroutine, waitForDoubleTap, which    *)
(* waits for the double-tap delay or for the next click, and whose two      *)
(* funcs come to the main goroutine between any two events, and in any      *)
(* order with those of another such goroutine.                              *)
(*                                                                          *)
(* A position is a place, and Trail gives what lies under it.  The widgets' *)
(* own callbacks are the application's steps, but for those that the        *)
(* handlers look at the outcome of: Grabs and Backdrop.                     *)
(****************************************************************************)
EXTENDS CanvasFocus, Integers

CONSTANTS
  Places,
  Zero,       \* the place of the position (0, 0), where a lost pointer is
  Trail,      \* Trail[r][p]: what of a content or pop-up is under p, inwards
  Tappable, SecondaryTappable, DoubleTappable, Draggable, Hoverable, Mouseable,
  Grabs,      \* objects that ask for the focus on MouseDown, as Entry does
  Backdrop,   \* Backdrop[p]: the OverlayContainer of a pop-up
  Hideable,   \* objects that the application hides and shows
  MaxCost     \* a bound: a press costs 2, a step of the application, of the
              \* window's focus or of Tab costs 1

ASSUME InputAssumption ==
    /\ Zero \in Places
    /\ Trail \in [Contents \cup PopUps -> [Places -> Seq(Objects)]]
    /\ UNION {Tappable, SecondaryTappable, DoubleTappable, Draggable, Hoverable,
              Mouseable, Grabs, Hideable} \subseteq Objects
    /\ Backdrop \in [PopUps -> Objects]
    /\ MaxCost \in Nat /\ MaxCost >= 2

VARIABLES
  canvas,      \* the record of CanvasFocus
  active,      \* the window has the focus
  leftWith,    \* ghost: which root was in charge when it lost it
  strayed,     \* ghost: roots that were left so and not come back to
  mousePos,    \* of the last move that was processed: a click that GLFW
               \* reports together with a move comes first, and lands there
  mouseButton, \* the buttons held down
  mouseOver, mouseDragged, mouseDragStarted, mousePressed,
  mouseClickCount, mouseLastClick, mouseCancelFunc,
  waiters,     \* the goroutines of waitForDoubleTap: where each is, and its object
  cost,        \* what MaxCost bounds
  hovered,     \* ghost: who heard MouseIn and not MouseOut
  dragging,    \* ghost: who heard Dragged and not DragEnd
  answer       \* ghost: the last press on what can be tapped, and whether it
               \* was answered: by nobody, TappedSecondary, Tapped or again

focusVars == <<active, leftWith, strayed>>
mouseVars == <<mousePos, mouseButton, mouseOver, mouseDragged, mouseDragStarted>>
tapVars == <<mousePressed, mouseClickCount, mouseLastClick, mouseCancelFunc, waiters>>
ghosts == <<hovered, dragging, answer>>
vars == <<canvas, focusVars, mouseVars, tapVars, cost, ghosts>>

Waiters == 1..(MaxCost \div 2)
Gone == [at |-> "gone", co |-> None]

Init == /\ canvas = NewCanvas
        /\ active \in BOOLEAN  \* TRUE: the window was just shown
        /\ leftWith = None /\ strayed = {}
        /\ mousePos = Zero /\ mouseButton = {}
        /\ mouseOver = None /\ mouseDragged = None /\ mouseDragStarted = FALSE
        /\ mousePressed = None
        /\ mouseClickCount = 0 /\ mouseLastClick = None /\ mouseCancelFunc = None
        /\ waiters = [w \in Waiters |-> Gone]
        /\ cost = 0
        /\ hovered = {} /\ dragging = {}
        /\ answer = [of |-> None, by |-> "none"]

(* findObjectAtPositionMatching: the innermost of the kind, in the top-most *)
(* overlay or, without one, in the content.                                 *)
Find(c, place, kind) ==
    LET root == IF c.overlays = <<>> THEN c.content ELSE c.overlays[Len(c.overlays)]
        trail == Trail[root][place]
        is == {i \in DOMAIN trail : trail[i] \in kind /\ Visible(c, trail[i])}
    IN  IF is = {} THEN None ELSE trail[CHOOSE i \in is : \A j \in is : j <= i]

-----------------------------------------------------------------------------
(* processMouseMoved *)

(* The button that is held may begin to drag what was under the pointer;    *)
(* far says whether the pointer is beyond the threshold.                    *)
Dragged(far) ==
    IF far /\ mouseButton \notin {{}, {"secondary"}} /\ ~mouseDragStarted
       /\ Find(canvas, mousePos, Draggable) # None
    THEN Find(canvas, mousePos, Draggable) ELSE mouseDragged

(* Mutant of Hover: who was under the pointer is told nothing. *)
HoverIn(o) == /\ mouseOver' = o
              /\ hovered' = hovered \cup ({o} \ {None})

(* mouseOut and mouseIn, where the object changes *)
Hover(o) == /\ mouseOver' = o
            /\ hovered' = (hovered \ {mouseOver}) \cup ({o} \ {None})

MouseMoved(place) ==
    \E far \in BOOLEAN :
    LET over == Find(canvas, place, Hoverable)
        drag == Dragged(far)
        IsDragged(o) == o # None /\ o = drag
    IN  /\ mousePos' = place
        /\ mouseDragged' = drag
        /\ Hover(IF over # None /\ ~IsDragged(over) THEN over
                 ELSE IF IsDragged(mouseOver) THEN mouseOver ELSE None)
        /\ mouseDragStarted' = (mouseDragStarted
                                \/ (drag # None /\ mouseButton # {"secondary"}))
        /\ dragging' = IF drag # None /\ mouseButton \notin {{}, {"secondary"}}
                       THEN dragging \cup {drag} ELSE dragging
        /\ UNCHANGED <<canvas, focusVars, mouseButton, tapVars, cost, answer>>

-----------------------------------------------------------------------------
(* processMouseClicked *)

(* Where a click is: a pointer that is lost is asked for. *)
Spot == IF mousePos = Zero THEN Places ELSE {mousePos}

Hit(place) ==
    Find(canvas, place, UNION {Tappable, SecondaryTappable, DoubleTappable, Focusable,
                               Mouseable, IF mouseDragStarted THEN Draggable ELSE {}})

(* A click takes the focus from the object that has it unless the click is  *)
(* on that or on something in a Focusable.                                  *)
ClickFocus(c, place, co) ==
    IF (co \in Focusable /\ co = Focused(c)) \/ Find(c, place, Focusable) # None
    THEN c ELSE Unfocus(c)

(* What follows from a tap: an overlay's container dismisses its pop-up. *)
AfterTap(c, o) ==
    LET is == {p \in PopUps : Backdrop[p] = o}
    IN  IF is = {} THEN c ELSE Hide(c, CHOOSE p \in is : TRUE)

(* A secondary tap that dismissed the overlay on top is passed on. *)
SecondaryTap(c, place, co) ==
    LET after == AfterTap(c, co)
    IN  IF c.overlays # <<>>
           /\ (after.overlays = <<>>
               \/ after.overlays[Len(after.overlays)] # c.overlays[Len(c.overlays)])
        THEN AfterTap(after, Find(after, place, SecondaryTappable)) ELSE after

Press(b) ==
    \E place \in Spot :
    LET co == Hit(place)
        taps == co \in Tappable \cup SecondaryTappable
        told == IF co \in Mouseable \cap Grabs THEN Focus(canvas, co) ELSE canvas
    IN  /\ b \notin mouseButton /\ cost + 2 <= MaxCost
        /\ cost' = cost + 2
        /\ mousePos' = place
        /\ canvas' = ClickFocus(told, place, co)
        /\ mouseButton' = mouseButton \cup {b}
        /\ mousePressed' = IF taps THEN co ELSE mousePressed
        /\ answer' = IF taps THEN [of |-> co, by |-> "none"] ELSE answer
        /\ UNCHANGED <<focusVars, mouseOver, mouseDragged, mouseDragStarted,
                       mouseClickCount, mouseLastClick, mouseCancelFunc, waiters,
                       hovered, dragging>>

(* The release ends a drag, whichever button it is of. *)
EndDrag(co) ==
    /\ mouseDragged' = None
    /\ mouseDragStarted' = (mouseDragStarted /\ mouseDragged = None)
    /\ dragging' = IF mouseDragStarted THEN dragging \ {mouseDragged} ELSE dragging
    /\ IF mouseOver # None /\ mouseOver = mouseDragged /\ co # mouseDragged
       THEN Hover(None) ELSE UNCHANGED <<mouseOver, hovered>>

(* What a callback on o makes of the last press: Tapped answers it for      *)
(* good, TappedSecondary does not, since it leaves mousePressed standing.   *)
Answer(o, by) ==
    answer' = [answer EXCEPT !.by = IF answer.of = o /\ @ \in {"none", "secondary"}
                                    THEN by ELSE "again"]
Tapped(o) == Answer(o, "tap")
TappedSecondary(o) == Answer(o, "secondary")

(* It answers two clicks, wherever the buttons went down.                   *)
DoubleTapped == answer' = [answer EXCEPT !.by = "tap"]

(* Mutant of SingleTap: the press is kept. *)
SingleTapKeeps(co) ==
    /\ IF co \in Tappable /\ co = mousePressed THEN Tapped(co) ELSE UNCHANGED answer
    /\ UNCHANGED <<mousePressed, mouseClickCount, mouseLastClick, waiters>>

SingleTap(co) ==
    /\ IF co \in Tappable /\ co = mousePressed THEN Tapped(co) ELSE UNCHANGED answer
    /\ mousePressed' = None
    /\ UNCHANGED <<mouseClickCount, mouseLastClick, waiters>>

(* A click is counted, and if nobody waits for the next one yet a goroutine *)
(* is started that does.  To call mouseCancelFunc only ends its wait.       *)
CountClick(co) ==
    /\ mouseClickCount' = mouseClickCount + 1
    /\ mouseLastClick' = co
    /\ IF mouseCancelFunc # None THEN UNCHANGED waiters
       ELSE LET w == CHOOSE i \in Waiters : waiters[i] = Gone
            IN  waiters' = [waiters EXCEPT ![w] = [at |-> "start", co |-> co]]
    /\ UNCHANGED <<mousePressed, answer>>

Release(b) ==
    \E place \in Spot :
    LET co == Hit(place)
        focus == ClickFocus(canvas, place, co)
        taps == b = "primary" /\ ~mouseDragStarted
        tapped == taps /\ co \in Tappable \ DoubleTappable /\ co = mousePressed
        second == b = "secondary" /\ co \in SecondaryTappable /\ co = mousePressed
    IN  /\ b \in mouseButton
        /\ mousePos' = place
        /\ mouseButton' = mouseButton \ {b}
        /\ EndDrag(co)
        /\ canvas' = IF second THEN SecondaryTap(focus, place, co)
                     ELSE IF tapped THEN AfterTap(focus, co) ELSE focus
        /\ IF ~taps THEN /\ IF second THEN TappedSecondary(co) ELSE UNCHANGED answer
                         /\ UNCHANGED <<mousePressed, mouseClickCount, mouseLastClick,
                                        waiters>>
           ELSE IF co \in DoubleTappable THEN CountClick(co) ELSE SingleTap(co)
        /\ UNCHANGED <<focusVars, mouseCancelFunc, cost>>

-----------------------------------------------------------------------------
(* waitForDoubleTap, and its funcs on the main goroutine *)

WaiterAt(w, at) == waiters[w].at = at
WaiterGoes(w, at) == waiters' = [waiters EXCEPT ![w].at = at]

SetCancel(w) == /\ WaiterAt(w, "start")
                /\ mouseCancelFunc' = w
                /\ WaiterGoes(w, "wait")
                /\ UNCHANGED <<canvas, focusVars, mouseVars, mousePressed, mouseClickCount,
                               mouseLastClick, cost, ghosts>>

(* The delay is over, or the next click has cancelled it. *)
DelayEnds(w) == /\ WaiterAt(w, "wait")
                /\ WaiterGoes(w, "end")
                /\ UNCHANGED <<canvas, focusVars, mouseVars, mousePressed, mouseClickCount,
                               mouseLastClick, mouseCancelFunc, cost, ghosts>>

(* Mutant of DoubleTapEnded: the cancel function stays. *)
DoubleTapEndedKeeps(w) ==
    LET co == waiters[w].co
    IN  /\ WaiterAt(w, "end")
        /\ waiters' = [waiters EXCEPT ![w] = Gone]
        /\ IF mouseClickCount = 2 /\ mouseLastClick = co THEN DoubleTapped
           ELSE IF co = mousePressed /\ co \in Tappable THEN Tapped(co)
           ELSE UNCHANGED answer
        /\ mouseClickCount' = 0 /\ mousePressed' = None /\ mouseLastClick' = None
        /\ UNCHANGED <<canvas, focusVars, mouseVars, mouseCancelFunc, cost,
                       hovered, dragging>>

(* waitForDoubleTapEnded: two clicks, the last of them here, are a double   *)
(* tap; otherwise what is still pressed is tapped.                          *)
DoubleTapEnded(w) ==
    LET co == waiters[w].co
        double == mouseClickCount = 2 /\ mouseLastClick = co
        tap == ~double /\ co = mousePressed /\ co \in Tappable
    IN  /\ WaiterAt(w, "end")
        /\ waiters' = [waiters EXCEPT ![w] = Gone]
        /\ IF double THEN DoubleTapped
           ELSE IF tap THEN Tapped(co) ELSE UNCHANGED answer
        /\ canvas' = IF tap THEN AfterTap(canvas, co) ELSE canvas
        /\ mouseClickCount' = 0 /\ mousePressed' = None
        /\ mouseCancelFunc' = None /\ mouseLastClick' = None
        /\ UNCHANGED <<focusVars, mouseVars, cost, hovered, dragging>>

-----------------------------------------------------------------------------
(* The focus of the window, the Tab key, and the application *)

MayCall == /\ cost < MaxCost
           /\ cost' = cost + 1
           /\ UNCHANGED <<mouseButton, mouseOver, mouseDragged, mouseDragStarted, tapVars,
                          ghosts>>

(* processFocused *)
WindowGains == /\ MayCall /\ ~active
               /\ active' = TRUE
               /\ canvas' = FocusGained(canvas)
               /\ strayed' = (strayed \cup ({leftWith} \ {None})) \ {Root(canvas)}
               /\ UNCHANGED <<leftWith, mousePos>>

WindowLoses == /\ MayCall /\ active
               /\ active' = FALSE
               /\ canvas' = FocusLost(canvas)
               /\ leftWith' = Root(canvas)
               /\ mousePos' = Zero
               /\ UNCHANGED strayed

(* capturesTab, without and with Shift *)
Tab == /\ MayCall /\ active
       /\ canvas' \in {FocusNext(canvas), FocusPrevious(canvas)}
       /\ UNCHANGED <<focusVars, mousePos>>

Application ==
    /\ MayCall
    /\ \/ \E o \in Focusable : canvas' = Focus(canvas, o)
       \/ canvas' = Unfocus(canvas)
       \/ \E t \in Contents : canvas' = SetContent(canvas, t)
       \/ \E p \in PopUps : canvas' \in {Show(canvas, p), Hide(canvas, p)}
       \/ \E o \in Hideable : canvas' = [canvas EXCEPT !.hidden =
                                            IF o \in @ THEN @ \ {o} ELSE @ \cup {o}]
    /\ UNCHANGED <<focusVars, mousePos>>

-----------------------------------------------------------------------------
Waiter(w) == SetCancel(w) \/ DelayEnds(w) \/ DoubleTapEnded(w)

Next == \/ \E p \in Places \ {Zero} : MouseMoved(p)
        \/ \E b \in {"primary", "secondary"} : Press(b) \/ Release(b)
        \/ \E w \in Waiters : Waiter(w)
        \/ WindowGains \/ WindowLoses \/ Tab \/ Application

Spec == Init /\ [][Next]_vars

-----------------------------------------------------------------------------
(* What is counted or can be cancelled is waited for: a goroutine is yet to *)
(* end that will reset it (window.go 628-643), so no click is  *)
(* ever the second of one that was over long ago.                           *)
ClickIsAwaited ==
    /\ mouseClickCount > 0 => \E w \in Waiters : waiters[w] # Gone
    /\ mouseCancelFunc # None => waiters[mouseCancelFunc].at \in {"wait", "end"}

(* Tapped goes to the object that was pressed last, and answers a press     *)
(* that no Tapped or DoubleTapped has answered, although the click itself   *)
(* and goroutines of earlier clicks may all take it for theirs (window.go   *)
(* 593-612, 628-643).  TappedSecondary is of the object pressed last, too,  *)
(* but leaves the press standing, which another tap may answer (548-550).   *)
TapsAnswerPresses == answer.by # "again"

(* MouseIn and MouseOut come in pairs and for one object at a time, and     *)
(* what was dragged hears DragEnd before the buttons are up, although what  *)
(* is under the pointer changes without an event.                           *)
InPairs == /\ hovered = {mouseOver} \ {None}
           /\ dragging \subseteq {mouseDragged}
           /\ dragging # {} => mouseButton # {}

(* In the window that has the focus, who gets the keys was told so, unless  *)
(* another overlay or the content was in charge when the window lost the    *)
(* focus and not when it came back: the code then tells only the new one.   *)
KeysReachFocused ==
    active /\ Focused(canvas) # None /\ Root(canvas) \notin strayed
        => Focused(canvas) \in canvas.told

(* The caches, the overlays and the managers name the same overlays in the  *)
(* same order, each of a pop-up that takes itself for shown, once.          *)
StackInStep ==
    LET o == canvas.overlays
    IN  /\ canvas.caches = o
        /\ Len(canvas.managers) = Len(o) + 1
        /\ \A i \in DOMAIN o : canvas.managers[i + 1].root = o[i]
        /\ \A i \in DOMAIN o : o[i] \in canvas.open
        /\ \A i, j \in DOMAIN o : o[i] = o[j] => i = j
=============================================================================
