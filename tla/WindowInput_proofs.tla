-------------------------- MODULE WindowInput_proofs --------------------------
(****************************************************************************)
(* That clicks are awaited and presses tapped at most once, that who gets   *)
(* the keys was told so, that overlays and managers stay in step and that   *)
(* hovers and drags come in pairs, for any objects, contents and pop-ups    *)
(* and however often the buttons are pressed.                               *)
(*                                                                          *)
(* KeysReachFocused and StackInStep are about the one record canvas: Sound  *)
(* is their invariant, and one lemma per operator of CanvasFocus says that  *)
(* the operator keeps it, whichever roots are excepted.                     *)
(****************************************************************************)
EXTENDS WindowInput, WellFoundedInduction, SequenceTheorems, TLAPS

CancelIsWaited ==
    mouseCancelFunc # None => waiters[mouseCancelFunc].at \in {"wait", "end"}

CountIsWaited == mouseClickCount > 0 => \E w \in Waiters : waiters[w] # Gone

Awaited ==
    /\ waiters \in [Waiters -> [at : {"gone", "start", "wait", "end"},
                                co : Objects \cup {None}]]
    /\ mouseCancelFunc \in Waiters \cup {None}
    /\ mouseClickCount \in Nat
    /\ CancelIsWaited
    /\ CountIsWaited

(* What is pressed is what was pressed last, and no Tapped has answered it. *)
Answered ==
    /\ answer \in [of : Objects \cup {None}, by : {"none", "secondary", "tap"}]
    /\ mousePressed # None => /\ answer.of = mousePressed
                              /\ answer.by \in {"none", "secondary"}

LEMMA NoneIsNone == None \notin Objects /\ None \notin Waiters /\ Waiters # {}
<1>1. None \notin Objects /\ None \notin Nat
  BY CanvasAssumption
<1>2. Waiters \subseteq Nat /\ 1 \in Waiters
  BY InputAssumption DEF Waiters
<1> QED BY <1>1, <1>2

LEMMA KindsAreObjects ==
  Tappable \subseteq Objects /\ SecondaryTappable \subseteq Objects
  /\ DoubleTappable \subseteq Objects /\ Hideable \subseteq Objects
<1> DEFINE kinds == {Tappable, SecondaryTappable, DoubleTappable, Draggable, Hoverable,
                     Mouseable, Grabs, Hideable}
<1>1. UNION kinds \subseteq Objects
  BY InputAssumption
<1>2. \A k \in kinds : k \subseteq UNION kinds
  OBVIOUS
<1> QED BY <1>1, <1>2

-----------------------------------------------------------------------------
(* The clicks *)

LEMMA InitAwaited == Init => Awaited
BY NoneIsNone DEF Init, Awaited, CancelIsWaited, CountIsWaited, Gone

(* A click that is counted is cancelled for, or starts a goroutine.         *)
LEMMA CountClickAwaited ==
  ASSUME Awaited, NEW co \in DoubleTappable, CountClick(co), UNCHANGED mouseCancelFunc
  PROVE  Awaited'
<1> USE DEF Awaited, CancelIsWaited, CountIsWaited
<1>1. CASE mouseCancelFunc # None
  <2>1. waiters[mouseCancelFunc] # Gone
    BY <1>1 DEF Gone
  <2> QED BY <1>1, <2>1 DEF CountClick
<1>2. CASE mouseCancelFunc = None
  <2> DEFINE w == CHOOSE i \in Waiters : waiters[i] = Gone
             new == [at |-> "start", co |-> co]
  <2>1. /\ waiters' = [waiters EXCEPT ![w] = new]
        /\ mouseClickCount' = mouseClickCount + 1
    BY <1>2 DEF CountClick
  <2>2. co \in Objects /\ new # Gone
    BY KindsAreObjects DEF Gone
  <2>3. waiters' \in [Waiters -> [at : {"gone", "start", "wait", "end"},
                                  co : Objects \cup {None}]]
    BY <2>1, <2>2
  <2>4. CASE \E i \in Waiters : waiters[i] = Gone
    <3>1. w \in Waiters
      BY <2>4
    <3>2. waiters'[w] # Gone
      BY <2>1, <2>2, <3>1
    <3> QED BY <1>2, <2>1, <2>3, <3>1, <3>2
  <2>5. CASE \A i \in Waiters : waiters[i] # Gone
    <3>1. \A i \in Waiters : waiters'[i] # Gone
      BY <2>1, <2>2, <2>5
    <3> QED BY <1>2, <2>1, <2>3, <3>1, NoneIsNone
  <2> QED BY <2>4, <2>5
<1> QED BY <1>1, <1>2

LEMMA WaiterAwaited ==
  ASSUME Awaited, NEW w \in Waiters, Waiter(w)
  PROVE  Awaited'
<1> USE DEF Awaited, CancelIsWaited, CountIsWaited, WaiterAt, WaiterGoes, Gone
<1>1. CASE SetCancel(w)
  BY <1>1, NoneIsNone DEF SetCancel
<1>2. CASE DelayEnds(w)
  BY <1>2, NoneIsNone DEF DelayEnds
<1>3. CASE DoubleTapEnded(w)
  <2>1. /\ waiters' = [waiters EXCEPT ![w] = Gone]
        /\ mouseClickCount' = 0 /\ mouseCancelFunc' = None
    BY <1>3 DEF DoubleTapEnded
  <2> QED BY <2>1
<1> QED BY <1>1, <1>2, <1>3 DEF Waiter

LEMMA NextAwaited == Awaited /\ [Next]_vars => Awaited'
<1> SUFFICES ASSUME Awaited, [Next]_vars PROVE Awaited'
  OBVIOUS
<1> DEFINE Same == UNCHANGED <<waiters, mouseCancelFunc, mouseClickCount>>
<1>0. ASSUME Same PROVE Awaited'
  BY <1>0 DEF Awaited, CancelIsWaited, CountIsWaited
<1>1. CASE \E p \in Places \ {Zero} : MouseMoved(p)
  BY <1>0, <1>1 DEF MouseMoved, tapVars
<1>2. CASE \E b \in {"primary", "secondary"} : Press(b)
  BY <1>0, <1>2 DEF Press
<1>3. CASE \E b \in {"primary", "secondary"} : Release(b)
  <2>1. \E co : UNCHANGED mouseCancelFunc
               /\ (Same \/ (co \in DoubleTappable /\ CountClick(co)) \/ SingleTap(co))
    BY <1>3 DEF Release
  <2>2. PICK co : UNCHANGED mouseCancelFunc
               /\ (Same \/ (co \in DoubleTappable /\ CountClick(co)) \/ SingleTap(co))
    BY <2>1
  <2>3. CASE co \in DoubleTappable /\ CountClick(co)
    BY <2>2, <2>3, CountClickAwaited
  <2>4. CASE SingleTap(co)
    BY <2>2, <2>4, <1>0 DEF SingleTap
  <2> QED BY <1>0, <2>2, <2>3, <2>4
<1>4. CASE \E w \in Waiters : Waiter(w)
  BY <1>4, WaiterAwaited
<1>5. CASE WindowGains \/ WindowLoses \/ Tab \/ Application
  BY <1>0, <1>5 DEF WindowGains, WindowLoses, Tab, Application, MayCall, tapVars
<1>6. CASE UNCHANGED vars
  BY <1>0, <1>6 DEF vars, tapVars
<1> QED BY <1>1, <1>2, <1>3, <1>4, <1>5, <1>6 DEF Next

(* No click is counted and no cancel function kept but while a goroutine of *)
(* waitForDoubleTap is yet to reset them (window.go 628-643).               *)
THEOREM ClicksAreAwaited == Spec => []ClickIsAwaited
<1>1. Awaited => ClickIsAwaited
  BY DEF Awaited, CancelIsWaited, CountIsWaited, ClickIsAwaited
<1> QED BY <1>1, InitAwaited, NextAwaited, PTL DEF Spec

-----------------------------------------------------------------------------
(* The taps *)

LEMMA InitAnswered == Init => Answered
BY DEF Init, Answered

LEMMA PressAnswered ==
  ASSUME Answered, NEW co \in Objects,
         mousePressed' = co, answer' = [of |-> co, by |-> "none"]
  PROVE  Answered'
BY DEF Answered

(* A callback on what is pressed answers a press that is not yet tapped.    *)
LEMMA AnswerOfPressed ==
  ASSUME Answered, mousePressed # None,
         NEW by \in {"secondary", "tap"}, Answer(mousePressed, by)
  PROVE  /\ answer' \in [of : Objects \cup {None}, by : {"none", "secondary", "tap"}]
         /\ answer'.of = mousePressed /\ answer'.by = by
BY DEF Answered, Answer

(* A tap of what is pressed, or none, after which nothing is pressed.       *)
LEMMA TapAnswered ==
  ASSUME Answered, NEW co,
         \/ co \in Tappable /\ co = mousePressed /\ Tapped(co)
         \/ DoubleTapped
         \/ UNCHANGED answer,
         mousePressed' = None
  PROVE  Answered'
<1>1. CASE co \in Tappable /\ co = mousePressed /\ Tapped(co)
  <2>1. mousePressed # None
    BY <1>1, KindsAreObjects, NoneIsNone
  <2> QED BY <1>1, <2>1, AnswerOfPressed DEF Tapped, Answered
<1>2. CASE DoubleTapped
  BY <1>2 DEF DoubleTapped, Answered
<1>3. CASE UNCHANGED answer
  BY <1>3 DEF Answered
<1> QED BY <1>1, <1>2, <1>3

LEMMA SecondaryAnswered ==
  ASSUME Answered, NEW co \in SecondaryTappable, co = mousePressed,
         TappedSecondary(co), UNCHANGED mousePressed
  PROVE  Answered'
<1>1. mousePressed # None
  BY KindsAreObjects, NoneIsNone
<1> QED BY <1>1, AnswerOfPressed DEF TappedSecondary, Answered

LEMMA NextAnswered == Answered /\ [Next]_vars => Answered'
<1> SUFFICES ASSUME Answered, [Next]_vars PROVE Answered'
  OBVIOUS
<1> DEFINE Same == UNCHANGED <<answer, mousePressed>>
<1>0. ASSUME Same PROVE Answered'
  BY <1>0 DEF Answered
<1>1. CASE \E p \in Places \ {Zero} : MouseMoved(p)
  BY <1>0, <1>1 DEF MouseMoved, tapVars
<1>2. CASE \E b \in {"primary", "secondary"} : Press(b)
  <2>1. \E co : Same \/ (co \in Tappable \cup SecondaryTappable /\ mousePressed' = co
                         /\ answer' = [of |-> co, by |-> "none"])
    BY <1>2 DEF Press
  <2> QED BY <1>0, <2>1, PressAnswered, KindsAreObjects
<1>3. CASE \E b \in {"primary", "secondary"} : Release(b)
  <2> DEFINE Second(co) == /\ co \in SecondaryTappable /\ co = mousePressed
                           /\ TappedSecondary(co) /\ UNCHANGED mousePressed
  <2>1. \E co : Same \/ Second(co) \/ CountClick(co) \/ SingleTap(co)
    BY <1>3 DEF Release
  <2>2. PICK co : Same \/ Second(co) \/ CountClick(co) \/ SingleTap(co)
    BY <2>1
  <2>3. CASE Second(co)
    BY <2>3, SecondaryAnswered
  <2>4. CASE CountClick(co)
    BY <1>0, <2>4 DEF CountClick
  <2>5. CASE SingleTap(co)
    BY <2>5, TapAnswered DEF SingleTap
  <2> QED BY <1>0, <2>2, <2>3, <2>4, <2>5
<1>4. CASE \E w \in Waiters : Waiter(w)
  <2>1. PICK w \in Waiters : Waiter(w)
    BY <1>4
  <2>2. CASE SetCancel(w) \/ DelayEnds(w)
    BY <1>0, <2>2 DEF SetCancel, DelayEnds, ghosts
  <2>3. CASE DoubleTapEnded(w)
    BY <2>3, TapAnswered DEF DoubleTapEnded
  <2> QED BY <2>1, <2>2, <2>3 DEF Waiter
<1>5. CASE WindowGains \/ WindowLoses \/ Tab \/ Application
  BY <1>0, <1>5 DEF WindowGains, WindowLoses, Tab, Application, MayCall, tapVars, ghosts
<1>6. CASE UNCHANGED vars
  BY <1>0, <1>6 DEF vars, tapVars, ghosts
<1> QED BY <1>1, <1>2, <1>3, <1>4, <1>5, <1>6 DEF Next

(* Tapped goes to what was pressed last and answers a press that no Tapped  *)
(* or DoubleTapped has answered, whether the click that ends it gives it or *)
(* a goroutine of an earlier one (window.go 593-612, 628-643).              *)
THEOREM TapsAnswer == Spec => []TapsAnswerPresses
<1>1. Answered => TapsAnswerPresses
  BY DEF Answered, TapsAnswerPresses
<1> QED BY <1>1, InitAnswered, NextAnswered, PTL DEF Spec
-----------------------------------------------------------------------------
(* The canvas *)

(* The shape of the canvas, whoever has the focus of it.                    *)
Roots == Contents \cup PopUps

ManagerType == [root : Roots, focused : Objects \cup {None}]

CanvasType ==
    [content : Contents, managers : Seq(ManagerType),
     overlays : Seq(PopUps), caches : Seq(PopUps), open : SUBSET PopUps,
     hidden : SUBSET Objects, told : SUBSET Objects]

(* As StackInStep, and the first manager is of a content.                   *)
Stacked(c) ==
    /\ c.caches = c.overlays
    /\ Len(c.managers) = Len(c.overlays) + 1
    /\ c.managers[1].root \in Contents
    /\ \A i \in 1..Len(c.overlays) :
         c.managers[i + 1].root = c.overlays[i] /\ c.overlays[i] \in c.open
    /\ \A i, j \in 1..Len(c.overlays) : c.overlays[i] = c.overlays[j] => i = j

FocusInTree(c) ==
    \A m \in 1..Len(c.managers) :
      c.managers[m].focused \in Members(c.managers[m].root) \cup {None}

(* Who has the focus of a manager was told so, but for the roots in except. *)
Told(c, except) ==
    \A m \in 1..Len(c.managers) :
      c.managers[m].focused # None /\ c.managers[m].root \notin except
        => c.managers[m].focused \in c.told

Sound(c, except) ==
    c \in CanvasType /\ Stacked(c) /\ FocusInTree(c) /\ Told(c, except)

(* The roots that were in charge when the window lost the focus.            *)
Excepted == strayed \cup IF active THEN {} ELSE {leftWith}

KeysInv == active \in BOOLEAN /\ Sound(canvas, Excepted)

(* A drag has begun, and a button is held, as long as DragEnd is owed.      *)
Paired ==
    /\ hovered = {mouseOver} \ {None}
    /\ dragging \subseteq {mouseDragged}
    /\ dragging # {} => mouseButton # {} /\ mouseDragStarted

LEMMA RootsAreNotNone == None \notin Roots /\ None \notin Objects /\ Contents \cap PopUps = {}
BY CanvasAssumption DEF Roots

LEMMA MembersAreObjects ==
  ASSUME NEW r \in Roots
  PROVE  /\ Tree[r] \in Seq(Objects)
         /\ Members(r) \subseteq Objects
BY CanvasAssumption DEF Members, Roots

LEMMA CanvasParts ==
  ASSUME NEW c \in CanvasType
  PROVE  /\ c.managers \in Seq(ManagerType) /\ Len(c.managers) \in Nat
         /\ DOMAIN c.managers = 1..Len(c.managers)
         /\ \A i \in 1..Len(c.managers) : c.managers[i] \in ManagerType
         /\ c.overlays \in Seq(PopUps) /\ Len(c.overlays) \in Nat
         /\ DOMAIN c.overlays = 1..Len(c.overlays)
         /\ \A i \in 1..Len(c.overlays) : c.overlays[i] \in PopUps
         /\ c.caches \in Seq(PopUps) /\ c.open \in SUBSET PopUps
         /\ c.content \in Contents /\ c.told \in SUBSET Objects
         /\ c.hidden \in SUBSET Objects
BY DEF CanvasType

LEMMA ManagerFields ==
  ASSUME NEW x \in ManagerType
  PROVE  x.root \in Roots /\ x.focused \in Objects \cup {None}
BY DEF ManagerType

LEMMA ManagerWith ==
  ASSUME NEW x \in ManagerType, NEW o
  PROVE  /\ [x EXCEPT !.focused = o] = [root |-> x.root, focused |-> o]
         /\ o \in Objects \cup {None} => [root |-> x.root, focused |-> o] \in ManagerType
         /\ [root |-> x.root, focused |-> o].root = x.root
         /\ [root |-> x.root, focused |-> o].focused = o
BY DEF ManagerType

(* No two managers have an object in common. *)
LEMMA ManagersApart ==
  ASSUME NEW c \in CanvasType, Stacked(c),
         NEW m \in 1..Len(c.managers), NEW k \in 1..Len(c.managers), m # k
  PROVE  /\ c.managers[m].root # c.managers[k].root
         /\ Members(c.managers[m].root) \cap Members(c.managers[k].root) = {}
<1> DEFINE root(i) == c.managers[i].root
<1>1. /\ Len(c.managers) \in Nat /\ Len(c.overlays) \in Nat
      /\ Len(c.managers) = Len(c.overlays) + 1
  BY CanvasParts DEF Stacked
<1>2. \A i \in 1..Len(c.managers) :
        i # 1 => /\ i - 1 \in 1..Len(c.overlays)
                 /\ root(i) = c.overlays[i - 1] /\ root(i) \in PopUps
  <2> SUFFICES ASSUME NEW i \in 1..Len(c.managers), i # 1
               PROVE  /\ i - 1 \in 1..Len(c.overlays)
                      /\ root(i) = c.overlays[i - 1] /\ root(i) \in PopUps
    OBVIOUS
  <2>1. i - 1 \in 1..Len(c.overlays) /\ (i - 1) + 1 = i
    BY <1>1
  <2>2. c.managers[(i - 1) + 1].root = c.overlays[i - 1]
    BY <2>1 DEF Stacked
  <2> QED BY <2>1, <2>2, CanvasParts
<1>3. root(1) \in Contents /\ \A i \in 1..Len(c.managers) : root(i) \in Contents \cup PopUps
  BY CanvasParts, ManagerFields DEF Stacked, Roots
<1>4. root(m) # root(k)
  <2>1. CASE m = 1 \/ k = 1
    BY <1>2, <1>3, <2>1, RootsAreNotNone
  <2>2. CASE m # 1 /\ k # 1
    BY <1>2, <2>2 DEF Stacked
  <2> QED BY <2>1, <2>2
<1>5. root(m) \in PopUps \/ root(k) \in PopUps
  BY <1>2
<1> QED BY <1>3, <1>4, <1>5, TreesApart

(* Moving the focus of a manager. *)
LEMMA MoveSound ==
  ASSUME NEW E, NEW c, Sound(c, E), NEW m \in 1..Len(c.managers),
         NEW o \in Members(c.managers[m].root) \cup {None}
  PROVE  Sound(MoveFocus(c, m, o), E)
<1>0. c \in CanvasType
  BY DEF Sound
<1>1. CASE c.managers[m].focused = o
  BY <1>1 DEF MoveFocus
<1>2. CASE c.managers[m].focused # o
  <2> DEFINE x == c.managers[m].focused
             r == c.managers[m].root
             ms == [c.managers EXCEPT ![m] = [root |-> r, focused |-> o]]
             t == (c.told \ {x}) \cup ({o} \ {None})
  <2>1. /\ r \in Roots /\ x \in Objects \cup {None}
        /\ o \in Objects \cup {None} /\ [root |-> r, focused |-> o] \in ManagerType
        /\ [c.managers[m] EXCEPT !.focused = o] = [root |-> r, focused |-> o]
    BY <1>0, CanvasParts, ManagerFields, ManagerWith, MembersAreObjects
  <2>2. PICK d : d = [c EXCEPT !.managers = ms, !.told = t]
    OBVIOUS
  <2>3. MoveFocus(c, m, o) = d
    BY <1>2, <2>1, <2>2 DEF MoveFocus
  <2>4. /\ ms \in Seq(ManagerType) /\ Len(ms) = Len(c.managers)
        /\ ms[m] = [root |-> r, focused |-> o]
        /\ \A k \in 1..Len(c.managers) : k # m => ms[k] = c.managers[k]
    BY <1>0, <2>1, CanvasParts
  <2>5. ms[m].root = r /\ ms[m].focused = o
    BY <2>4
  <2>6. t \in SUBSET Objects
    BY <1>0, <2>1, CanvasParts
  <2> HIDE DEF ms, t
  <2>7. /\ d \in CanvasType /\ d.managers = ms /\ d.told = t
        /\ d.overlays = c.overlays /\ d.caches = c.caches /\ d.open = c.open
    BY <1>0, <2>2, <2>4, <2>6 DEF CanvasType
  <2>8. \A k \in 1..Len(c.managers) : ms[k].root = c.managers[k].root
    BY <2>4, <2>5
  <2>9. Stacked(d)
    <3>1. \A i \in 1..Len(c.overlays) : i + 1 \in 1..Len(c.managers) /\ 1 \in 1..Len(c.managers)
      BY <1>0, CanvasParts DEF Sound, Stacked
    <3>2. 1 \in 1..Len(c.managers)
      BY <1>0, CanvasParts DEF Sound, Stacked
    <3> QED BY <2>4, <2>7, <2>8, <3>1, <3>2 DEF Sound, Stacked
  <2>10. FocusInTree(d)
    BY <2>4, <2>5, <2>7, <2>8 DEF Sound, FocusInTree
  <2>11. Told(d, E)
    <3> SUFFICES ASSUME NEW k \in 1..Len(c.managers), ms[k].focused # None, ms[k].root \notin E
                 PROVE  ms[k].focused \in t
      BY <2>4, <2>7 DEF Told
    <3>1. CASE k = m
      BY <2>5, <3>1 DEF t
    <3>2. CASE k # m
      <4>1. c.managers[k].focused \in c.told /\ ms[k] = c.managers[k]
        BY <2>4, <3>2 DEF Sound, Told
      <4>2. c.managers[k].focused # x
        <5>1. Members(r) \cap Members(c.managers[k].root) = {}
          BY <1>0, <3>2, ManagersApart DEF Sound
        <5>2. c.managers[k].focused \in Members(c.managers[k].root) \cup {None}
              /\ x \in Members(r) \cup {None}
          BY DEF Sound, FocusInTree
        <5> QED BY <3>2, <4>1, <5>1, <5>2
      <4> QED BY <4>1, <4>2 DEF t
    <3> QED BY <3>1, <3>2
  <2> QED BY <2>3, <2>7, <2>9, <2>10, <2>11 DEF Sound
<1> QED BY <1>1, <1>2

LEMMA LeastNat ==
  ASSUME NEW T, T \subseteq Nat, T # {}
  PROVE  \E m \in T : \A k \in T : ~(k < m)
<1>1. PICK m \in T : \A k \in T : ~(<<k, m>> \in OpToRel(<, Nat))
  BY NatLessThanWellFounded, WFMin, Zenon
<1>2. \A k \in T : ~(k < m)
  BY <1>1, Zenon DEF OpToRel
<1> QED BY <1>2, Zenon

LEMMA LeastIndex ==
  ASSUME NEW n \in Nat, NEW T, T \subseteq 1..n, T # {}
  PROVE  (CHOOSE i \in T : \A j \in T : i <= j) \in T
<1>1. T \subseteq Nat
  OBVIOUS
<1>2. PICK m \in T : \A k \in T : ~(k < m)
  BY <1>1, LeastNat, Zenon
<1>3. \A k \in T : m <= k
  BY <1>1, <1>2
<1> QED BY <1>3, Zenon

LEMMA SomeoneInCharge ==
  ASSUME NEW E, NEW c, Sound(c, E)
  PROVE  /\ InCharge(c) \in 1..Len(c.managers) /\ InCharge(c) \in Nat \ {0}
         /\ Root(c) \in Roots
         /\ Focused(c) \in Members(Root(c)) \cup {None}
<1>1. c \in CanvasType
  BY DEF Sound
<1>2. InCharge(c) \in 1..Len(c.managers) /\ InCharge(c) \in Nat \ {0}
  BY <1>1, CanvasParts DEF Sound, Stacked, InCharge
<1>3. Root(c) \in Roots
  BY <1>1, <1>2, CanvasParts, ManagerFields DEF Root
<1> QED BY <1>2, <1>3 DEF Sound, FocusInTree, Root, Focused

LEMMA ManagerFocusSound ==
  ASSUME NEW E, NEW c, Sound(c, E), NEW m \in 1..Len(c.managers),
         NEW o \in Members(c.managers[m].root)
  PROVE  Sound(ManagerFocus(c, m, o), E)
<1>1. CASE ManagerFocus(c, m, o) = c
  BY <1>1
<1>2. CASE ManagerFocus(c, m, o) = MoveFocus(c, m, o)
  BY <1>2, MoveSound
<1> QED BY <1>1, <1>2 DEF ManagerFocus

LEMMA FocusSound ==
  ASSUME NEW E, NEW c, Sound(c, E), NEW o
  PROVE  Sound(Focus(c, o), E)
<1> DEFINE has == {m \in DOMAIN c.managers : o \in Members(c.managers[m].root)}
           least == CHOOSE m \in has : \A n \in has : m <= n
<1>1. CASE has = {}
  BY <1>1 DEF Focus
<1>2. CASE has # {}
  <2>1. has \subseteq 1..Len(c.managers) /\ Len(c.managers) \in Nat
    BY CanvasParts DEF Sound
  <2>2. least \in has
    <3> HIDE DEF has
    <3> QED BY <1>2, <2>1, LeastIndex
  <2>3. PICK m \in has : Focus(c, o) = ManagerFocus(c, m, o)
    BY <1>2, <2>2 DEF Focus
  <2> QED BY <2>1, <2>3, ManagerFocusSound
<1> QED BY <1>1, <1>2

LEMMA UnfocusSound ==
  ASSUME NEW E, NEW c, Sound(c, E)
  PROVE  Sound(Unfocus(c), E)
BY SomeoneInCharge, MoveSound DEF Unfocus

LEMMA WalkerStops ==
  ASSUME NEW c, NEW S, NEW walk \in Seq(S)
  PROVE  NextWithWalker(c, walk) \in {walk[i] : i \in 1..Len(walk)} \cup {None}
<1> DEFINE stops == {i \in DOMAIN walk : walk[i] \in Focusable /\ Visible(c, walk[i])}
           behind == {i \in stops : \E j \in stops : j < i /\ walk[j] = Focused(c)}
           is == IF behind = {} THEN stops ELSE behind
           first == CHOOSE i \in is : \A j \in is : i <= j
<1>1. CASE stops = {}
  BY <1>1 DEF NextWithWalker
<1>2. CASE stops # {}
  <2>1. is # {} /\ is \subseteq 1..Len(walk) /\ Len(walk) \in Nat
    BY <1>2
  <2>2. first \in is
    <3> HIDE DEF is
    <3> QED BY <2>1, LeastIndex
  <2>3. NextWithWalker(c, walk) = walk[first]
    BY <1>2, Zenon DEF NextWithWalker
  <2> HIDE DEF is, first
  <2> QED BY <2>1, <2>2, <2>3
<1> QED BY <1>1, <1>2

LEMMA TabSound ==
  ASSUME NEW E, NEW c, Sound(c, E)
  PROVE  Sound(FocusNext(c), E) /\ Sound(FocusPrevious(c), E)
<1> DEFINE tree == Tree[Root(c)]
<1>1. /\ InCharge(c) \in 1..Len(c.managers) /\ Root(c) \in Roots
      /\ Root(c) = c.managers[InCharge(c)].root
  BY SomeoneInCharge DEF Root
<1>2. tree \in Seq(Objects) /\ Len(tree) \in Nat /\ DOMAIN tree = 1..Len(tree)
  BY <1>1, MembersAreObjects
<1>3. {tree[i] : i \in 1..Len(tree)} = Members(Root(c))
  BY <1>2 DEF Members
<1>4. Backwards(tree) \in Seq(Objects) /\ Len(Backwards(tree)) = Len(tree)
  BY <1>2 DEF Backwards
<1>5. {Backwards(tree)[i] : i \in 1..Len(Backwards(tree))} \subseteq Members(Root(c))
  <2>1. \A i \in 1..Len(tree) : Len(tree) + 1 - i \in 1..Len(tree)
                               /\ Backwards(tree)[i] = tree[Len(tree) + 1 - i]
    BY <1>2 DEF Backwards
  <2> QED BY <1>3, <1>4, <2>1
<1>6. NextWithWalker(c, tree) \in Members(Root(c)) \cup {None}
  BY <1>2, <1>3, WalkerStops
<1>7. NextWithWalker(c, Backwards(tree)) \in Members(Root(c)) \cup {None}
  BY <1>4, <1>5, WalkerStops
<1> QED BY <1>1, <1>6, <1>7, MoveSound DEF FocusNext, FocusPrevious

LEMMA SetContentSound ==
  ASSUME NEW E, NEW c, Sound(c, E), NEW t \in Contents
  PROVE  Sound(SetContent(c, t), E)
<1> DEFINE ms == [c.managers EXCEPT ![1] = Manager(t)]
<1>0. c \in CanvasType
  BY DEF Sound
<1>1. PICK d : d = [c EXCEPT !.content = t, !.managers = ms]
  OBVIOUS
<1>2. SetContent(c, t) \in {d} \cup {ManagerFocus(d, 1, o) : o \in Members(t)}
  BY <1>1 DEF SetContent
<1>3. Manager(t) \in ManagerType /\ Manager(t).root = t /\ Manager(t).focused = None
  BY DEF Manager, ManagerType, Roots
<1>4. /\ 1 \in 1..Len(c.managers)
      /\ \A i \in 1..Len(c.overlays) : i + 1 \in 1..Len(c.managers) /\ i + 1 # 1
  BY <1>0, CanvasParts DEF Sound, Stacked
<1>5. /\ ms \in Seq(ManagerType) /\ Len(ms) = Len(c.managers) /\ ms[1] = Manager(t)
      /\ \A k \in 1..Len(c.managers) : k # 1 => ms[k] = c.managers[k]
  BY <1>0, <1>3, <1>4, CanvasParts
<1> HIDE DEF ms
<1>6. /\ d \in CanvasType /\ d.managers = ms /\ d.told = c.told
      /\ d.overlays = c.overlays /\ d.caches = c.caches /\ d.open = c.open
  BY <1>0, <1>1, <1>5 DEF CanvasType
<1>7. Stacked(d)
  BY <1>3, <1>4, <1>5, <1>6 DEF Sound, Stacked
<1>8. FocusInTree(d)
  BY <1>3, <1>5, <1>6 DEF Sound, FocusInTree
<1>9. Told(d, E)
  BY <1>3, <1>5, <1>6 DEF Sound, Told
<1>10. Sound(d, E)
  BY <1>6, <1>7, <1>8, <1>9 DEF Sound
<1>11. 1 \in 1..Len(d.managers) /\ d.managers[1].root = t
  BY <1>3, <1>4, <1>5, <1>6
<1> QED BY <1>2, <1>10, <1>11, ManagerFocusSound

LEMMA ShowSound ==
  ASSUME NEW E, NEW c, Sound(c, E), NEW p \in PopUps
  PROVE  Sound(Show(c, p), E)
<1>0. c \in CanvasType
  BY DEF Sound
<1>1. CASE p \in c.open
  BY <1>1 DEF Show
<1>2. CASE p \notin c.open
  <2> DEFINE n == Len(c.overlays)
             os == Append(c.overlays, p)
             ms == Append(c.managers, Manager(p))
  <2>1. PICK d : d = [c EXCEPT !.open = c.open \cup {p}, !.caches = os,
                               !.overlays = os, !.managers = ms]
    OBVIOUS
  <2>3. Manager(p) \in ManagerType /\ Manager(p).root = p /\ Manager(p).focused = None
    BY DEF Manager, ManagerType, Roots
  <2>4. n \in Nat /\ Len(c.managers) = n + 1 /\ c.caches = c.overlays
    BY <1>0, CanvasParts DEF Sound, Stacked
  <2>2. Show(c, p) = d
    BY <1>0, <1>2, <2>1, <2>4 DEF Show, AddOverlay, CanvasType
  <2>5. /\ os \in Seq(PopUps) /\ Len(os) = n + 1 /\ os[n + 1] = p
        /\ \A i \in 1..n : os[i] = c.overlays[i]
    BY <1>0, CanvasParts, AppendProperties
  <2>6. /\ ms \in Seq(ManagerType) /\ Len(ms) = n + 2 /\ ms[n + 2] = Manager(p)
        /\ \A i \in 1..n+1 : ms[i] = c.managers[i]
    BY <1>0, <2>3, <2>4, CanvasParts, AppendProperties
  <2> HIDE DEF os, ms
  <2>7. /\ d \in CanvasType /\ d.managers = ms /\ d.told = c.told
        /\ d.overlays = os /\ d.caches = os /\ d.open = c.open \cup {p}
    BY <1>0, <2>1, <2>5, <2>6 DEF CanvasType
  <2>8. \A i \in 1..n : c.overlays[i] \in c.open
    BY DEF Sound, Stacked
  <2>9. Stacked(d)
    <3>1. d.caches = d.overlays /\ Len(d.managers) = Len(d.overlays) + 1
      BY <2>4, <2>5, <2>6, <2>7
    <3>2. d.managers[1].root \in Contents
      BY <2>4, <2>6, <2>7 DEF Sound, Stacked
    <3>3. \A i \in 1..n+1 : ms[i + 1].root = os[i] /\ os[i] \in d.open
      <4>1. \A i \in 1..n : i + 1 \in 1..n+1
        BY <2>4
      <4>2. \A i \in 1..n : ms[i + 1].root = os[i] /\ os[i] \in d.open
        BY <2>5, <2>6, <2>7, <2>8, <4>1 DEF Sound, Stacked
      <4>3. ms[(n + 1) + 1].root = os[n + 1] /\ os[n + 1] \in d.open
        BY <2>3, <2>4, <2>5, <2>6, <2>7
      <4> QED BY <2>4, <4>2, <4>3
    <3>4. \A i, j \in 1..n+1 : os[i] = os[j] => i = j
      <4>1. \A i \in 1..n : os[i] # p
        BY <1>2, <2>5, <2>8
      <4> QED BY <2>4, <2>5, <4>1 DEF Sound, Stacked
    <3> QED BY <2>5, <2>7, <3>1, <3>2, <3>3, <3>4 DEF Stacked
  <2>10. \A i \in 1..n+2 : i \in 1..n+1 \/ i = n + 2
    BY <2>4
  <2>11. FocusInTree(d)
    BY <2>3, <2>4, <2>6, <2>7, <2>10 DEF Sound, FocusInTree
  <2>12. Told(d, E)
    BY <2>3, <2>4, <2>6, <2>7, <2>10 DEF Sound, Told
  <2> QED BY <2>2, <2>7, <2>9, <2>11, <2>12 DEF Sound
<1> QED BY <1>1, <1>2

LEMMA PrefixParts ==
  ASSUME NEW S, NEW s \in Seq(S), NEW k \in 0..Len(s)
  PROVE  /\ SubSeq(s, 1, k) \in Seq(S) /\ Len(SubSeq(s, 1, k)) = k
         /\ \A i \in 1..k : SubSeq(s, 1, k)[i] = s[i]
OBVIOUS

LEMMA HideSound ==
  ASSUME NEW E, NEW c, Sound(c, E), NEW p \in PopUps
  PROVE  Sound(Hide(c, p), E)
<1> DEFINE n == Len(c.overlays)
           is == {i \in DOMAIN c.overlays : c.overlays[i] = p}
           at == CHOOSE i \in is : \A j \in is : i <= j
<1>0. c \in CanvasType /\ n \in Nat /\ Len(c.managers) = n + 1 /\ DOMAIN c.overlays = 1..n
  BY CanvasParts DEF Sound, Stacked
<1>1. PICK b : b = [c EXCEPT !.open = c.open \ {p}]
  OBVIOUS
<1>2. /\ b \in CanvasType /\ b.managers = c.managers /\ b.told = c.told
      /\ b.overlays = c.overlays /\ b.caches = c.caches /\ b.open = c.open \ {p}
  BY <1>0, <1>1 DEF CanvasType
<1>3. CASE p \notin c.open
  BY <1>3 DEF Hide
<1>4. CASE p \in c.open /\ is = {}
  <2>1. Hide(c, p) = b
    BY <1>1, <1>2, <1>4 DEF Hide, RemoveOverlay
  <2>2. Stacked(b)
    BY <1>0, <1>2, <1>4 DEF Sound, Stacked
  <2>3. FocusInTree(b) /\ Told(b, E)
    BY <1>2 DEF Sound, FocusInTree, Told
  <2> QED BY <1>2, <2>1, <2>2, <2>3 DEF Sound
<1>5. CASE p \in c.open /\ is # {}
  <2>1. at \in is
    <3> HIDE DEF is
    <3>1. is \subseteq 1..n
      BY <1>0 DEF is
    <3> QED BY <1>0, <1>5, <3>1, LeastIndex
  <2>2. PICK a \in 1..n : a = at /\ c.overlays[a] = p
    BY <1>0, <2>1
  <2> HIDE DEF at
  <2> DEFINE os == SubSeq(c.overlays, 1, a - 1)
             ms == SubSeq(c.managers, 1, a)
  <2>3. PICK d : d = [b EXCEPT !.overlays = os, !.managers = ms, !.caches = os]
    OBVIOUS
  <2>4. Hide(c, p) = d
    <3>1. Hide(c, p) = RemoveOverlay(b, p)
      BY <1>1, <1>5 DEF Hide
    <3>2. is = {i \in DOMAIN b.overlays : b.overlays[i] = p}
      BY <1>2
    <3> HIDE DEF is
    <3>3. RemoveOverlay(b, p) = [b EXCEPT !.overlays = SubSeq(b.overlays, 1, at - 1),
                                          !.managers = SubSeq(b.managers, 1, at),
                                          !.caches = SubSeq(b.caches, 1, at - 1)]
      BY <1>5, <3>2, Zenon DEF RemoveOverlay, at
    <3>4. b.caches = c.overlays
      BY <1>2 DEF Sound, Stacked
    <3> HIDE DEF at
    <3> QED BY <1>2, <2>2, <2>3, <3>1, <3>3, <3>4
  <2>5. /\ os \in Seq(PopUps) /\ Len(os) = a - 1
        /\ \A i \in 1..a-1 : os[i] = c.overlays[i]
    BY <1>0, CanvasParts, PrefixParts
  <2>6. /\ ms \in Seq(ManagerType) /\ Len(ms) = a
        /\ \A i \in 1..a : ms[i] = c.managers[i]
    BY <1>0, CanvasParts, PrefixParts
  <2> HIDE DEF os, ms
  <2>7. /\ d \in CanvasType /\ d.managers = ms /\ d.told = c.told
        /\ d.overlays = os /\ d.caches = os /\ d.open = c.open \ {p}
    BY <1>2, <2>3, <2>5, <2>6 DEF CanvasType
  <2>8. a \in Nat /\ 1 <= a /\ a <= n
    BY <1>0
  <2>9. Stacked(d)
    <3>1. \A i \in 1..a-1 : i \in 1..n /\ i # a /\ i + 1 \in 1..a
      BY <1>0, <2>8
    <3>2. \A i \in 1..a-1 : os[i] # p
      BY <2>2, <2>5, <3>1 DEF Sound, Stacked
    <3>3. \A i \in 1..a-1 : ms[i + 1].root = os[i] /\ os[i] \in c.open \ {p}
      BY <2>5, <2>6, <3>1, <3>2 DEF Sound, Stacked
    <3>4. \A i, j \in 1..a-1 : os[i] = os[j] => i = j
      BY <2>5, <3>1 DEF Sound, Stacked
    <3>5. ms[1].root \in Contents /\ Len(ms) = Len(os) + 1
      BY <2>5, <2>6, <2>8 DEF Sound, Stacked
    <3> QED BY <2>5, <2>7, <3>3, <3>4, <3>5 DEF Stacked
  <2>10. \A i \in 1..a : i \in 1..n+1
    BY <1>0, <2>8
  <2>11. FocusInTree(d) /\ Told(d, E)
    BY <1>0, <2>6, <2>7, <2>10 DEF Sound, FocusInTree, Told
  <2> QED BY <2>4, <2>7, <2>9, <2>11 DEF Sound
<1> QED BY <1>3, <1>4, <1>5

LEMMA ClickFocusSound ==
  ASSUME NEW E, NEW c, Sound(c, E), NEW place, NEW co
  PROVE  Sound(ClickFocus(c, place, co), E)
BY UnfocusSound DEF ClickFocus

LEMMA AfterTapSound ==
  ASSUME NEW E, NEW c, Sound(c, E), NEW o
  PROVE  Sound(AfterTap(c, o), E)
<1> DEFINE is == {p \in PopUps : Backdrop[p] = o}
<1>1. CASE is = {}
  BY <1>1 DEF AfterTap
<1>2. CASE is # {}
  <2>1. (CHOOSE p \in is : TRUE) \in PopUps
    BY <1>2
  <2>2. AfterTap(c, o) = Hide(c, CHOOSE p \in is : TRUE)
    BY <1>2, Zenon DEF AfterTap
  <2> QED BY <2>1, <2>2, HideSound
<1> QED BY <1>1, <1>2

LEMMA SecondaryTapSound ==
  ASSUME NEW E, NEW c, Sound(c, E), NEW place, NEW co
  PROVE  Sound(SecondaryTap(c, place, co), E)
<1> DEFINE after == AfterTap(c, co)
<1>1. Sound(after, E)
  BY AfterTapSound
<1>2. Sound(AfterTap(after, Find(after, place, SecondaryTappable)), E)
  BY <1>1, AfterTapSound
<1> QED BY <1>1, <1>2 DEF SecondaryTap

(* Hiding and showing an object tells nobody. *)
LEMMA HiddenSound ==
  ASSUME NEW E, NEW c, Sound(c, E), NEW h \in SUBSET Objects
  PROVE  Sound([c EXCEPT !.hidden = h], E)
<1>1. PICK d : d = [c EXCEPT !.hidden = h]
  OBVIOUS
<1>2. /\ d \in CanvasType /\ d.managers = c.managers /\ d.told = c.told
      /\ d.overlays = c.overlays /\ d.caches = c.caches /\ d.open = c.open
  BY <1>1 DEF Sound, CanvasType
<1>3. Sound(d, E)
  BY <1>2 DEF Sound, Stacked, FocusInTree, Told
<1> QED BY <1>1, <1>3

(* The window comes back: the one in charge is told, the one that was in    *)
(* charge when the window went is not, if it is another.                    *)
LEMMA GainedSound ==
  ASSUME NEW E, NEW c, Sound(c, E), NEW F, E \subseteq F \cup {Root(c)}
  PROVE  Sound(FocusGained(c), F)
<1> DEFINE t == c.told \cup ({Focused(c)} \ {None})
<1>0. c \in CanvasType
  BY DEF Sound
<1>1. PICK d : d = [c EXCEPT !.told = t]
  OBVIOUS
<1>2. FocusGained(c) = d
  BY <1>1 DEF FocusGained
<1>3. /\ InCharge(c) \in 1..Len(c.managers) /\ Root(c) = c.managers[InCharge(c)].root
      /\ Focused(c) = c.managers[InCharge(c)].focused
      /\ Focused(c) \in Objects \cup {None}
  BY SomeoneInCharge, MembersAreObjects DEF Root, Focused
<1>4. t \in SUBSET Objects
  BY <1>0, <1>3, CanvasParts
<1> HIDE DEF t
<1>5. /\ d \in CanvasType /\ d.managers = c.managers /\ d.told = t
      /\ d.overlays = c.overlays /\ d.caches = c.caches /\ d.open = c.open
  BY <1>0, <1>1, <1>4 DEF CanvasType
<1>6. Stacked(d) /\ FocusInTree(d)
  BY <1>5 DEF Sound, Stacked, FocusInTree
<1>7. Told(d, F)
  <2> SUFFICES ASSUME NEW m \in 1..Len(c.managers), c.managers[m].focused # None,
                      c.managers[m].root \notin F
               PROVE  c.managers[m].focused \in t
    BY <1>5 DEF Told
  <2>1. CASE m = InCharge(c)
    BY <1>3, <2>1 DEF t
  <2>2. CASE m # InCharge(c)
    <3>1. c.managers[m].root # Root(c)
      BY <1>0, <1>3, <2>2, ManagersApart DEF Sound
    <3> QED BY <3>1 DEF Sound, Told, t
  <2> QED BY <2>1, <2>2
<1> QED BY <1>2, <1>5, <1>6, <1>7 DEF Sound

LEMMA LostSound ==
  ASSUME NEW E, NEW c, Sound(c, E)
  PROVE  Sound(FocusLost(c), E \cup {Root(c)})
<1> DEFINE t == c.told \ {Focused(c)}
<1>0. c \in CanvasType
  BY DEF Sound
<1>1. PICK d : d = [c EXCEPT !.told = t]
  OBVIOUS
<1>2. FocusLost(c) = d
  BY <1>1 DEF FocusLost
<1>3. /\ InCharge(c) \in 1..Len(c.managers) /\ Root(c) = c.managers[InCharge(c)].root
      /\ Focused(c) \in Members(Root(c)) \cup {None}
  BY SomeoneInCharge DEF Root
<1>4. t \in SUBSET Objects
  BY <1>0, CanvasParts
<1> HIDE DEF t
<1>5. /\ d \in CanvasType /\ d.managers = c.managers /\ d.told = t
      /\ d.overlays = c.overlays /\ d.caches = c.caches /\ d.open = c.open
  BY <1>0, <1>1, <1>4 DEF CanvasType
<1>6. Stacked(d) /\ FocusInTree(d)
  BY <1>5 DEF Sound, Stacked, FocusInTree
<1>7. Told(d, E \cup {Root(c)})
  <2> SUFFICES ASSUME NEW m \in 1..Len(c.managers), c.managers[m].focused # None,
                      c.managers[m].root \notin E, c.managers[m].root # Root(c)
               PROVE  c.managers[m].focused \in t
    BY <1>5 DEF Told
  <2>1. c.managers[m].focused \in c.told
    BY DEF Sound, Told
  <2>2. Members(Root(c)) \cap Members(c.managers[m].root) = {}
    BY <1>0, <1>3, ManagersApart DEF Sound
  <2>3. c.managers[m].focused \in Members(c.managers[m].root)
    BY DEF Sound, FocusInTree
  <2> QED BY <1>3, <2>1, <2>2, <2>3 DEF t
<1> QED BY <1>2, <1>5, <1>6, <1>7 DEF Sound

-----------------------------------------------------------------------------
(* Who is told of the keys *)

LEMMA InitKeys == Init => KeysInv
<1> SUFFICES ASSUME Init PROVE KeysInv
  OBVIOUS
<1> DEFINE t == CHOOSE x \in Contents : TRUE
<1>1. t \in Contents
  BY CanvasAssumption
<1> HIDE DEF t
<1>2. Manager(t) \in ManagerType /\ Manager(t).root = t /\ Manager(t).focused = None
  BY <1>1 DEF Manager, ManagerType, Roots
<1>3. NewCanvas = [content |-> t, managers |-> <<Manager(t)>>, overlays |-> <<>>,
                   caches |-> <<>>, open |-> {}, hidden |-> {}, told |-> {}]
  BY DEF NewCanvas, t
<1>4. <<Manager(t)>> \in Seq(ManagerType) /\ Len(<<Manager(t)>>) = 1
      /\ <<Manager(t)>>[1] = Manager(t)
  BY <1>2
<1>5. NewCanvas \in CanvasType
  BY <1>1, <1>3, <1>4 DEF CanvasType
<1>6. /\ NewCanvas.managers = <<Manager(t)>>
      /\ NewCanvas.overlays = <<>> /\ NewCanvas.caches = <<>>
  BY <1>3
<1>7. Stacked(NewCanvas)
  BY <1>1, <1>2, <1>4, <1>6 DEF Stacked
<1>8. FocusInTree(NewCanvas) /\ Told(NewCanvas, Excepted)
  BY <1>2, <1>4, <1>6 DEF FocusInTree, Told
<1> QED BY <1>5, <1>7, <1>8 DEF Init, KeysInv, Sound

LEMMA ApplicationSound ==
  ASSUME NEW E, Sound(canvas, E), Application
  PROVE  Sound(canvas', E)
<1>1. CASE \E o \in Focusable : canvas' = Focus(canvas, o)
  BY <1>1, FocusSound
<1>2. CASE canvas' = Unfocus(canvas)
  BY <1>2, UnfocusSound
<1>3. CASE \E t \in Contents : canvas' = SetContent(canvas, t)
  BY <1>3, SetContentSound
<1>4. CASE \E p \in PopUps : canvas' \in {Show(canvas, p), Hide(canvas, p)}
  BY <1>4, ShowSound, HideSound
<1>5. CASE \E o \in Hideable : canvas' = [canvas EXCEPT !.hidden =
                                              IF o \in @ THEN @ \ {o} ELSE @ \cup {o}]
  <2>1. PICK o \in Hideable : canvas' = [canvas EXCEPT !.hidden =
                                  IF o \in canvas.hidden THEN canvas.hidden \ {o}
                                                         ELSE canvas.hidden \cup {o}]
    BY <1>5
  <2>2. (IF o \in canvas.hidden THEN canvas.hidden \ {o} ELSE canvas.hidden \cup {o})
           \in SUBSET Objects
    <3>1. canvas.hidden \in SUBSET Objects
      BY CanvasParts DEF Sound
    <3> QED BY <3>1, KindsAreObjects
  <2> QED BY <2>1, <2>2, HiddenSound
<1> QED BY <1>1, <1>2, <1>3, <1>4, <1>5 DEF Application

(* The canvas, of an event that does not change who has the window.         *)
LEMMA EventSound ==
  ASSUME NEW E, Sound(canvas, E), [Next]_vars, ~WindowGains, ~WindowLoses
  PROVE  Sound(canvas', E) /\ UNCHANGED focusVars
<1>0. ASSUME UNCHANGED <<canvas, focusVars>>
      PROVE  Sound(canvas', E) /\ UNCHANGED focusVars
  BY <1>0
<1>1. CASE \E p \in Places \ {Zero} : MouseMoved(p)
  BY <1>0, <1>1 DEF MouseMoved
<1>2. CASE \E b \in {"primary", "secondary"} : Press(b)
  <2>1. PICK place, co, x : /\ x = canvas \/ x = Focus(canvas, co)
                            /\ canvas' = ClickFocus(x, place, co) /\ UNCHANGED focusVars
    BY <1>2 DEF Press
  <2>2. Sound(x, E)
    BY <2>1, FocusSound
  <2> QED BY <2>1, <2>2, ClickFocusSound
<1>3. CASE \E b \in {"primary", "secondary"} : Release(b)
  <2>1. PICK place, co, x : /\ x = ClickFocus(canvas, place, co)
                            /\ canvas' \in {x, SecondaryTap(x, place, co), AfterTap(x, co)}
                            /\ UNCHANGED focusVars
    BY <1>3 DEF Release
  <2>2. Sound(x, E)
    BY <2>1, ClickFocusSound
  <2> QED BY <2>1, <2>2, SecondaryTapSound, AfterTapSound
<1>4. CASE \E w \in Waiters : Waiter(w)
  <2>1. PICK w \in Waiters : Waiter(w)
    BY <1>4
  <2>2. CASE SetCancel(w) \/ DelayEnds(w)
    BY <1>0, <2>2 DEF SetCancel, DelayEnds
  <2>3. CASE DoubleTapEnded(w)
    <3>1. PICK co : canvas' \in {canvas, AfterTap(canvas, co)} /\ UNCHANGED focusVars
      BY <2>3 DEF DoubleTapEnded
    <3> QED BY <3>1, AfterTapSound
  <2> QED BY <2>1, <2>2, <2>3 DEF Waiter
<1>5. CASE Tab
  <2>1. canvas' \in {FocusNext(canvas), FocusPrevious(canvas)} /\ UNCHANGED focusVars
    BY <1>5 DEF Tab
  <2> QED BY <2>1, TabSound
<1>6. CASE Application
  <2>1. UNCHANGED focusVars
    BY <1>6 DEF Application
  <2> QED BY <1>6, <2>1, ApplicationSound
<1>7. CASE UNCHANGED vars
  BY <1>0, <1>7 DEF vars
<1> QED BY <1>1, <1>2, <1>3, <1>4, <1>5, <1>6, <1>7 DEF Next

LEMMA NextKeys == KeysInv /\ [Next]_vars => KeysInv'
<1> SUFFICES ASSUME KeysInv, [Next]_vars PROVE KeysInv'
  OBVIOUS
<1> USE DEF KeysInv
<1>1. CASE WindowGains
  <2>1. /\ ~active /\ active' = TRUE /\ canvas' = FocusGained(canvas)
        /\ strayed' = (strayed \cup ({leftWith} \ {None})) \ {Root(canvas)}
    BY <1>1 DEF WindowGains
  <2>2. Sound(canvas, strayed \cup {leftWith})
    BY <2>1 DEF Excepted
  <2>3. Sound(canvas, strayed \cup ({leftWith} \ {None}))
    <3>0. canvas \in CanvasType
      BY <2>2 DEF Sound
    <3>1. \A m \in 1..Len(canvas.managers) : canvas.managers[m].root # None
      BY <3>0, CanvasParts, ManagerFields, RootsAreNotNone
    <3> QED BY <2>2, <3>1 DEF Sound, Told
  <2>4. Sound(canvas', strayed')
    BY <2>1, <2>3, GainedSound
  <2>5. Excepted' = strayed'
    BY <2>1 DEF Excepted
  <2> QED BY <2>1, <2>4, <2>5
<1>2. CASE WindowLoses
  <2>1. /\ active /\ active' = FALSE /\ canvas' = FocusLost(canvas)
        /\ leftWith' = Root(canvas) /\ strayed' = strayed
    BY <1>2 DEF WindowLoses
  <2>2. Sound(canvas, strayed)
    BY <2>1 DEF Excepted
  <2>3. Sound(canvas', strayed \cup {Root(canvas)})
    BY <2>1, <2>2, LostSound
  <2>4. Excepted' = strayed \cup {Root(canvas)}
    BY <2>1 DEF Excepted
  <2> QED BY <2>1, <2>3, <2>4
<1>3. CASE ~WindowGains /\ ~WindowLoses
  <2>1. Sound(canvas', Excepted) /\ UNCHANGED focusVars
    BY <1>3, EventSound
  <2>2. Excepted' = Excepted /\ active' = active
    BY <2>1 DEF Excepted, focusVars
  <2> QED BY <2>1, <2>2
<1> QED BY <1>1, <1>2, <1>3

LEMMA KeysInductive == Spec => []KeysInv
BY InitKeys, NextKeys, PTL DEF Spec

(* The caches, the overlays and the focus managers stay in step, whatever   *)
(* is shown, hidden and dismissed (overlay_stack.go 18-72).                 *)
THEOREM StackStaysInStep == Spec => []StackInStep
<1>1. KeysInv => StackInStep
  BY CanvasParts DEF KeysInv, Sound, Stacked, StackInStep
<1> QED BY <1>1, KeysInductive, PTL

(* The keys reach an object that knows that it has them, whoever moves the  *)
(* focus, on whichever overlay, between the window's losing and gaining its *)
(* own (canvas.go 196-240).                                                 *)
THEOREM KeysAreExpected == Spec => []KeysReachFocused
<1>1. KeysInv => KeysReachFocused
  <2> SUFFICES ASSUME KeysInv, active, Focused(canvas) # None, Root(canvas) \notin strayed
               PROVE  Focused(canvas) \in canvas.told
    BY DEF KeysReachFocused
  <2>1. Sound(canvas, strayed)
    BY DEF KeysInv, Excepted
  <2> QED BY <2>1, SomeoneInCharge DEF Sound, Told, Root, Focused
<1> QED BY <1>1, KeysInductive, PTL

-----------------------------------------------------------------------------
(* Hovering and dragging *)

LEMMA InitPaired == Init => Paired
BY DEF Init, Paired

LEMMA NextPaired == Paired /\ [Next]_vars => Paired'
<1> SUFFICES ASSUME Paired, [Next]_vars PROVE Paired'
  OBVIOUS
<1> DEFINE Same == UNCHANGED <<hovered, mouseOver, dragging, mouseDragged, mouseDragStarted>>
<1>0. ASSUME Same, UNCHANGED mouseButton \/ mouseButton' # {}  PROVE Paired'
  BY <1>0 DEF Paired
<1>1. CASE \E p \in Places \ {Zero} : MouseMoved(p)
  <2>1. PICK o, far : /\ Hover(o) /\ UNCHANGED mouseButton
                      /\ mouseDragged' = Dragged(far)
                      /\ mouseDragStarted' = (mouseDragStarted
                           \/ (Dragged(far) # None /\ mouseButton # {"secondary"}))
                      /\ dragging' =
                           IF Dragged(far) # None /\ mouseButton \notin {{}, {"secondary"}}
                           THEN dragging \cup {Dragged(far)} ELSE dragging
    BY <1>1 DEF MouseMoved
  <2>2. hovered' = {mouseOver'} \ {None}
    BY <2>1 DEF Hover, Paired
  <2>3. dragging # {} => Dragged(far) = mouseDragged
    BY DEF Dragged, Paired
  <2>4. dragging' \subseteq {mouseDragged'}
    BY <2>1, <2>3 DEF Paired
  <2>5. dragging' # {} => mouseButton' # {} /\ mouseDragStarted'
    BY <2>1 DEF Paired
  <2> QED BY <2>2, <2>4, <2>5 DEF Paired
<1>2. CASE \E b \in {"primary", "secondary"} : Press(b)
  BY <1>0, <1>2 DEF Press
<1>3. CASE \E b \in {"primary", "secondary"} : Release(b)
  <2>1. PICK co : EndDrag(co)
    BY <1>3 DEF Release
  <2>2. hovered' = {mouseOver'} \ {None}
    BY <2>1 DEF EndDrag, Hover, Paired
  <2>3. dragging' = {}
    BY <2>1 DEF EndDrag, Paired
  <2> QED BY <2>2, <2>3 DEF Paired
<1>4. CASE \E w \in Waiters : Waiter(w)
  BY <1>0, <1>4 DEF Waiter, SetCancel, DelayEnds, DoubleTapEnded, mouseVars, ghosts
<1>5. CASE WindowGains \/ WindowLoses \/ Tab \/ Application
  BY <1>0, <1>5 DEF WindowGains, WindowLoses, Tab, Application, MayCall, ghosts
<1>6. CASE UNCHANGED vars
  BY <1>0, <1>6 DEF vars, mouseVars, ghosts
<1> QED BY <1>1, <1>2, <1>3, <1>4, <1>5, <1>6 DEF Next

(* MouseIn and MouseOut, Dragged and DragEnd come in pairs, whatever        *)
(* changes under the pointer without an event (window.go 320-560).          *)
THEOREM EventsArePaired == Spec => []InPairs
<1>1. Paired => InPairs
  BY DEF Paired, InPairs
<1> QED BY <1>1, InitPaired, NextPaired, PTL DEF Spec
==============================================================================
