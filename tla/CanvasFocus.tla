------------------------------ MODULE CanvasFocus ------------------------------
(****************************************************************************)
(* Who gets the keys: a canvas with its overlays (internal/overlay_stack.go *)
(* and the stack of common/structures.go), their focus managers             *)
(* (internal/app/focus_manager.go) and the pop-ups that are shown on them   *)
(* (widget/popup.go), as operators on a record; WindowInput composes them   *)
(* with a window's events.                                                  *)
(*                                                                          *)
(* managers starts with the content's focus manager, so that the manager of *)
(* overlays[i] is managers[i + 1]: the code keeps the former in a field.    *)
(* There is no main menu.                                                   *)
(****************************************************************************)
EXTENDS Naturals, Sequences

CONSTANTS Objects,
          Contents,   \* what SetContent may be given
          PopUps,
          Tree,       \* Tree[r]: the objects of a content or pop-up, as walked
          Above,      \* Above[o]: what contains o, and o
          Focusable,
          None

ASSUME CanvasAssumption ==
    /\ Contents # {} /\ Contents \cap PopUps = {}
    /\ Tree \in [Contents \cup PopUps -> Seq(Objects)]
    /\ Above \in [Objects -> SUBSET Objects]
    /\ Focusable \subseteq Objects
    /\ None \notin Objects \cup Nat \cup Contents \cup PopUps

Manager(root) == [root |-> root, focused |-> None]

NewCanvas == [content |-> CHOOSE t \in Contents : TRUE,
              managers |-> <<Manager(CHOOSE t \in Contents : TRUE)>>,
              overlays |-> <<>>,
              caches |-> <<>>,  \* overlayStack.renderCaches
              open |-> {},      \* pop-ups whose overlay is not nil
              hidden |-> {},
              told |-> {}]      \* ghost: who heard FocusGained, not FocusLost

Members(root) == {Tree[root][i] : i \in DOMAIN Tree[root]}

(* Contents may share objects, of which one is set at a time; what a pop-up *)
(* shows is in no other tree.                                               *)
ASSUME TreesApart == \A r \in Contents \cup PopUps, p \in PopUps :
                       r # p => Members(r) \cap Members(p) = {}

Visible(c, o) == Above[o] \cap c.hidden = {}

InCharge(c) == Len(c.managers)
Root(c) == c.managers[InCharge(c)].root
Focused(c) == c.managers[InCharge(c)].focused

-----------------------------------------------------------------------------
(* FocusManager *)

(* Mutant of MoveFocus: the object that had the focus is told afterwards,   *)
(* of whoever has it then.                                                  *)
MoveFocusLate(c, m, o) ==
    IF c.managers[m].focused = o THEN c
    ELSE [c EXCEPT !.managers[m].focused = o, !.told = @ \ {o}]

MoveFocus(c, m, o) ==
    IF c.managers[m].focused = o THEN c
    ELSE [c EXCEPT !.managers[m].focused = o,
                   !.told = (@ \ {c.managers[m].focused}) \cup ({o} \ {None})]

(* FocusManager.Focus on an object of the tree; one that is hidden counts   *)
(* as focused and is not.                                                   *)
ManagerFocus(c, m, o) == IF o # None /\ ~Visible(c, o) THEN c ELSE MoveFocus(c, m, o)

(* nextWithWalker: what can be focused and is visible is a stop, and next   *)
(* is the first stop behind the current object, or else the first of all.   *)
NextWithWalker(c, walk) ==
    LET stops == {i \in DOMAIN walk : walk[i] \in Focusable /\ Visible(c, walk[i])}
        behind == {i \in stops : \E j \in stops : j < i /\ walk[j] = Focused(c)}
        First(is) == CHOOSE i \in is : \A j \in is : i <= j
    IN  IF stops = {} THEN None
        ELSE walk[First(IF behind = {} THEN stops ELSE behind)]

(* The reverse walk, where no Focusable holds another: it comes to what     *)
(* holds others before them, as the walk does.                              *)
Backwards(s) == [i \in DOMAIN s |-> s[Len(s) + 1 - i]]

-----------------------------------------------------------------------------
(* Canvas *)

(* The manager in charge first, then the content's and the overlays' from   *)
(* the bottom.                                                              *)
Focus(c, o) ==
    LET has == {m \in DOMAIN c.managers : o \in Members(c.managers[m].root)}
    IN  IF has = {} THEN c
        ELSE ManagerFocus(c, IF InCharge(c) \in has THEN InCharge(c)
                             ELSE CHOOSE m \in has : \A n \in has : m <= n, o)

Unfocus(c) == MoveFocus(c, InCharge(c), None)

FocusNext(c) ==
    MoveFocus(c, InCharge(c), NextWithWalker(c, Tree[Root(c)]))

FocusPrevious(c) ==
    MoveFocus(c, InCharge(c), NextWithWalker(c, Backwards(Tree[Root(c)])))

FocusGained(c) == [c EXCEPT !.told = @ \cup ({Focused(c)} \ {None})]
FocusLost(c) == [c EXCEPT !.told = @ \ {Focused(c)}]

(* A new manager, which focuses what the old one did if it is in the new    *)
(* content; nobody is told that it lost the focus.                          *)
SetContent(c, t) ==
    LET new == [c EXCEPT !.content = t, !.managers[1] = Manager(t)]
        o == c.managers[1].focused
    IN  IF o \in Members(t) THEN ManagerFocus(new, 1, o) ELSE new

-----------------------------------------------------------------------------
(* Overlays: a cache, the overlay and its manager; Remove takes what is     *)
(* above along.                                                             *)

AddOverlay(c, p) == [c EXCEPT !.caches = Append(@, p),
                              !.overlays = Append(@, p),
                              !.managers = Append(@, Manager(p))]

(* Mutant of RemoveOverlay: only one cache is dropped. *)
RemoveOverlayOne(c, p) ==
    LET is == {i \in DOMAIN c.overlays : c.overlays[i] = p}
        at == CHOOSE i \in is : \A j \in is : i <= j
    IN  IF is = {} THEN c
        ELSE [c EXCEPT !.overlays = SubSeq(@, 1, at - 1),
                       !.managers = SubSeq(@, 1, at),
                       !.caches = SubSeq(@, 1, Len(@) - 1)]

RemoveOverlay(c, p) ==
    LET is == {i \in DOMAIN c.overlays : c.overlays[i] = p}
        at == CHOOSE i \in is : \A j \in is : i <= j
    IN  IF is = {} THEN c
        ELSE [c EXCEPT !.overlays = SubSeq(@, 1, at - 1),
                       !.managers = SubSeq(@, 1, at),
                       !.caches = SubSeq(@, 1, at - 1)]

(* PopUp.Show and Hide *)
Show(c, p) == IF p \in c.open THEN c
              ELSE AddOverlay([c EXCEPT !.open = @ \cup {p}], p)
Hide(c, p) == IF p \in c.open
              THEN RemoveOverlay([c EXCEPT !.open = @ \ {p}], p) ELSE c
=============================================================================
