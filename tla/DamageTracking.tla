---------------------------- MODULE DamageTracking ----------------------------
(****************************************************************************)
(* What a frame repaints.  The canvas collects what was refreshed           *)
(* (common/canvas.go, structures.go), diffs every mounted object against    *)
(* where it last stood (common/damage.go), restores the previous frame from *)
(* the painter's snapshot and paints the damaged region over it             *)
(* (glfw/canvas.go, painter/gl/snapshot.go).                                *)
(*                                                                          *)
(* The canvas is a line of pixels.  An object covers a set of them, none    *)
(* when it is hidden or not in a tree; its number is its place in the order *)
(* of painting, and object 1 is the content's root.  What is painted on a   *)
(* pixel is the set of the objects painted there, each with its look: what  *)
(* it showed when it was painted.  The pad of paintExtent, and that objects *)
(* paint within it, are left out; so is where the clips of scrolling        *)
(* containers cut.                                                          *)
(****************************************************************************)
EXTENDS Naturals, FiniteSets

CONSTANTS Last,      \* the last object
          Sizes,     \* the sizes the canvas can have
          Areas,     \* what an object other than the root can cover
          OffLast    \* a bound: the last object in a build that is not migrated

Objects == 1..Last

ASSUME DamageAssumption ==
  /\ Last \in Nat \ {0} /\ OffLast \in Objects
  /\ Sizes \subseteq Nat \ {0} /\ Sizes # {}
  /\ {} \in Areas /\ Areas \subseteq SUBSET Nat
  /\ \A a \in Areas : \A p \in a : \A s \in Sizes : p < s

(* The padding that the root leaves free is a fifth of the canvas at most:  *)
(* the root alone is enough for a whole repaint.                            *)
ASSUME PaddingAssumption == \A s \in Sizes : s >= 5

VARIABLES migrated,        \* build.MigratedToFyneDo: Refresh is on main only
          size,            \* Canvas.size
          area, look,      \* of each object, as it is now
          dirty, damageAll,
          queue, dedup,    \* deduplicatedObjectQueue
          refreshedFrame,
          lastRects,       \* {} for an object that is not in the map
          partial,         \* fyne.PartialRepaint()
          frame,           \* where repaintWindow is
          full, region,    \* Canvas.damage
          fb, snapshot, snapshotValid,  \* fbWidth; snapshotTex
          shown,           \* what the last frame presented
          other            \* the goroutine: its step in Refresh, its object

tree == <<migrated, size, area, look>>
queues == <<queue, dedup>>
diff == <<damageAll, refreshedFrame, lastRects>>
painter == <<fb, snapshot, snapshotValid, shown>>
vars == <<tree, dirty, queues, diff, partial, frame, full, region, painter,
          other>>

Pixels == UNION {0..(s - 1) : s \in Sizes}
Looks == {0, 1}
Blank == [p \in Pixels |-> {}]
Painted == [Pixels -> SUBSET (Objects \X Looks)]

(* The root leaves the canvas's padding free. *)
RootArea(s) == 1..(s - 1)
Mounted == {o \in Objects : area[o] # {}}

TypeOK == /\ migrated \in BOOLEAN /\ size \in Sizes /\ look \in [Objects -> Looks]
          /\ area \in [Objects -> Areas \cup {RootArea(s) : s \in Sizes}]
          /\ {dirty, damageAll, partial, full, snapshotValid} \subseteq BOOLEAN
          /\ queue \subseteq Objects /\ dedup \subseteq Objects
          /\ refreshedFrame \subseteq Objects
          /\ lastRects \in [Objects -> SUBSET Pixels]
          /\ frame \in {"idle", "drain", "compute", "paint"}
          /\ region \subseteq Pixels /\ fb \in Sizes \cup {0}
          /\ snapshot \in Painted /\ shown \in Painted
          /\ other \in [at : {"idle", "in", "store", "wait"}, obj : Objects]

(* After SetContent. *)
Init == /\ migrated \in BOOLEAN
        /\ size \in Sizes
        /\ area = [o \in Objects |-> IF o = 1 THEN RootArea(size) ELSE {}]
        /\ look = [o \in Objects |-> 0]
        /\ dirty = TRUE /\ damageAll = TRUE
        /\ queue = {} /\ dedup = {} /\ refreshedFrame = {}
        /\ lastRects = [o \in Objects |-> {}]
        /\ partial = TRUE
        /\ frame = "idle" /\ full = FALSE /\ region = {}
        /\ fb = 0 /\ snapshot = Blank /\ snapshotValid = FALSE /\ shown = Blank
        /\ other = [at |-> "idle", obj |-> 1]

OnMain == frame = "idle"
Repainted(o) == look' = [look EXCEPT ![o] = 1 - @]

(* Show, Hide, Move, Resize: the dirty flag is all they set. *)
Change(o) == /\ OnMain /\ o # 1
             /\ \E a \in Areas \ {area[o]} : area' = [area EXCEPT ![o] = a]
             /\ dirty' = TRUE
             /\ UNCHANGED <<migrated, size, look, queues, diff, partial, frame, full,
                            region, painter, other>>

(* Canvas.Refresh on the main goroutine: In, SetDirty. *)
Refresh(o) == /\ OnMain
              /\ Repainted(o)
              /\ IF o \in dedup THEN UNCHANGED queues
                 ELSE queue' = queue \cup {o} /\ dedup' = dedup \cup {o}
              /\ dirty' = TRUE
              /\ UNCHANGED <<migrated, size, area, diff, partial, frame, full, region,
                             painter, other>>

(* Refresh on another goroutine: In in three steps, then SetDirty on the    *)
(* main goroutine, by EnsureMain.                                           *)
RefreshOff(o) == /\ ~migrated /\ other.at = "idle"
                 /\ Repainted(o)
                 /\ other' = [at |-> IF o \in dedup THEN "wait" ELSE "in",
                              obj |-> o]
                 /\ UNCHANGED <<migrated, size, area, dirty, queues, diff, partial, frame,
                                full, region, painter>>

QueueIn == /\ other.at = "in"
           /\ queue' = queue \cup {other.obj}
           /\ other' = [other EXCEPT !.at = "store"]
           /\ UNCHANGED <<tree, dirty, dedup, diff, partial, frame, full, region,
                          painter>>

DedupStore == /\ other.at = "store"
              /\ dedup' = dedup \cup {other.obj}
              /\ other' = [other EXCEPT !.at = "wait"]
              /\ UNCHANGED <<tree, dirty, queue, diff, partial, frame, full,
                             region, painter>>

SetDirtyOff == /\ other.at = "wait" /\ OnMain
               /\ dirty' = TRUE
               /\ other' = [other EXCEPT !.at = "idle"]
               /\ UNCHANGED <<tree, queues, diff, partial, frame, full, region,
                              painter>>

(* reloadScale: every pixel changes, and no object does. *)
ReloadScale == /\ OnMain
               /\ look' = [o \in Objects |-> 1 - look[o]]
               /\ damageAll' = TRUE /\ dirty' = TRUE
               /\ UNCHANGED <<migrated, size, area, queues, refreshedFrame, lastRects,
                              partial, frame, full, region, painter, other>>

(* The window's new size: glCanvas.Resize resizes the root. *)
Resize(s) == /\ OnMain /\ s # size
             /\ size' = s
             /\ area' = [area EXCEPT ![1] = RootArea(s)]
             /\ dirty' = TRUE
             /\ UNCHANGED <<migrated, look, queues, diff, partial, frame, full, region,
                            painter, other>>

SetPartialRepaint == /\ partial' = ~partial
                     /\ UNCHANGED <<tree, dirty, queues, diff, frame, full,
                                    region, painter, other>>

(* A frame of the loop, or one for a resized or shown window, which leaves  *)
(* the dirty flag as it is.                                                 *)
BeginFrame == /\ frame = "idle"
              /\ dirty' \in IF dirty THEN {TRUE, FALSE} ELSE {FALSE}
              /\ frame' = "drain"
              /\ UNCHANGED <<tree, queues, diff, partial, full, region, painter,
                             other>>

(* FreeDirtyTextures, one turn of its loop; Out forgets the object at once  *)
(* in a build that is not migrated.                                         *)
DrainOne(o) == /\ frame = "drain" /\ o \in queue
               /\ queue' = queue \ {o}
               /\ dedup' = IF migrated THEN dedup ELSE dedup \ {o}
               /\ refreshedFrame' = refreshedFrame \cup {o}
               /\ UNCHANGED <<tree, dirty, damageAll, lastRects, partial, frame,
                              full, region, painter, other>>

(* Mutant of DrainEnd: the queue is not drained to its end. *)
DrainSome == /\ frame = "drain"
             /\ dedup' = {}
             /\ frame' = "compute"
             /\ UNCHANGED <<tree, dirty, queue, diff, partial, full, region,
                            painter, other>>

DrainEnd == /\ frame = "drain" /\ queue = {}
            /\ dedup' = {}
            /\ frame' = "compute"
            /\ UNCHANGED <<tree, dirty, queue, diff, partial, full, region,
                           painter, other>>

(* updateGLContext. *)
SetOutputSize == /\ snapshotValid' = (snapshotValid /\ size = fb)
                 /\ fb' = size
                 /\ UNCHANGED <<snapshot, shown>>

Moved(o) == lastRects[o] # area[o]
Damage == UNION ( {lastRects[o] \cup area[o] : o \in {x \in Objects : Moved(x)}}
                  \cup {area[o] : o \in refreshedFrame} )

(* The region, which may cover more: past its cap DamageRegion merges rects *)
(* that are apart.                                                          *)
Hull(s) == {p \in Pixels : \E q, r \in s : q <= p /\ p <= r}
FullCoverage(s) == 5 * Cardinality(s) >= 4 * size

(* Mutant of ComputeDamage: where a moved object stood is not damaged. *)
ComputeNewRects ==
  /\ LET bound == 0..(size - 1)
         added == bound \cap UNION {area[o] : o \in refreshedFrame \cup
                                          {x \in Objects : Moved(x)}}
     IN  \E r \in {added, Hull(added)} :
           /\ region' = r
           /\ full' = (damageAll \/ FullCoverage(r))
  /\ damageAll' = FALSE /\ refreshedFrame' = {}
  /\ lastRects' = area

(* An object gone from the walk has an empty area: its old one is damaged.  *)
ComputeDamage ==
  /\ LET added == Damage \cap 0..(size - 1)
     IN  \E r \in {added, Hull(added)} :
           /\ region' = r
           /\ full' = (damageAll \/ FullCoverage(r))
  /\ damageAll' = FALSE /\ refreshedFrame' = {}
  /\ lastRects' = area

ResetDamage == /\ lastRects' = [o \in Objects |-> {}]
               /\ refreshedFrame' = {}
               /\ full' = TRUE
               /\ UNCHANGED <<damageAll, region>>

Compute == /\ frame = "compute"
           /\ SetOutputSize
           /\ IF partial THEN ComputeDamage ELSE ResetDamage
           /\ frame' = "paint"
           /\ UNCHANGED <<tree, dirty, queues, partial, other>>

(* paintTree over buffer b, clipped to r: r is cleared, then the objects    *)
(* are painted in order.                                                    *)
PaintTree(b, r) ==
  [p \in Pixels |-> IF p \in r THEN {<<o, look[o]>> : o \in {x \in Objects : p \in area[x]}}
                   ELSE b[p]]

Whole(s) == PaintTree(Blank, 0..(s - 1))

(* Mutant of SnapshotFrame: a partial frame is not copied back. *)
SnapshotFullOnly(r, all) ==
  /\ snapshot' = IF all THEN shown' ELSE snapshot
  /\ snapshotValid' = TRUE

(* The rest of the texture is as RestorePreviousFrame drew it. *)
SnapshotFrame(r, all) ==
  /\ snapshot' = [p \in Pixels |-> IF all \/ p \in r THEN shown'[p]
                                   ELSE snapshot[p]]
  /\ snapshotValid' = TRUE

(* glCanvas.paint after ComputeDamage, and SwapBuffers. *)
Paint == /\ frame = "paint"
         /\ LET all == full \/ ~snapshotValid
            IN  /\ shown' = IF all THEN Whole(fb)
                            ELSE PaintTree(snapshot, region)
                /\ SnapshotFrame(region, all)
         /\ frame' = "idle" /\ region' = {} /\ full' = FALSE
         /\ UNCHANGED <<tree, dirty, queues, diff, partial, fb, other>>

(* Bounds: a build that is not migrated has fewer objects, and one size. *)
Used == IF migrated THEN Objects ELSE 1..OffLast
UsedSizes == IF migrated THEN Sizes ELSE {}

Next == \/ \E o \in Used : Change(o) \/ Refresh(o) \/ RefreshOff(o) \/ DrainOne(o)
        \/ \E s \in UsedSizes : Resize(s)
        \/ QueueIn \/ DedupStore \/ SetDirtyOff
        \/ ReloadScale \/ SetPartialRepaint
        \/ BeginFrame \/ DrainEnd \/ Compute \/ Paint

Spec == Init /\ [][Next]_vars

-----------------------------------------------------------------------------
(* In a migrated build, with no frame wanted, the window shows what a       *)
(* repaint of the whole canvas would: whatever moved, appeared, vanished,   *)
(* changed or was resized since, the diff has damaged the right pixels, and *)
(* what it left alone was right already (damage.go 12-16).                  *)
NothingStale == migrated /\ frame = "idle" /\ ~dirty => shown = Whole(size)

(* The snapshot is the frame on the screen, so that drawing it back is the  *)
(* same as not having cleared anything (snapshot.go 10-19).                 *)
SnapshotIsShown == frame = "idle" /\ snapshotValid => snapshot = shown

(* A wanted frame is not forgotten: what waits in the refresh queue is      *)
(* announced by the dirty flag or about to be.                              *)
RefreshAnnounced == queue # {} =>
                      dirty \/ frame = "drain" \/ other.at # "idle"
===============================================================================
