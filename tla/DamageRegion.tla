----------------------------- MODULE DamageRegion -----------------------------
(****************************************************************************)
(* internal/damage.go: the rectangles a frame has to repaint, at most       *)
(* MaxRects of them, merged as they are added.  Coordinates are integers    *)
(* here and float32 in the code.  Add is split where the code calls         *)
(* coalesce: one step is one turn of coalesce's outer loop.                 *)
(****************************************************************************)
EXTENDS Integers, Sequences

CONSTANTS Width, Height,  \* the bound
          MaxRects,       \* maxDamageRects
          Inputs          \* the rectangles that are added

Rect == [x1 : Int, y1 : Int, x2 : Int, y2 : Int]

ASSUME RegionAssumption == /\ Width \in Nat /\ Height \in Nat
                           /\ MaxRects \in Nat \ {0}
                           /\ Inputs \subseteq Rect

VARIABLES rects,   \* d.rects[:d.count]
          grown,   \* coalesce's i, 0 outside of coalesce
          isFull,  \* d.full
          asked    \* the pixels of all that was added since Reset

regionVars == <<rects, grown, isFull, asked>>

Lower(a, b) == IF a <= b THEN a ELSE b
Upper(a, b) == IF a >= b THEN a ELSE b

Empty(r) == r.x2 <= r.x1 \/ r.y2 <= r.y1

Box(r, s) == [x1 |-> Lower(r.x1, s.x1), y1 |-> Lower(r.y1, s.y1),
              x2 |-> Upper(r.x2, s.x2), y2 |-> Upper(r.y2, s.y2)]
Union(r, s) == IF Empty(r) THEN s ELSE IF Empty(s) THEN r ELSE Box(r, s)

Area(r) == IF Empty(r) THEN 0 ELSE (r.x2 - r.x1) * (r.y2 - r.y1)

Clamp(r) == [x1 |-> Upper(r.x1, 0), y1 |-> Upper(r.y1, 0),
             x2 |-> Lower(r.x2, Width), y2 |-> Lower(r.y2, Height)]

In(p, r) == /\ r.x1 <= p[1] /\ p[1] < r.x2
            /\ r.y1 <= p[2] /\ p[2] < r.y2
PixelsOf(r) == {p \in (0..(Width - 1)) \X (0..(Height - 1)) : In(p, r)}

Waste(r, s) == Area(Union(r, s)) - Area(r) - Area(s)
Free(r, s) == Waste(r, s) <= 0

Held == DOMAIN rects

RegionTypeOK ==
  /\ rects \in Seq(Rect) /\ Len(rects) <= MaxRects
  /\ \A i \in Held : /\ ~Empty(rects[i])
                     /\ 0 <= rects[i].x1 /\ rects[i].x2 <= Width
                     /\ 0 <= rects[i].y1 /\ rects[i].y2 <= Height
  /\ grown \in 0..Len(rects) /\ isFull \in BOOLEAN

RegionInit == rects = <<>> /\ grown = 0 /\ isFull = FALSE /\ asked = {}

Reset == /\ grown = 0
         /\ rects' = <<>> /\ isFull' = FALSE /\ asked' = {}
         /\ UNCHANGED grown

SetFull == /\ grown = 0
           /\ isFull' = TRUE
           /\ UNCHANGED <<rects, grown, asked>>

AddNothing(r) == Empty(r) /\ UNCHANGED <<rects, grown>>

(* The first rectangle that r costs nothing to join. *)
Join(r, i) == /\ ~Empty(r)
              /\ Free(rects[i], r) /\ \A j \in Held : j < i => ~Free(rects[j], r)
              /\ rects' = [rects EXCEPT ![i] = Union(@, r)]
              /\ grown' = i

AppendRect(r) == /\ ~Empty(r) /\ \A i \in Held : ~Free(rects[i], r)
                 /\ Len(rects) < MaxRects
                 /\ rects' = Append(rects, r)
                 /\ UNCHANGED grown

(* The first of those the union wastes least on. *)
JoinBest(r, i) ==
  /\ ~Empty(r) /\ \A j \in Held : ~Free(rects[j], r)
  /\ Len(rects) >= MaxRects
  /\ \A j \in Held : /\ Waste(rects[i], r) <= Waste(rects[j], r)
                     /\ j < i => Waste(rects[i], r) < Waste(rects[j], r)
  /\ rects' = [rects EXCEPT ![i] = Union(@, r)]
  /\ grown' = i

(* A region that is full takes nothing in. *)
Add(input) == /\ grown = 0 /\ ~isFull
              /\ UNCHANGED isFull
              /\ asked' = asked \cup PixelsOf(Clamp(input))
              /\ \/ AddNothing(Clamp(input)) \/ AppendRect(Clamp(input))
                 \/ \E i \in Held : \/ Join(Clamp(input), i)
                                    \/ JoinBest(Clamp(input), i)

(* Mutant of Absorb: the last rectangle is not moved to j's place. *)
AbsorbDropsLast(i, j) ==
  LET n == Len(rects)
      merged == [rects EXCEPT ![i] = Union(@, rects[j])]
  IN  /\ rects' = [k \in 1..(n - 1) |-> merged[k]]
      /\ grown' = IF i = n THEN j ELSE i

(* Mutant of Absorb: coalesce stops after one merge. *)
AbsorbOnce(i, j) ==
  LET n == Len(rects)
      merged == [rects EXCEPT ![i] = Union(@, rects[j])]
  IN  /\ rects' = [k \in 1..(n - 1) |-> IF k = j THEN merged[n] ELSE merged[k]]
      /\ grown' = 0

(* Rectangle j is taken into i, and the last one takes j's place. *)
Absorb(i, j) ==
  LET n == Len(rects)
      merged == [rects EXCEPT ![i] = Union(@, rects[j])]
  IN  /\ rects' = [k \in 1..(n - 1) |-> IF k = j THEN merged[n] ELSE merged[k]]
      /\ grown' = IF i = n THEN j ELSE i

Mergeable(i, j) == j # i /\ Free(rects[i], rects[j])

Coalesce(j) == /\ grown # 0 /\ j \in Held
               /\ Mergeable(grown, j)
               /\ \A k \in Held : k < j => ~Mergeable(grown, k)
               /\ Absorb(grown, j)
               /\ UNCHANGED <<isFull, asked>>

CoalesceEnd == /\ grown # 0
               /\ \A j \in Held : ~Mergeable(grown, j)
               /\ grown' = 0
               /\ UNCHANGED <<rects, isFull, asked>>

RegionNext == \/ Reset \/ SetFull \/ CoalesceEnd
              \/ \E input \in Inputs : Add(input)
              \/ \E j \in 1..MaxRects : Coalesce(j)

RegionSpec == RegionInit /\ [][RegionNext]_regionVars

-----------------------------------------------------------------------------
(* No pixel that was asked for is left out, whatever was merged, past the   *)
(* cap or in coalesce's shuffling of the array (damage.go 137-181).         *)
Covers == \A p \in asked : \E i \in Held : In(p, rects[i])

(* Between two calls of Add no two rectangles could be merged for free: the *)
(* frame makes no pass it could have saved (damage.go 157-181).             *)
Separate == grown = 0 => \A i, j \in Held : i # j => ~Free(rects[i], rects[j])
===============================================================================
