---------------------------- MODULE Damage_proofs ----------------------------
(****************************************************************************)
(* Theorems about the damage of a canvas.                                   *)
(*                                                                          *)
(* DamageRegion, for every bound, every cap and every set of rectangles:    *)
(* the region keeps to its type and its cap, covers what was added to it,   *)
(* and holds no two rectangles that merge for free.                         *)
(*                                                                          *)
(* DamageTracking, for every number of objects, every set of areas and      *)
(* every size of the canvas: what a frame repaints is all that is stale.    *)
(****************************************************************************)
EXTENDS DamageRegion, DamageTracking, FiniteSetTheorems, TLAPS

-----------------------------------------------------------------------------
(* The region *)

(* A rectangle that is held: within the bound and not empty. *)
Good == {r \in Rect : /\ ~Empty(r)
                      /\ 0 <= r.x1 /\ r.x2 <= Width
                      /\ 0 <= r.y1 /\ r.y2 <= Height}

(* Clamp cuts a rectangle down to the bound (damage.go 52-59). *)
LEMMA ClampGood == ASSUME NEW r \in Rect, ~Empty(Clamp(r))
                   PROVE  Clamp(r) \in Good
BY RegionAssumption DEF Clamp, Good, Rect, Empty, Lower, Upper

(* The union of two rectangles that are held can be held (damage.go 28-41). *)
LEMMA UnionGood == ASSUME NEW r \in Good, NEW s \in Good
                   PROVE  Union(r, s) \in Good /\ Union(r, s) = Box(r, s)
<1>1. Union(r, s) = Box(r, s)
  BY DEF Union, Good
<1>2. Box(r, s) \in Good
  BY RegionAssumption DEF Box, Good, Rect, Empty, Lower, Upper
<1>. QED
  BY <1>1, <1>2

(* A union covers the pixels of both its parts. *)
LEMMA UnionCovers == ASSUME NEW r \in Good, NEW s \in Good,
                            NEW p \in Int \X Int, In(p, r) \/ In(p, s)
                     PROVE  In(p, Union(r, s))
<1>1. p[1] \in Int /\ p[2] \in Int
  OBVIOUS
<1>2. r \in Rect /\ s \in Rect
  BY DEF Good
<1>3. In(p, Box(r, s))
  BY <1>1, <1>2 DEF In, Box, Rect, Lower, Upper
<1>. QED
  BY <1>3, UnionGood

(* Which of the two is asked to take the other in makes no difference to    *)
(* what the merge costs.                                                    *)
LEMMA FreeSymmetric == ASSUME NEW r \in Good, NEW s \in Good, Free(r, s)
                       PROVE  Free(s, r)
<1>1. r \in Rect /\ s \in Rect
  BY DEF Good
<1>2. Box(r, s) = Box(s, r)
  BY <1>1 DEF Box, Rect, Lower, Upper
<1>3. Union(r, s) = Union(s, r) /\ Union(r, s) \in Rect
  BY <1>2, UnionGood DEF Good
<1>4. \A q \in Rect : Area(q) \in Int
  BY DEF Area, Rect
<1>. QED
  BY <1>1, <1>3, <1>4 DEF Free, Waste

-----------------------------------------------------------------------------
Typed == /\ rects \in Seq(Good) /\ Len(rects) <= MaxRects
         /\ grown \in 0..Len(rects) /\ isFull \in BOOLEAN
         /\ asked \subseteq Int \X Int

(* In coalesce only the rectangle that has grown may still be merged. *)
Apart == \A i, j \in Held :
           i # j /\ i # grown /\ j # grown => ~Free(rects[i], rects[j])

IInv == Typed /\ Covers /\ Apart

LEMMA InitIInv == RegionInit => IInv
<1>. SUFFICES ASSUME RegionInit PROVE IInv
  OBVIOUS
<1>1. rects = <<>> /\ grown = 0 /\ isFull = FALSE /\ asked = {}
  BY DEF RegionInit
<1>2. rects \in Seq(Good) /\ Len(rects) = 0 /\ DOMAIN rects = {}
  BY <1>1
<1>3. Len(rects) <= MaxRects /\ grown \in 0..Len(rects)
  BY <1>1, <1>2, RegionAssumption
<1>4. Typed
  BY <1>1, <1>2, <1>3 DEF Typed
<1>. QED
  BY <1>1, <1>2, <1>4 DEF IInv, Covers, Apart, Held

(* Add's first loop, and its last: the union replaces one rectangle. *)
LEMMA Grows ==
  ASSUME IInv, NEW r \in Good, NEW i \in Held, grown = 0,
         rects' = [rects EXCEPT ![i] = Union(@, r)], grown' = i,
         isFull' \in BOOLEAN, NEW new \in SUBSET (Int \X Int),
         \A p \in new : In(p, r), asked' = asked \cup new
  PROVE  IInv'
<1>. USE DEF Held
<1>1. rects \in Seq(Good) /\ rects[i] \in Good
  BY DEF IInv, Typed
<1>2. Union(rects[i], r) \in Good
  BY <1>1, UnionGood
<1>3. /\ rects' \in Seq(Good) /\ Len(rects') = Len(rects)
      /\ DOMAIN rects' = DOMAIN rects
      /\ rects'[i] = Union(rects[i], r)
      /\ \A k \in DOMAIN rects : k # i => rects'[k] = rects[k]
  BY <1>1, <1>2
<1>4. Typed'
  BY <1>3 DEF IInv, Typed
<1>5. Covers'
  <2>1. SUFFICES ASSUME NEW p \in asked \cup new
                 PROVE  \E k \in DOMAIN rects : In(p, rects'[k])
    BY <1>3 DEF Covers
  <2>2. p \in Int \X Int
    BY DEF IInv, Typed
  <2>3. CASE In(p, r) \/ In(p, rects[i])
    BY <2>2, <2>3, <1>1, <1>3, UnionCovers
  <2>4. CASE ~In(p, r) /\ ~In(p, rects[i])
    BY <2>4, <1>3 DEF IInv, Covers
  <2>. QED
    BY <2>3, <2>4
<1>6. Apart'
  BY <1>3 DEF IInv, Apart
<1>. QED
  BY <1>4, <1>5, <1>6 DEF IInv

(* Below the cap: the rectangle becomes one of those held. *)
LEMMA Appends ==
  ASSUME IInv, NEW r \in Good, AppendRect(r), grown = 0, isFull' = isFull,
         NEW new \in SUBSET (Int \X Int),
         \A p \in new : In(p, r), asked' = asked \cup new
  PROVE  IInv'
<1>. USE DEF Held
<1>1. rects \in Seq(Good) /\ rects' = Append(rects, r) /\ grown' = 0
  BY DEF IInv, Typed, AppendRect
<1>. DEFINE n == Len(rects) + 1
<1>2. /\ rects' \in Seq(Good) /\ Len(rects') = n /\ DOMAIN rects' = 1..n
      /\ rects'[n] = r /\ \A k \in DOMAIN rects : rects'[k] = rects[k]
      /\ n \in Nat \ {0} /\ DOMAIN rects = 1..(n - 1)
  BY <1>1
<1>. HIDE DEF n
<1>3. Typed'
  <2>1. n <= MaxRects
    BY RegionAssumption, <1>2 DEF IInv, Typed, AppendRect, n
  <2>. QED
    BY <1>1, <1>2, <2>1 DEF IInv, Typed
<1>4. Covers'
  <2>1. SUFFICES ASSUME NEW p \in asked \cup new
                 PROVE  \E k \in 1..n : In(p, rects'[k])
    BY <1>2 DEF Covers
  <2>2. CASE p \in new
    <3>1. In(p, rects'[n]) /\ n \in 1..n
      BY <1>2, <2>2
    <3>. QED
      BY <3>1
  <2>3. CASE p \in asked
    <3>1. PICK k \in 1..(n - 1) : In(p, rects[k])
      BY <1>2, <2>3 DEF IInv, Covers
    <3>2. k \in 1..n /\ In(p, rects'[k])
      BY <1>2, <3>1
    <3>. QED
      BY <3>2
  <2>. QED
    BY <2>2, <2>3
<1>5. Apart'
  <2>1. SUFFICES ASSUME NEW i \in 1..n, NEW j \in 1..n, i # j,
                        Free(rects'[i], rects'[j])
                 PROVE  FALSE
    BY <1>2 DEF Apart
  <2>2. rects'[i] \in Good /\ rects'[j] \in Good
    BY <1>2
  <2>3. \A k \in DOMAIN rects : ~Free(rects[k], r)
    BY DEF AppendRect
  <2>4. CASE i # n /\ j # n
    <3>1. i \in DOMAIN rects /\ j \in DOMAIN rects
      BY <1>2, <2>4
    <3>. QED
      BY <1>1, <1>2, <2>1, <3>1 DEF IInv, Apart
  <2>5. CASE j = n
    BY <1>2, <2>1, <2>3, <2>5
  <2>6. CASE i = n
    <3>1. Free(rects'[j], rects'[i])
      BY <2>1, <2>2, FreeSymmetric
    <3>. QED
      BY <1>2, <2>1, <2>3, <2>6, <3>1
  <2>. QED
    BY <2>4, <2>5, <2>6
<1>. QED
  BY <1>3, <1>4, <1>5 DEF IInv

LEMMA AddKeeps == ASSUME IInv, NEW input \in Inputs, Add(input)
                  PROVE  IInv'
<1>. DEFINE r == Clamp(input)
            new == PixelsOf(r)
<1>1. /\ grown = 0 /\ isFull' = isFull /\ isFull' \in BOOLEAN
      /\ asked' = asked \cup new
  BY DEF Add, IInv, Typed
<1>2. new \in SUBSET (Int \X Int) /\ \A p \in new : In(p, r)
  BY RegionAssumption DEF PixelsOf
<1>3. CASE AddNothing(r)
  <2>1. input \in Rect
    BY RegionAssumption
  <2>2. r.x1 \in Int /\ r.x2 \in Int /\ r.y1 \in Int /\ r.y2 \in Int
    BY <2>1, RegionAssumption DEF Rect, Clamp, Lower, Upper
  <2>. HIDE DEF r
  <2>3. \A p \in Int \X Int : ~In(p, r)
    BY <1>3, <2>2 DEF AddNothing, Empty, In
  <2>4. asked' = asked
    BY <1>1, <1>2, <2>3
  <2>. QED
    BY <1>1, <1>3, <2>4 DEF AddNothing, IInv, Typed, Covers, Apart, Held
<1>4. ASSUME ~Empty(r) PROVE r \in Good
  BY <1>4, ClampGood, RegionAssumption
<1>. HIDE DEF r, new
<1>5. CASE AppendRect(r)
  BY <1>1, <1>2, <1>4, <1>5, Appends DEF AppendRect
<1>6. ASSUME NEW i \in Held, Join(r, i) \/ JoinBest(r, i)
      PROVE  IInv'
  <2>1. /\ ~Empty(r) /\ grown' = i
        /\ rects' = [rects EXCEPT ![i] = Union(@, r)]
    BY <1>6 DEF Join, JoinBest
  <2>. QED
    BY <1>1, <1>2, <1>4, <2>1, Grows
<1>. QED
  BY <1>3, <1>5, <1>6 DEF Add, r

(* coalesce: what j held is in i, what n held is in j's place. *)
LEMMA CoalesceKeeps == ASSUME IInv, NEW j \in 1..MaxRects, Coalesce(j)
                       PROVE  IInv'
<1>. USE DEF Held
<1>. DEFINE n == Len(rects)
            i == grown
            u == Union(rects[i], rects[j])
<1>1. /\ rects \in Seq(Good) /\ n \in Nat /\ DOMAIN rects = 1..n
      /\ i \in 1..n /\ j \in 1..n /\ i # j /\ n - 1 \in Nat
      /\ asked' = asked /\ isFull' = isFull
  BY DEF IInv, Typed, Coalesce, Mergeable
<1>2. rects[i] \in Good /\ rects[j] \in Good /\ u \in Good
  BY <1>1, UnionGood
<1>3. \A k \in 1..n : [rects EXCEPT ![i] = Union(@, rects[j])][k]
                        = IF k = i THEN u ELSE rects[k]
  BY <1>1
<1>. DEFINE from(k) == IF k = j THEN n ELSE k
<1>. HIDE DEF u
<1>4. rects' = [k \in 1..(n - 1) |->
                  IF from(k) = i THEN u ELSE rects[from(k)]]
  <2>1. rects' = [k \in 1..(n - 1) |->
           IF k = j THEN [rects EXCEPT ![i] = Union(@, rects[j])][n]
                    ELSE [rects EXCEPT ![i] = Union(@, rects[j])][k]]
    BY DEF Coalesce, Absorb
  <2>2. ASSUME NEW k \in 1..(n - 1)
        PROVE  (IF k = j THEN [rects EXCEPT ![i] = Union(@, rects[j])][n]
                         ELSE [rects EXCEPT ![i] = Union(@, rects[j])][k])
                 = IF from(k) = i THEN u ELSE rects[from(k)]
    <3>1. k \in 1..n /\ n \in 1..n
      BY <1>1
    <3>2. CASE k = j
      BY <1>3, <3>1, <3>2
    <3>3. CASE k # j
      BY <1>3, <3>1, <3>3
    <3>. QED
      BY <3>2, <3>3
  <2>. HIDE DEF i, n, from
  <2>. QED
    BY <2>1, <2>2, Zenon
<1>5. grown' = IF i = n THEN j ELSE i
  BY DEF Coalesce, Absorb
<1>. HIDE DEF n, i
<1>6. /\ grown' \in 1..(n - 1) /\ from(grown') = i
      /\ \A k \in 1..(n - 1) : from(k) \in 1..n /\ from(k) # j
      /\ \A k, l \in 1..(n - 1) : from(k) = from(l) => k = l
      /\ \A m \in 1..n : m # j => \E k \in 1..(n - 1) : from(k) = m
  <2>1. grown' \in 1..(n - 1) /\ from(grown') = i
    BY <1>1, <1>5
  <2>2. \A k \in 1..(n - 1) : from(k) \in 1..n /\ from(k) # j
    BY <1>1
  <2>3. \A k, l \in 1..(n - 1) : from(k) = from(l) => k = l
    BY <1>1
  <2>4. ASSUME NEW m \in 1..n, m # j
        PROVE  \E k \in 1..(n - 1) : from(k) = m
    <3>1. CASE m = n
      <4>1. j \in 1..(n - 1) /\ from(j) = m
        BY <1>1, <2>4, <3>1
      <4>. QED
        BY <4>1
    <3>2. CASE m # n
      <4>1. m \in 1..(n - 1) /\ from(m) = m
        BY <1>1, <2>4, <3>2
      <4>. QED
        BY <4>1
    <3>. QED
      BY <3>1, <3>2
  <2>. QED
    BY <2>1, <2>2, <2>3, <2>4
<1>. HIDE DEF from
<1>7. Typed'
  <2>1. rects' \in [1..(n - 1) -> Good]
    BY <1>1, <1>2, <1>4, <1>6
  <2>2. rects' \in Seq(Good) /\ Len(rects') = n - 1
    BY <1>1, <1>4, <2>1
  <2>3. n - 1 <= MaxRects
    BY <1>1, RegionAssumption DEF IInv, Typed, n
  <2>. QED
    BY <1>1, <1>6, <2>2, <2>3 DEF IInv, Typed
<1>8. Covers'
  <2>1. SUFFICES ASSUME NEW p \in asked
                 PROVE  \E k \in 1..(n - 1) : In(p, rects'[k])
    BY <1>1, <1>4 DEF Covers
  <2>2. PICK m \in 1..n : In(p, rects[m])
    BY <1>1 DEF IInv, Covers
  <2>3. p \in Int \X Int
    BY DEF IInv, Typed
  <2>4. CASE m = i \/ m = j
    <3>1. In(p, u)
      BY <1>2, <2>2, <2>3, <2>4, UnionCovers DEF u
    <3>. QED
      BY <1>4, <1>6, <3>1
  <2>5. CASE m # i /\ m # j
    BY <1>4, <1>6, <2>2, <2>5
  <2>. QED
    BY <2>4, <2>5
<1>9. Apart'
  <2>1. SUFFICES ASSUME NEW k \in 1..(n - 1), NEW l \in 1..(n - 1), k # l,
                        k # grown', l # grown'
                 PROVE  ~Free(rects'[k], rects'[l])
    BY <1>4 DEF Apart
  <2>2. /\ from(k) # i /\ from(l) # i /\ from(k) # from(l)
        /\ from(k) \in 1..n /\ from(l) \in 1..n
    BY <1>6, <2>1
  <2>3. rects'[k] = rects[from(k)] /\ rects'[l] = rects[from(l)]
    BY <1>4, <2>2
  <2>. QED
    BY <1>1, <2>2, <2>3 DEF IInv, Apart, i
<1>. QED
  BY <1>7, <1>8, <1>9 DEF IInv

LEMMA CoalesceEndKeeps == ASSUME IInv, CoalesceEnd
                          PROVE  IInv'
<1>. USE DEF Held
<1>1. rects' = rects /\ isFull' = isFull /\ asked' = asked /\ grown' = 0
  BY DEF CoalesceEnd
<1>2. Typed'
  BY <1>1 DEF IInv, Typed
<1>3. Covers'
  BY <1>1 DEF IInv, Covers
<1>4. Apart'
  <2>1. SUFFICES ASSUME NEW i \in DOMAIN rects, NEW j \in DOMAIN rects,
                        i # j, Free(rects[i], rects[j])
                 PROVE  FALSE
    BY <1>1 DEF Apart
  <2>2. rects[i] \in Good /\ rects[j] \in Good
    BY DEF IInv, Typed
  <2>3. Free(rects[j], rects[i])
    BY <2>1, <2>2, FreeSymmetric
  <2>. QED
    BY <2>1, <2>3 DEF CoalesceEnd, Mergeable, IInv, Apart
<1>. QED
  BY <1>2, <1>3, <1>4 DEF IInv

LEMMA StepKeeps == IInv /\ [RegionNext]_regionVars => IInv'
<1>. SUFFICES ASSUME IInv, [RegionNext]_regionVars PROVE IInv'
  OBVIOUS
<1>1. CASE Reset
  <2>1. rects' = <<>> /\ grown' = 0 /\ isFull' = FALSE /\ asked' = {}
    BY <1>1 DEF Reset
  <2>2. rects' \in Seq(Good) /\ Len(rects') = 0 /\ DOMAIN rects' = {}
    BY <2>1
  <2>3. (Len(rects) <= MaxRects)' /\ (grown \in 0..Len(rects))'
    BY <2>1, <2>2, RegionAssumption
  <2>4. Typed'
    BY <2>1, <2>2, <2>3 DEF Typed
  <2>. QED
    BY <2>1, <2>2, <2>4 DEF IInv, Covers, Apart, Held
<1>2. CASE SetFull
  BY <1>2 DEF SetFull, IInv, Typed, Covers, Apart, Held
<1>3. CASE CoalesceEnd
  BY <1>3, CoalesceEndKeeps
<1>4. ASSUME NEW input \in Inputs, Add(input) PROVE IInv'
  BY <1>4, AddKeeps
<1>5. ASSUME NEW j \in 1..MaxRects, Coalesce(j) PROVE IInv'
  BY <1>5, CoalesceKeeps
<1>6. CASE UNCHANGED regionVars
  BY <1>6 DEF regionVars, IInv, Typed, Covers, Apart, Held
<1>. QED
  BY <1>1, <1>2, <1>3, <1>4, <1>5, <1>6 DEF RegionNext

LEMMA Inductive == RegionSpec => []IInv
BY InitIInv, StepKeeps, PTL DEF RegionSpec

(* The region keeps to the cap and its rectangles to the bound, whatever is *)
(* added and in whatever order it is merged (damage.go 120-181).            *)
THEOREM RegionTypeCorrect == RegionSpec => []RegionTypeOK
<1>1. IInv => RegionTypeOK
  <2>. SUFFICES ASSUME IInv PROVE RegionTypeOK
    OBVIOUS
  <2>1. \A i \in Held : rects[i] \in Good
    BY DEF IInv, Typed, Held
  <2>2. rects \in Seq(Rect)
    BY DEF IInv, Typed, Good
  <2>. QED
    BY <2>1, <2>2 DEF RegionTypeOK, IInv, Typed, Good
<1>. QED
  BY <1>1, Inductive, PTL

(* No pixel that was asked for is ever left out, whatever was merged, past  *)
(* the cap or by coalesce's moves in the array (damage.go 129-181).         *)
THEOREM RegionCovers == RegionSpec => []Covers
<1>1. IInv => Covers
  BY DEF IInv
<1>. QED
  BY <1>1, Inductive, PTL

(* When Add returns, coalesce has left no two rectangles that would merge   *)
(* for free: one pass of it over the grown rectangle is enough, for none of *)
(* the others can have become mergeable (damage.go 158-181).                *)
THEOREM RegionSeparate == RegionSpec => []Separate
<1>1. IInv => Separate
  BY DEF IInv, Typed, Apart, Separate, Held
<1>. QED
  BY <1>1, Inductive, PTL

-----------------------------------------------------------------------------
(* The tracking and painting of a canvas *)

LEMMA Bounds ==
  /\ 1 \in Objects /\ Sizes # {} /\ Sizes \subseteq Nat
  /\ \A s \in Sizes : s >= 5 /\ 0..(s - 1) \subseteq Pixels
  /\ \A a \in Areas : a \subseteq Pixels /\ \A s \in Sizes : a \subseteq 0..(s - 1)
  /\ \A s \in Sizes : RootArea(s) \subseteq 0..(s - 1)
  /\ Pixels \subseteq Nat
  /\ Used \subseteq Objects /\ UsedSizes \subseteq Sizes
<1>1. /\ 1 \in Objects /\ Sizes # {} /\ Sizes \subseteq Nat
      /\ \A s \in Sizes : s >= 5
  BY DamageAssumption, PaddingAssumption DEF Objects
<1>2. \A s \in Sizes : 0..(s - 1) \subseteq Pixels
  BY DEF Pixels
<1>3. \A a \in Areas : \A s \in Sizes : a \subseteq 0..(s - 1)
  BY <1>1, DamageAssumption
<1>4. \A s \in Sizes : RootArea(s) \subseteq 0..(s - 1)
  BY <1>1 DEF RootArea
<1>5. Pixels \subseteq Nat
  BY <1>1 DEF Pixels
<1>6. Used \subseteq Objects /\ UsedSizes \subseteq Sizes
  BY DamageAssumption DEF Used, UsedSizes, Objects
<1> QED BY <1>1, <1>2, <1>3, <1>4, <1>5, <1>6

LEMMA AreaTyped == TypeOK => area \in [Objects -> SUBSET Pixels]
<1> SUFFICES ASSUME TypeOK, NEW o \in Objects PROVE area[o] \subseteq Pixels
  BY DEF TypeOK
<1>1. CASE area[o] \in Areas
  BY <1>1, Bounds
<1>2. ASSUME NEW s \in Sizes, area[o] = RootArea(s) PROVE area[o] \subseteq Pixels
  BY <1>2, Bounds
<1> QED BY <1>1, <1>2 DEF TypeOK

LEMMA PaintTyped ==
  ASSUME TypeOK, NEW b \in Painted, NEW r \in SUBSET Pixels
  PROVE  PaintTree(b, r) \in Painted
BY DEF PaintTree, Painted, TypeOK

LEMMA BlankTyped == Blank \in Painted
BY DEF Blank, Painted

LEMMA TypeKeeps == TypeOK /\ [Next]_vars => TypeOK'
<1> SUFFICES ASSUME TypeOK, [Next]_vars PROVE TypeOK'
  OBVIOUS
<1> USE Bounds DEF TypeOK, tree, queues, diff, painter
<1>1. ASSUME NEW o \in Objects, Change(o) PROVE TypeOK'
  BY <1>1 DEF Change
<1>2. ASSUME NEW o \in Objects, Refresh(o) PROVE TypeOK'
  BY <1>2 DEF Refresh, Repainted, Looks
<1>3. ASSUME NEW o \in Objects, RefreshOff(o) PROVE TypeOK'
  BY <1>3 DEF RefreshOff, Repainted, Looks
<1>4. ASSUME NEW o \in Objects, DrainOne(o) PROVE TypeOK'
  BY <1>4 DEF DrainOne
<1>5. ASSUME NEW s \in Sizes, Resize(s) PROVE TypeOK'
  BY <1>5 DEF Resize
<1>6. CASE QueueIn \/ DedupStore \/ SetDirtyOff
  BY <1>6 DEF QueueIn, DedupStore, SetDirtyOff
<1>7. CASE ReloadScale
  BY <1>7 DEF ReloadScale, Looks
<1>8. CASE SetPartialRepaint \/ BeginFrame \/ DrainEnd
  BY <1>8 DEF SetPartialRepaint, BeginFrame, DrainEnd
<1>9. CASE Compute
  <2>1. /\ lastRects' \in [Objects -> SUBSET Pixels] /\ region' \subseteq Pixels
        /\ refreshedFrame' = {} /\ {full', damageAll'} \subseteq BOOLEAN
    <3>1. CASE partial
      <4>1. PICK r \in {Damage \cap 0..(size - 1), Hull(Damage \cap 0..(size - 1))} :
               /\ region' = r
               /\ full' = (damageAll \/ FullCoverage(r))
        BY <1>9, <3>1 DEF Compute, ComputeDamage
      <4>2. r \subseteq Pixels /\ full' \in BOOLEAN
        BY <4>1 DEF Hull, FullCoverage
      <4> QED BY <1>9, <3>1, <4>1, <4>2, AreaTyped DEF Compute, ComputeDamage
    <3>2. CASE ~partial
      BY <1>9, <3>2 DEF Compute, ResetDamage
    <3> QED BY <3>1, <3>2
  <2> QED BY <1>9, <2>1 DEF Compute, SetOutputSize
<1>10. CASE Paint
  <2>1. Whole(fb) \in Painted /\ PaintTree(snapshot, region) \in Painted
    <3>1. 0..(fb - 1) \subseteq Pixels
      BY DEF Pixels
    <3> QED BY <3>1, PaintTyped, BlankTyped DEF Whole
  <2>2. shown' \in Painted
    BY <1>10, <2>1 DEF Paint
  <2>3. snapshot' \in Painted /\ snapshotValid' = TRUE
    BY <1>10, <2>2 DEF Paint, SnapshotFrame, Painted
  <2> QED BY <1>10, <2>2, <2>3 DEF Paint
<1>11. CASE UNCHANGED vars
  BY <1>11 DEF vars
<1> QED
  <2>1. CASE \E o \in Used : Change(o) \/ Refresh(o) \/ RefreshOff(o) \/ DrainOne(o)
    BY <2>1, <1>1, <1>2, <1>3, <1>4
  <2>2. CASE \E s \in UsedSizes : Resize(s)
    BY <2>2, <1>5
  <2> HIDE DEF TypeOK
  <2> QED BY <2>1, <2>2, <1>6, <1>7, <1>8, <1>9, <1>10, <1>11 DEF Next

(* The snapshot is the last frame, and empty beyond its size. *)
SnapInv == /\ snapshotValid => snapshot = shown
           /\ snapshotValid => \A p \in Pixels : p >= fb => shown[p] = {}

(* Where a frame is, and what the queues hold then. *)
FrameInv == /\ frame # "paint" => region = {}
            /\ frame \in {"idle", "paint"} => refreshedFrame = {}
            /\ area[1] = RootArea(size)
            /\ migrated => other.at = "idle"
            /\ migrated /\ frame # "drain" => dedup = queue
            /\ migrated /\ frame \in {"compute", "paint"} => queue = {}

(* What a pixel shows is what stood there when the rects of the diff were   *)
(* taken, with the looks of now but for what waits to be repainted.         *)
Pending == queue \cup refreshedFrame
AsLastPainted(p) ==
  /\ \A o \in Objects, l \in Looks : <<o, l>> \in shown[p] =>
                                         p \in lastRects[o] /\ (o \in Pending \/ l = look[o])
  /\ \A o \in Objects \ Pending : p \in lastRects[o] => <<o, look[o]>> \in shown[p]

Untracked == lastRects = [o \in Objects |-> {}]

DiffInv == migrated /\ frame # "paint" /\ snapshotValid /\ ~damageAll =>
             Untracked \/ \A p \in Pixels : p < fb => AsLastPainted(p)

Now(p) == {<<o, look[o]>> : o \in {x \in Objects : p \in area[x]}}

PaintInv == frame = "paint" =>
              /\ fb = size /\ region \subseteq 0..(size - 1)
              /\ lastRects = area \/ Untracked
              /\ migrated /\ ~full /\ snapshotValid =>
                   \A p \in (0..(size - 1)) \ region : snapshot[p] = Now(p)

DamageInv == SnapInv /\ FrameInv /\ DiffInv /\ PaintInv /\ NothingStale

LEMMA PaintAt ==
  ASSUME NEW p \in Pixels
  PROVE  /\ \A b, r : PaintTree(b, r)[p] = IF p \in r THEN Now(p) ELSE b[p]
         /\ \A s : Whole(s)[p] = IF p \in 0..(s - 1) THEN Now(p) ELSE {}
<1>1. \A b, r : PaintTree(b, r)[p] = IF p \in r THEN Now(p) ELSE b[p]
  BY DEF PaintTree, Now
<1>2. Blank[p] = {}
  BY DEF Blank
<1> QED BY <1>1, <1>2 DEF Whole

(* Every step of the frame that is neither ComputeDamage nor Paint. *)
Aside == \/ \E o \in Objects : Change(o) \/ Refresh(o) \/ RefreshOff(o) \/ DrainOne(o)
         \/ \E s \in Sizes : Resize(s)
         \/ QueueIn \/ DedupStore \/ SetDirtyOff
         \/ ReloadScale \/ SetPartialRepaint \/ BeginFrame \/ DrainEnd
         \/ UNCHANGED vars

LEMMA Steps == [Next]_vars => Aside \/ Compute \/ Paint
BY Bounds DEF Next, Aside

LEMMA AsideKeeps ==
  Aside => /\ UNCHANGED <<fb, snapshot, snapshotValid, shown, lastRects, region, full>>
           /\ (frame # "paint" /\ frame' # "paint") \/ UNCHANGED frame
<1> SUFFICES ASSUME Aside
             PROVE  /\ UNCHANGED <<fb, snapshot, snapshotValid, shown, lastRects,
                                   region, full>>
                    /\ (frame # "paint" /\ frame' # "paint") \/ UNCHANGED frame
  OBVIOUS
<1> USE DEF tree, queues, diff, painter
<1>1. ASSUME NEW o \in Objects, Change(o) \/ Refresh(o) \/ RefreshOff(o) \/ DrainOne(o)
      PROVE  /\ UNCHANGED <<fb, snapshot, snapshotValid, shown, lastRects, region, full>>
             /\ UNCHANGED frame
  BY <1>1 DEF Change, Refresh, RefreshOff, DrainOne
<1>2. ASSUME NEW s \in Sizes, Resize(s)
      PROVE  /\ UNCHANGED <<fb, snapshot, snapshotValid, shown, lastRects, region, full>>
             /\ UNCHANGED frame
  BY <1>2 DEF Resize
<1>3. CASE QueueIn \/ DedupStore \/ SetDirtyOff \/ ReloadScale \/ SetPartialRepaint
  BY <1>3 DEF QueueIn, DedupStore, SetDirtyOff, ReloadScale, SetPartialRepaint
<1>4. CASE BeginFrame \/ DrainEnd
  BY <1>4 DEF BeginFrame, DrainEnd
<1>5. CASE UNCHANGED vars
  BY <1>5 DEF vars
<1> QED BY <1>1, <1>2, <1>3, <1>4, <1>5 DEF Aside

LEMMA SnapKeeps ==
  TypeOK /\ SnapInv /\ FrameInv /\ PaintInv /\ [Next]_vars => SnapInv'
<1> SUFFICES ASSUME TypeOK, SnapInv, FrameInv, PaintInv, [Next]_vars PROVE SnapInv'
  OBVIOUS
<1>1. CASE Aside
  BY <1>1, AsideKeeps DEF SnapInv
<1>2. CASE Compute
  BY <1>2 DEF Compute, SetOutputSize, SnapInv
<1>3. CASE Paint
  <2> USE DEF SnapInv
  <2> DEFINE all == full \/ ~snapshotValid
  <2>1. Whole(fb) \in Painted /\ PaintTree(snapshot, region) \in Painted
    <3>1. 0..(fb - 1) \subseteq Pixels
      BY Bounds DEF Pixels, TypeOK
    <3> QED BY <3>1, PaintTyped, BlankTyped DEF Whole, TypeOK
  <2>2. shown' \in Painted
    BY <1>3, <2>1 DEF Paint
  <2>3. snapshot' = [p \in Pixels |-> IF all \/ p \in region THEN shown'[p] ELSE snapshot[p]]
    BY <1>3 DEF Paint, SnapshotFrame
  <2>4. \A p \in Pixels : ~all /\ p \notin region => shown'[p] = snapshot[p]
    BY <1>3, PaintAt DEF Paint
  <2>5. snapshot' = shown'
    BY <2>2, <2>3, <2>4 DEF Painted
  <2>6. ASSUME NEW p \in Pixels, p >= fb PROVE shown'[p] = {}
    <3>1. p \notin 0..(fb - 1)
      BY <2>6, Bounds DEF TypeOK
    <3>2. CASE all
      BY <1>3, <3>1, <3>2, PaintAt DEF Paint
    <3>3. CASE ~all
      <4>1. p \notin region
        BY <1>3, <3>1 DEF Paint, PaintInv
      <4> QED BY <1>3, <2>6, <3>3, <4>1, PaintAt DEF Paint
    <3> QED BY <3>2, <3>3
  <2>7. UNCHANGED fb
    BY <1>3 DEF Paint
  <2> QED BY <2>5, <2>6, <2>7
<1> QED BY <1>1, <1>2, <1>3, Steps

LEMMA FrameKeeps == TypeOK /\ FrameInv /\ [Next]_vars => FrameInv'
<1> SUFFICES ASSUME TypeOK, FrameInv, [Next]_vars PROVE FrameInv'
  OBVIOUS
<1> USE DEF FrameInv, tree, queues, diff, painter
<1>1. ASSUME NEW o \in Objects, Change(o) PROVE FrameInv'
  BY <1>1 DEF Change, TypeOK
<1>2. ASSUME NEW o \in Objects, Refresh(o) PROVE FrameInv'
  BY <1>2 DEF Refresh, OnMain
<1>3. ASSUME NEW o \in Objects, RefreshOff(o) \/ DrainOne(o) PROVE FrameInv'
  BY <1>3 DEF RefreshOff, DrainOne
<1>4. ASSUME NEW s \in Sizes, Resize(s) PROVE FrameInv'
  BY <1>4, Bounds DEF Resize, TypeOK
<1>5. CASE QueueIn \/ DedupStore \/ SetDirtyOff \/ ReloadScale \/ SetPartialRepaint
  BY <1>5 DEF QueueIn, DedupStore, SetDirtyOff, ReloadScale, SetPartialRepaint
<1>6. CASE BeginFrame
  BY <1>6 DEF BeginFrame
<1>10. CASE DrainEnd
  BY <1>10 DEF DrainEnd
<1>7. CASE Compute
  BY <1>7 DEF Compute, ComputeDamage, ResetDamage, SetOutputSize
<1>8. CASE Paint
  BY <1>8 DEF Paint
<1>9. CASE UNCHANGED vars
  BY <1>9 DEF vars
<1> QED BY <1>1, <1>2, <1>3, <1>4, <1>5, <1>6, <1>7, <1>8, <1>9, <1>10, Steps
  DEF Aside

(* In a migrated build what a frame shows is what a whole repaint would.    *)
LEMMA PaintedWhole ==
  ASSUME TypeOK, SnapInv, FrameInv, PaintInv, migrated, Paint
  PROVE  shown' = Whole(size)
<1>1. fb = size /\ region \subseteq 0..(size - 1)
  BY DEF Paint, PaintInv
<1>2. CASE full \/ ~snapshotValid
  BY <1>1, <1>2 DEF Paint
<1>3. CASE ~full /\ snapshotValid
  <2>1. shown' = PaintTree(snapshot, region)
    BY <1>3 DEF Paint
  <2>2. ASSUME NEW p \in Pixels PROVE PaintTree(snapshot, region)[p] = Whole(size)[p]
    <3>1. CASE p \in region
      BY <3>1, <1>1, PaintAt
    <3>2. CASE p \in (0..(size - 1)) \ region
      BY <3>2, <1>3, PaintAt DEF PaintInv, Paint
    <3>3. CASE p \notin 0..(size - 1)
      <4>1. p >= fb
        BY <3>3, <1>1, Bounds DEF TypeOK
      <4>2. shown[p] = {} /\ snapshot = shown
        BY <4>1, <1>3 DEF SnapInv
      <4>3. p \notin region
        BY <3>3, <1>1
      <4>4. PaintTree(snapshot, region)[p] = {}
        BY <4>2, <4>3, PaintAt
      <4> QED BY <4>4, <3>3, PaintAt
    <3> QED BY <3>1, <3>2, <3>3
  <2>3. /\ PaintTree(snapshot, region) = [p \in Pixels |-> PaintTree(snapshot, region)[p]]
        /\ Whole(size) = [p \in Pixels |-> Whole(size)[p]]
    BY DEF PaintTree, Whole
  <2> QED BY <2>1, <2>2, <2>3
<1> QED BY <1>2, <1>3

(* With nothing tracked the root alone asks for a whole repaint.            *)
LEMMA RootIsEnough ==
  ASSUME TypeOK, FrameInv, Untracked,
         NEW r \in SUBSET (0..(size - 1)), Damage \cap 0..(size - 1) \subseteq r
  PROVE  FullCoverage(r)
<1>1. size \in Nat /\ size >= 5 /\ 1 \in Objects
  BY Bounds DEF TypeOK
<1>2. RootArea(size) \subseteq r
  <2>1. area[1] = RootArea(size) /\ 1 \in area[1] /\ lastRects[1] = {}
    BY <1>1 DEF FrameInv, Untracked, RootArea
  <2>2. RootArea(size) \subseteq Damage
    BY <2>1, <1>1 DEF Damage, Moved
  <2> QED BY <2>2, <1>1 DEF RootArea
<1>3. IsFiniteSet(r) /\ Cardinality(r) \in Nat /\ Cardinality(RootArea(size)) <= Cardinality(r)
  <2>1. IsFiniteSet(0..(size - 1))
    BY <1>1, FS_Interval
  <2>2. IsFiniteSet(r)
    BY <2>1, FS_Subset
  <2> QED BY <2>2, <1>2, FS_Subset, FS_CardinalityType
<1>4. Cardinality(RootArea(size)) = size - 1
  BY <1>1, FS_Interval DEF RootArea
<1> QED BY <1>1, <1>3, <1>4 DEF FullCoverage

(* What a pixel shows is accounted for as long as looks change only of what *)
(* is queued for a repaint.                                                 *)
LEMMA StillLastPainted ==
  ASSUME NEW p, AsLastPainted(p), UNCHANGED <<shown, lastRects>>,
         Pending \subseteq Pending', \A o \in Objects \ Pending' : look'[o] = look[o]
  PROVE  AsLastPainted(p)'
BY DEF AsLastPainted

LEMMA LooksArePending ==
  ASSUME TypeOK, FrameInv, Aside, migrated
  PROVE  /\ migrated'
         /\ ~damageAll' => /\ ~damageAll
                          /\ Pending \subseteq Pending'
                          /\ \A o \in Objects \ Pending' : look'[o] = look[o]
<1> DEFINE Goal == /\ migrated'
                   /\ ~damageAll' => /\ ~damageAll
                                    /\ Pending \subseteq Pending'
                                    /\ \A o \in Objects \ Pending' : look'[o] = look[o]
<1> USE DEF tree, queues, diff, painter, Pending
<1>1. ASSUME NEW o \in Objects, Change(o) PROVE Goal
  BY <1>1 DEF Change
<1>2. ASSUME NEW o \in Objects, Refresh(o) PROVE Goal
  BY <1>2 DEF Refresh, Repainted, OnMain, FrameInv, TypeOK
<1>3. ASSUME NEW o \in Objects, DrainOne(o) PROVE Goal
  BY <1>3 DEF DrainOne
<1>4. ASSUME NEW s \in Sizes, Resize(s) PROVE Goal
  BY <1>4 DEF Resize
<1>5. CASE QueueIn \/ DedupStore \/ SetDirtyOff \/ (\E o \in Objects : RefreshOff(o))
  BY <1>5 DEF QueueIn, DedupStore, SetDirtyOff, RefreshOff, FrameInv
<1>6. CASE ReloadScale
  BY <1>6 DEF ReloadScale
<1>10. CASE SetPartialRepaint
  BY <1>10 DEF SetPartialRepaint
<1>7. CASE BeginFrame
  BY <1>7 DEF BeginFrame
<1>8. CASE DrainEnd
  BY <1>8 DEF DrainEnd
<1>9. CASE UNCHANGED vars
  BY <1>9 DEF vars
<1> QED BY <1>1, <1>2, <1>3, <1>4, <1>5, <1>6, <1>7, <1>8, <1>9, <1>10 DEF Aside

LEMMA DiffKeeps ==
  TypeOK /\ SnapInv /\ FrameInv /\ DiffInv /\ PaintInv /\ [Next]_vars => DiffInv'
<1> SUFFICES ASSUME TypeOK, SnapInv, FrameInv, DiffInv, PaintInv, [Next]_vars,
                    migrated', frame' # "paint", snapshotValid', ~damageAll', ~Untracked'
             PROVE  \A p \in Pixels : p < fb' => AsLastPainted(p)'
  BY DEF DiffInv
<1>0. migrated
  <2>1. migrated' = migrated
    <3>1. CASE Aside
      BY <3>1 DEF Aside, Change, Refresh, RefreshOff, DrainOne, Resize, QueueIn, DedupStore,
           SetDirtyOff, ReloadScale, SetPartialRepaint, BeginFrame, DrainEnd, tree, vars
    <3>2. CASE Compute \/ Paint
      BY <3>2 DEF Compute, Paint, tree
    <3> QED BY <3>1, <3>2, Steps
  <2> QED BY <2>1
<1>1. CASE Aside
  <2>1. frame # "paint" /\ UNCHANGED <<fb, snapshotValid, shown, lastRects>>
    BY <1>1, AsideKeeps
  <2>2. \A p \in Pixels : p < fb => AsLastPainted(p)
    BY <2>1, <1>0, <1>1, LooksArePending DEF DiffInv, Untracked
  <2> QED BY <2>1, <2>2, <1>0, <1>1, LooksArePending, StillLastPainted
<1>2. CASE Compute
  BY <1>2 DEF Compute
<1>3. CASE Paint
  <2>1. shown' = Whole(size) /\ fb = size
    BY <1>0, <1>3, PaintedWhole DEF PaintInv, Paint
  <2>2. UNCHANGED <<look, area, lastRects, fb, queue, refreshedFrame>>
    BY <1>3 DEF Paint, tree, diff, queues
  <2>3. lastRects = area
    BY <1>3, <2>2 DEF PaintInv, Paint, Untracked
  <2>4. Pending' = {}
    BY <1>0, <1>3, <2>2 DEF Pending, FrameInv, Paint
  <2>5. ASSUME NEW p \in Pixels, p < fb PROVE AsLastPainted(p)'
    <3>1. p \in 0..(size - 1)
      BY <2>1, <2>5, Bounds DEF TypeOK
    <3>2. shown'[p] = Now(p)
      BY <2>1, <3>1, PaintAt
    <3> QED BY <3>2, <2>2, <2>3, <2>4 DEF AsLastPainted, Now
  <2> QED BY <2>2, <2>5
<1> QED BY <1>1, <1>2, <1>3, Steps

LEMMA ComputeReady ==
  ASSUME TypeOK, SnapInv, FrameInv, DiffInv, Compute
  PROVE  PaintInv'
<1>1. UNCHANGED <<migrated, size, area, look>> /\ fb' = size /\ frame = "compute"
  BY DEF Compute, SetOutputSize, tree
<1>2. UNCHANGED snapshot /\ (snapshotValid' => snapshotValid /\ size = fb)
  BY DEF Compute, SetOutputSize
<1>3. CASE ~partial
  <2>1. region' = {} /\ lastRects' = [o \in Objects |-> {}] /\ full' = TRUE
    BY <1>3, <1>1 DEF Compute, ResetDamage, FrameInv
  <2> QED BY <2>1, <1>1 DEF PaintInv, Untracked
<1>4. CASE partial
  <2> DEFINE added == Damage \cap 0..(size - 1)
  <2>1. PICK r \in {added, Hull(added)} : /\ region' = r
                                          /\ full' = (damageAll \/ FullCoverage(r))
    BY <1>4 DEF Compute, ComputeDamage
  <2>2. lastRects' = area
    BY <1>4 DEF Compute, ComputeDamage
  <2>3. added \subseteq r /\ r \subseteq 0..(size - 1)
    <3>1. added \subseteq Hull(added) /\ Hull(added) \subseteq 0..(size - 1)
      <4>1. size \in Nat /\ Pixels \subseteq Nat /\ 0..(size - 1) \subseteq Pixels
        BY Bounds DEF TypeOK
      <4>2. ASSUME NEW p \in added PROVE p \in Hull(added)
        BY <4>1, <4>2 DEF Hull
      <4>3. ASSUME NEW p \in Hull(added) PROVE p \in 0..(size - 1)
        <5>1. PICK q \in added : p <= q
          BY <4>3 DEF Hull
        <5>2. p \in Nat /\ q \in 0..(size - 1)
          BY <4>1, <4>3 DEF Hull
        <5> QED BY <5>1, <5>2, <4>1
      <4> QED BY <4>2, <4>3
    <3> QED BY <3>1
  <2>4. ASSUME migrated, ~full', snapshotValid', NEW p \in (0..(size - 1)) \ r
        PROVE  snapshot[p] = Now(p)
    <3>1. ~Untracked
      BY <2>1, <2>3, <2>4, RootIsEnough
    <3>2. p \in Pixels /\ p < fb
      BY <1>2, <2>4, Bounds DEF TypeOK
    <3>3. AsLastPainted(p) /\ snapshot[p] = shown[p]
      BY <1>1, <1>2, <2>1, <2>4, <3>1, <3>2 DEF DiffInv, SnapInv
    <3>4. p \notin Damage
      BY <2>3, <2>4
    <3>5. \A o \in Objects : p \in lastRects[o] <=> p \in area[o]
      <4>1. ASSUME NEW o \in Objects, Moved(o) PROVE p \notin lastRects[o] \cup area[o]
        BY <3>4, <4>1 DEF Damage
      <4> QED BY <4>1 DEF Moved
    <3>6. Pending = refreshedFrame
      BY <1>1, <2>4 DEF FrameInv, Pending
    <3>7. \A o \in refreshedFrame : p \notin area[o]
      BY <3>4 DEF Damage
    <3>8. shown[p] \subseteq Objects \X Looks /\ look \in [Objects -> Looks]
      BY <3>2 DEF TypeOK, Painted
    <3>9. \A o \in Objects, l \in Looks :
            <<o, l>> \in shown[p] <=> p \in area[o] /\ l = look[o]
      BY <3>3, <3>5, <3>6, <3>7, <3>8 DEF AsLastPainted, TypeOK
    <3>10. Now(p) \subseteq Objects \X Looks
      BY <3>8 DEF Now
    <3>11. \A o \in Objects, l \in Looks :
             <<o, l>> \in Now(p) <=> p \in area[o] /\ l = look[o]
      BY DEF Now
    <3>12. \A x \in Objects \X Looks : x \in shown[p] <=> x \in Now(p)
      BY <3>9, <3>11
    <3>13. shown[p] = Now(p)
      BY <3>8, <3>10, <3>12
    <3> QED BY <3>3, <3>13
  <2>5. \A p : Now(p)' = Now(p)
    BY <1>1 DEF Now
  <2> QED BY <1>1, <1>2, <2>1, <2>2, <2>3, <2>4, <2>5 DEF PaintInv
<1> QED BY <1>3, <1>4

LEMMA PaintKeeps ==
  TypeOK /\ SnapInv /\ FrameInv /\ DiffInv /\ PaintInv /\ [Next]_vars => PaintInv'
<1> SUFFICES ASSUME TypeOK, SnapInv, FrameInv, DiffInv, PaintInv, [Next]_vars,
                    frame' = "paint"
             PROVE  PaintInv'
  BY DEF PaintInv
<1>1. CASE Aside
  <2>1. frame = "paint" /\ UNCHANGED <<fb, snapshot, snapshotValid, lastRects, region, full>>
    BY <1>1, AsideKeeps
  <2>2. UNCHANGED <<size, area, migrated>> /\ (migrated => UNCHANGED look)
    BY <1>1, <2>1 DEF Aside, Change, Refresh, RefreshOff, DrainOne, Resize, QueueIn, DedupStore,
         SetDirtyOff, ReloadScale, SetPartialRepaint, BeginFrame, DrainEnd, tree, vars, OnMain
  <2> QED BY <2>1, <2>2 DEF PaintInv, Untracked, Now
<1>2. CASE Compute
  BY <1>2, ComputeReady
<1>3. CASE Paint
  BY <1>3 DEF Paint
<1> QED BY <1>1, <1>2, <1>3, Steps

LEMMA StaleKeeps ==
  TypeOK /\ SnapInv /\ FrameInv /\ PaintInv /\ NothingStale /\ [Next]_vars => NothingStale'
<1> SUFFICES ASSUME TypeOK, SnapInv, FrameInv, PaintInv, NothingStale, [Next]_vars,
                    migrated', frame' = "idle", ~dirty'
             PROVE  (shown = Whole(size))'
  BY DEF NothingStale
<1> USE DEF tree
<1>1. CASE Aside
  <2>1. UNCHANGED <<shown, size, area, look, dirty, frame, migrated>>
    <3> USE DEF painter, FrameInv
    <3>1. ASSUME NEW o \in Objects, Change(o) \/ Refresh(o) PROVE FALSE
      BY <3>1 DEF Change, Refresh
    <3>2. ASSUME NEW o \in Objects, RefreshOff(o) \/ DrainOne(o) PROVE FALSE
      BY <3>2 DEF RefreshOff, DrainOne
    <3>3. ASSUME NEW s \in Sizes, Resize(s) PROVE FALSE
      BY <3>3 DEF Resize
    <3>4. CASE QueueIn \/ DedupStore \/ SetDirtyOff \/ ReloadScale \/ BeginFrame \/ DrainEnd
      BY <3>4 DEF QueueIn, DedupStore, SetDirtyOff, ReloadScale, BeginFrame, DrainEnd
    <3>5. CASE SetPartialRepaint \/ UNCHANGED vars
      BY <3>5 DEF SetPartialRepaint, vars
    <3> QED BY <1>1, <3>1, <3>2, <3>3, <3>4, <3>5 DEF Aside
  <2> QED BY <2>1 DEF NothingStale, Whole, PaintTree
<1>2. CASE Compute
  BY <1>2 DEF Compute
<1>3. CASE Paint
  <2>1. UNCHANGED <<migrated, size, area, look>>
    BY <1>3 DEF Paint
  <2>2. shown' = Whole(size)
    BY <1>3, <2>1, PaintedWhole
  <2> QED BY <2>1, <2>2 DEF Whole, PaintTree
<1> QED BY <1>1, <1>2, <1>3, Steps

LEMMA InitHolds == Init => TypeOK /\ DamageInv
<1> SUFFICES ASSUME Init PROVE TypeOK /\ DamageInv
  OBVIOUS
<1>1. TypeOK
  BY Bounds, BlankTyped, DamageAssumption DEF Init, TypeOK, Looks
<1>2. DamageInv
  BY Bounds DEF Init, DamageInv, SnapInv, FrameInv, DiffInv, PaintInv, NothingStale
<1> QED BY <1>1, <1>2

(* The state of a canvas and of its painter keeps its type.                 *)
THEOREM TypeCorrect == Spec => []TypeOK
<1>1. Init => TypeOK
  BY InitHolds
<1> QED BY <1>1, TypeKeeps, PTL DEF Spec

LEMMA InvHolds == Spec => [](TypeOK /\ DamageInv)
<1>1. TypeOK /\ DamageInv /\ [Next]_vars => (TypeOK /\ DamageInv)'
  BY TypeKeeps, SnapKeeps, FrameKeeps, DiffKeeps, PaintKeeps, StaleKeeps DEF DamageInv
<1> QED BY <1>1, InitHolds, PTL DEF Spec

(* A window that wants no frame shows what a repaint of the whole canvas    *)
(* would (damage.go 12-16), for every number of objects, wherever they      *)
(* stand, in a build where Refresh is on the main goroutine.                *)
THEOREM NothingIsStale == Spec => []NothingStale
<1>1. TypeOK /\ DamageInv => NothingStale
  BY DEF DamageInv
<1> QED BY <1>1, InvHolds, PTL

(* Between frames the snapshot that the next one restores is what is shown  *)
(* (snapshot.go 10-19), in every build.                                     *)
THEOREM SnapshotIsTheFrame == Spec => []SnapshotIsShown
<1>1. TypeOK /\ DamageInv => SnapshotIsShown
  BY DEF DamageInv, SnapInv, SnapshotIsShown
<1> QED BY <1>1, InvHolds, PTL

(* What waits in the refresh queue is announced (canvas.go 308-312), also   *)
(* where goroutines call Refresh at any step of a frame.                    *)
THEOREM RefreshIsAnnounced == Spec => []RefreshAnnounced
<1>1. Init => RefreshAnnounced
  BY DEF Init, RefreshAnnounced
<1>2. TypeOK /\ RefreshAnnounced /\ [Next]_vars => RefreshAnnounced'
  <2> SUFFICES ASSUME TypeOK, RefreshAnnounced, [Next]_vars PROVE RefreshAnnounced'
    OBVIOUS
  <2> USE DEF RefreshAnnounced, queues
  <2>1. ASSUME NEW o \in Objects, Change(o) \/ Refresh(o) PROVE RefreshAnnounced'
    BY <2>1 DEF Change, Refresh
  <2>2. ASSUME NEW o \in Objects, RefreshOff(o) \/ DrainOne(o) PROVE RefreshAnnounced'
    BY <2>2 DEF RefreshOff, DrainOne, TypeOK
  <2>3. ASSUME NEW s \in Sizes, Resize(s) PROVE RefreshAnnounced'
    BY <2>3 DEF Resize
  <2>4. CASE QueueIn \/ DedupStore \/ SetDirtyOff
    BY <2>4 DEF QueueIn, DedupStore, SetDirtyOff, TypeOK
  <2>5. CASE ReloadScale
    BY <2>5 DEF ReloadScale
  <2>10. CASE SetPartialRepaint
    BY <2>10 DEF SetPartialRepaint
  <2>8. CASE BeginFrame
    BY <2>8 DEF BeginFrame
  <2>9. CASE DrainEnd
    BY <2>9 DEF DrainEnd
  <2>6. CASE Compute \/ Paint
    BY <2>6 DEF Compute, Paint
  <2>7. CASE UNCHANGED vars
    BY <2>7 DEF vars
  <2> QED BY <2>1, <2>2, <2>3, <2>4, <2>5, <2>6, <2>7, <2>8, <2>9, <2>10, Steps
    DEF Aside
<1> QED BY <1>1, <1>2, TypeCorrect, PTL DEF Spec
==============================================================================
