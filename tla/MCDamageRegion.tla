---------------------------- MODULE MCDamageRegion ----------------------------
EXTENDS DamageRegion

(* All rectangles within the canvas, one that sticks out on two sides, one  *)
(* outside of it and one without a width.                                   *)
MCInputs == {r \in [x1 : 0..3, y1 : 0..2, x2 : 1..4, y2 : 1..3] :
               r.x1 < r.x2 /\ r.y1 < r.y2 /\ r.x2 <= Width}
            \cup {[x1 |-> -1, y1 |-> 1, x2 |-> 2, y2 |-> 5],
                  [x1 |-> -2, y1 |-> 0, x2 |-> 0, y2 |-> 1],
                  [x1 |-> 1, y1 |-> 0, x2 |-> 1, y2 |-> 2]}
===============================================================================
