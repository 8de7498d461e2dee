----------------------------- MODULE MCWindowInput -----------------------------
(* A content of a slider and a group that holds an entry, another content   *)
(* that shares the entry, and two pop-ups, one of them with an entry.       *)
EXTENDS WindowInput, TLC

CONSTANTS slider, group, entry, backP, field, backQ, p, q, wide, narrow,
          out, left, right

MCObjects == {slider, group, entry, backP, field, backQ}
MCContents == {wide, narrow}
MCPopUps == {p, q}
MCTree == wide :> <<slider, group, entry>> @@ narrow :> <<entry>>
          @@ p :> <<backP, field>> @@ q :> <<backQ>>
MCAbove == [o \in MCObjects |-> IF o = entry THEN {group, entry}
                                ELSE IF o = field THEN {backP, field} ELSE {o}]
MCPlaces == {out, left, right}
MCTrail == wide :> (out :> <<>> @@ left :> <<slider>> @@ right :> <<group, entry>>)
           @@ narrow :> (out :> <<>> @@ left :> <<>> @@ right :> <<entry>>)
           @@ p :> (out :> <<>> @@ left :> <<backP>> @@ right :> <<backP, field>>)
           @@ q :> (out :> <<>> @@ left :> <<backQ>> @@ right :> <<backQ>>)
MCBackdrop == p :> backP @@ q :> backQ
MCFocusable == {slider, entry, field}
MCTappable == {slider, entry, field, backP, backQ}
MCSecondaryTappable == {entry, field, backP, backQ}
MCDoubleTappable == {entry, field}
MCDraggable == {slider, entry, field}
MCHoverable == {slider, backP, backQ}
MCHideable == {group}
=============================================================================
