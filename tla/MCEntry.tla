-------------------------------- MODULE MCEntry --------------------------------
(* One letter is typed; line breaks come from Return and the clipboard, from *)
(* where a single line gets a space instead.                                 *)
EXTENDS Entry

CONSTANT letter

MCLetters == {letter}
MCMaxLen == [multi \in BOOLEAN |-> IF multi THEN 3 ELSE 2]
MCClips == {<<>>, <<letter, Newline>>}
=============================================================================
