-------------------------------- MODULE History --------------------------------
(****************************************************************************)
(* What undoing promises (fyne.ShortcutUndo and ShortcutRedo, Entry.Undo    *)
(* and Entry.Redo): the texts that were there, and those that were undone.  *)
(****************************************************************************)
EXTENDS Naturals, Sequences, SequencesExt

VARIABLES text,
          past,    \* the texts that undoing goes back to, the last one first to
          future   \* the texts that redoing goes forward to, in order

Init == past = <<>> /\ future = <<>>

(* The text before an edit can be gone back to, or the edit was merged with *)
(* the one before it.  Replacing what is selected is two edits.             *)
Kept(p) == p # <<>> /\ p \in {past, Append(past, text)}

Edit == /\ future' = <<>>
        /\ past' # <<>>
        /\ Kept(past') \/ Kept(Front(past'))

Undo == /\ past # <<>>
        /\ text' = Last(past)
        /\ past' = Front(past)
        /\ future' = <<text>> \o future

Redo == /\ future # <<>>
        /\ text' = Head(future)
        /\ past' = Append(past, text)
        /\ future' = Tail(future)

(* The history is dropped when the application sets the text. *)
Reset == past' = <<>> /\ future' = <<>>

Next == Edit \/ Undo \/ Redo \/ Reset
=============================================================================
