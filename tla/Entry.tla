--------------------------------- MODULE Entry ---------------------------------
(****************************************************************************)
(* A text entry (widget/entry.go, widget/selectable.go): its text, cursor   *)
(* and selection, and the stack of actions that Undo and Redo go through.   *)
(*                                                                          *)
(* Every handler ends in Refresh, whose renderer lays the text out anew and *)
(* brings the cursor and the start of the selection back into it: Settle.   *)
(* The entry is enabled, its text is not wrapped nor concealed, and Tab and *)
(* OnSubmitted are left out; a callback that sets the text does so as the   *)
(* application does afterwards, since nothing is read after it.             *)
(****************************************************************************)
EXTENDS Integers, Sequences, SequencesExt, FiniteSets

CONSTANTS Letters, Space, Newline,
          Clips,     \* what may be on the clipboard, which is everybody's
          Typeable,  \* what is typed: a bound
          MaxLen,    \* a bound of the text, when it is multi-line and when not
          MaxItems   \* a bound of the undo stack

Runes == Letters \cup {Space, Newline}

ASSUME EntryAssumption == /\ Space # Newline /\ {Space, Newline} \cap Letters = {}
                          /\ Clips \subseteq Seq(Runes)
                          /\ Typeable \subseteq Letters \cup {Space}
                          /\ MaxLen \in [BOOLEAN -> Nat] /\ MaxItems \in Nat

VARIABLES
  e,          \* text; cursor and anchor, where the selection starts; selecting;
              \* items and index of the undo stack
  multiLine,
  shift,      \* selectKeyDown
  blanked     \* ghost: an empty clipboard was pasted over a selection

vars == <<e, multiLine, shift, blanked>>

-----------------------------------------------------------------------------
(* Rows, and the places in them *)

At(row, col) == [row |-> row, col |-> col]
Breaks(text) == {i \in DOMAIN text : text[i] = Newline}
Rows(text) == Cardinality(Breaks(text)) + 1

RowBegin(text, row) ==
    IF row = 0 THEN 0
    ELSE CHOOSE i \in Breaks(text) : Cardinality({j \in Breaks(text) : j <= i}) = row
RowEnd(text, row) ==
    IF row = Rows(text) - 1 THEN Len(text) ELSE RowBegin(text, row + 1) - 1
Row(text, row) == SubSeq(text, RowBegin(text, row) + 1, RowEnd(text, row))
RowLength(text, row) == RowEnd(text, row) - RowBegin(text, row)

(* textPosFromRowCol *)
Offset(text, place) == IF place.row < Rows(text)
                       THEN RowBegin(text, place.row) + place.col ELSE place.col

(* rowColFromTextPos: a position before the text is at its start. *)
PlaceOf(text, pos) ==
    LET row == Cardinality({i \in Breaks(text) : i <= pos})
    IN  IF pos < 0 THEN At(0, 0) ELSE At(row, pos - RowBegin(text, row))

(* truncatePosition *)
Truncated(text, p) ==
    LET row == IF p.row >= Rows(text) THEN Rows(text) - 1 ELSE p.row
        length == RowLength(text, row)
    IN  IF text = <<>> THEN At(0, 0)
        ELSE At(row, IF p.col >= length \/ row < p.row THEN length ELSE p.col)

Settle(x) == [x EXCEPT !.cursor = Truncated(x.text, @),
                       !.anchor = Truncated(x.text, @)]

-----------------------------------------------------------------------------
(* entryUndoStack *)

Action(delete, pos, text) == [delete |-> delete, pos |-> pos, text |-> text]

Spliced(text, from, to, with) ==
    SubSeq(text, 1, from) \o with \o SubSeq(text, to + 1, Len(text))

Adds(m, text) == Spliced(text, m.pos, m.pos, m.text)
Subs(m, text) == Spliced(text, m.pos, m.pos + Len(m.text), <<>>)
Undone(m, text) == IF m.delete THEN Adds(m, text) ELSE Subs(m, text)
Redone(m, text) == IF m.delete THEN Subs(m, text) ELSE Adds(m, text)

Separator(r) == r \in {Space, Newline}

(* entryModifyAction.TryMerge *)
Mergeable(m, n) ==
    /\ m.delete = n.delete
    /\ \A i \in DOMAIN n.text : ~Separator(n.text[i])
    /\ IF m.delete THEN m.pos = n.pos + Len(n.text) ELSE m.pos + Len(m.text) = n.pos

Merged(m, n) == IF m.delete THEN [m EXCEPT !.pos = n.pos, !.text = n.text \o @]
                ELSE [m EXCEPT !.text = @ \o n.text]

Add(x, m) == [x EXCEPT !.items = Append(SubSeq(@, 1, x.index), m), !.index = @ + 1]

(* Mutant of MergeOrAdd: what was undone can still be redone. *)
MergeOrAddAfter(x, m) ==
    IF x.index > 0 /\ Mergeable(x.items[x.index], m)
    THEN [x EXCEPT !.items = [@ EXCEPT ![x.index] = Merged(@, m)]]
    ELSE Add(x, m)

MergeOrAdd(x, m) ==
    IF x.index > 0 /\ Mergeable(x.items[x.index], m)
    THEN [x EXCEPT !.items = Append(SubSeq(@, 1, x.index - 1), Merged(@[x.index], m))]
    ELSE Add(x, m)

(* A text is taken out or put in. *)
Delete(x, from, to) ==
    MergeOrAdd([x EXCEPT !.text = Spliced(@, from, to, <<>>)],
               Action(TRUE, from, SubSeq(x.text, from + 1, to)))
Insert(x, pos, text) ==
    MergeOrAdd([x EXCEPT !.text = Spliced(@, pos, pos, text)], Action(FALSE, pos, text))

-----------------------------------------------------------------------------
(* The selection *)

HasSelection(x) == x.selecting /\ x.cursor # x.anchor

(* selectable.selection *)
Selection(x) ==
    LET c == x.cursor  a == x.anchor
        ahead == c.row > a.row \/ (c.row = a.row /\ c.col > a.col)
    IN  IF ~HasSelection(x) THEN [from |-> -1, to |-> -1]
        ELSE IF ahead THEN [from |-> Offset(x.text, a), to |-> Offset(x.text, c)]
        ELSE [from |-> Offset(x.text, c), to |-> Offset(x.text, a)]

(* eraseSelection: a selection of nothing goes on. *)
Erase(x) ==
    LET s == Selection(x)
        del == Delete(x, s.from, s.to)
        at == PlaceOf(del.text, s.from)
    IN  IF s.from = s.to THEN x
        ELSE [del EXCEPT !.cursor = at, !.anchor = at, !.selecting = FALSE]

(* getTextWhitespaceRegion: what surrounds a column of a row; with expand,  *)
(* across the spaces on either side of it.                                  *)
NoRegion == [start |-> -1, end |-> -1]
Region(row, column, expand) ==
    LET n == Len(row)
        col == IF column >= n THEN n - 1 ELSE column
        sep(i) == Separator(row[i + 1])
        last(to, is) == LET s == {i \in 0 .. to - 1 : sep(i) = is}
                        IN  IF s = {} THEN -1 ELSE CHOOSE i \in s : \A j \in s : j <= i
        first(from, is) == LET s == {i \in from .. n - 1 : sep(i) = is}
                           IN  IF s = {} THEN -1 ELSE CHOOSE i \in s : \A j \in s : i <= j
        startCheck == IF expand /\ col > 0 /\ sep(col - 1)
                      THEN IF last(col, FALSE) = -1 THEN 0 ELSE last(col, FALSE) ELSE col
        endCheck == IF expand /\ sep(col)
                    THEN IF first(col, FALSE) = -1 THEN col - 1 ELSE first(col, FALSE)
                    ELSE col
        stop == expand \/ ~sep(col)
        found == IF endCheck = -1 THEN -1 ELSE first(endCheck, stop)
    IN  IF n = 0 THEN NoRegion
        ELSE [start |-> last(startCheck, stop) + 1, end |-> IF found = -1 THEN n ELSE found]

-----------------------------------------------------------------------------
(* Runes and keys *)

TypedRune(x, r) ==
    LET f == Erase(x)
        pos == Offset(f.text, f.cursor)
        typed == Insert(f, pos, <<r>>)
    IN  Settle([typed EXCEPT !.cursor = PlaceOf(typed.text, pos + 1)])

(* The end of TypedKey: a selection that has become empty is over. *)
Typed(x) == Settle([x EXCEPT !.selecting = @ /\ x.cursor # x.anchor])

(* While there is a selection, Backspace and Delete only erase it. *)
Backspace(x) ==
    LET pos == Offset(x.text, x.cursor)
        del == Delete(x, pos - 1, pos)
    IN  IF x.selecting THEN Settle(Erase(x))
        ELSE IF x.text = <<>> \/ x.cursor = At(0, 0) THEN x
        ELSE Typed([del EXCEPT !.cursor = PlaceOf(del.text, pos - 1)])

DeleteKey(x) ==
    LET pos == Offset(x.text, x.cursor)
    IN  IF x.selecting THEN Settle(Erase(x))
        ELSE IF pos = Len(x.text) THEN x ELSE Typed(Delete(x, pos, pos + 1))

Return(x) ==
    LET f == IF x.selecting THEN Settle(Erase(x)) ELSE x
        typed == Insert(f, Offset(f.text, f.cursor), <<Newline>>)
    IN  IF multiLine THEN Typed([typed EXCEPT !.cursor = At(f.cursor.row + 1, 0)])
        ELSE Typed(x)

Keys == {"Up", "Down", "Left", "Right", "Home", "End", "PageUp", "PageDown"}

Moved(x, key) ==
    LET row == x.cursor.row  col == x.cursor.col
        length(r) == RowLength(x.text, r)
        within(r, c) == At(r, IF c > length(r) THEN length(r) ELSE c)
        lastRow == Rows(x.text) - 1
    IN  CASE key = "Up" -> IF row > 0 THEN within(row - 1, col) ELSE At(0, 0)
          [] key = "Down" -> IF row < lastRow THEN within(row + 1, col)
                             ELSE At(row, length(row))
          [] key = "Left" -> IF col > 0 THEN At(row, col - 1)
                             ELSE IF multiLine /\ row > 0 THEN At(row - 1, length(row - 1))
                             ELSE At(row, col)
          [] key = "Right" -> IF ~multiLine
                              THEN At(row, IF col < Len(x.text) THEN col + 1 ELSE col)
                              ELSE IF col < length(row) THEN At(row, col + 1)
                              ELSE IF row < lastRow THEN At(row + 1, 0) ELSE At(row, col)
          [] key = "Home" -> At(row, 0)
          [] key = "End" -> At(row, IF multiLine THEN length(row) ELSE Len(x.text))
          [] key = "PageUp" -> At(IF multiLine THEN 0 ELSE row, 0)
          [] key = "PageDown" -> IF multiLine THEN At(lastRow, length(lastRow))
                                 ELSE At(row, Len(x.text))

(* With Shift a key extends the selection; without, Left and Right go to    *)
(* its ends, and the others end it.                                         *)
MoveKey(x, key) ==
    LET s == Selection(x)
    IN  IF x.selecting /\ ~shift /\ key \in {"Left", "Right"}
        THEN Settle([x EXCEPT !.selecting = FALSE,
                              !.cursor = PlaceOf(x.text, IF key = "Left" THEN s.from
                                                         ELSE s.to)])
        ELSE Typed([x EXCEPT !.cursor = Moved(x, key), !.selecting = shift])

-----------------------------------------------------------------------------
(* Shortcuts *)

Cut(x) == Settle(Erase(x))

(* Mutant of Undo: it stops before the text it has put back. *)
UndoBefore(x) ==
    LET m == x.items[x.index]
        text == Undone(m, x.text)
    IN  IF x.index = 0 THEN x
        ELSE Settle([x EXCEPT !.index = @ - 1, !.text = text,
                              !.cursor = PlaceOf(text, m.pos)])

Undo(x) ==
    LET m == x.items[x.index]
        text == Undone(m, x.text)
    IN  IF x.index = 0 THEN x
        ELSE Settle([x EXCEPT !.index = @ - 1, !.text = text,
                              !.cursor = PlaceOf(text, IF m.delete THEN m.pos + Len(m.text)
                                                       ELSE m.pos)])

Redo(x) ==
    LET m == x.items[x.index + 1]
        text == Redone(m, x.text)
    IN  IF x.index = Len(x.items) THEN x
        ELSE Settle([x EXCEPT !.index = @ + 1, !.text = text,
                              !.cursor = PlaceOf(text, IF m.delete THEN m.pos
                                                       ELSE m.pos + Len(m.text))])

(* Nothing to paste erases the selection from what is shown, and not from   *)
(* the text, which Refresh then shows again.                                *)
PasteNothing(x) == Settle([Erase(x) EXCEPT !.text = x.text])

Paste(x, content) ==
    LET f == Erase(x)
        runes == IF multiLine THEN content
                 ELSE [i \in DOMAIN content |->
                         IF content[i] = Newline THEN Space ELSE content[i]]
        pos == Offset(f.text, f.cursor)
        text == Spliced(f.text, pos, pos, runes)
    IN  Settle([Add(f, Action(FALSE, pos, runes)) EXCEPT
                  !.text = text, !.cursor = PlaceOf(text, pos + Len(runes))])

(* deleteWord, whatever is selected.  Where nothing is left on the right of *)
(* the cursor the action is empty.                                          *)
DeleteWord(x, right) ==
    LET row == x.cursor.row  col == x.cursor.col
        region == Region(Row(x.text, row), col, TRUE)
        start == IF right THEN col ELSE region.start
        end == IF right THEN region.end ELSE col
        from == RowBegin(x.text, row) + start
        to == RowBegin(x.text, row) + end
        del == Delete(x, from, IF to < from THEN from ELSE to)
    IN  IF start = -1 \/ end = -1 THEN x
        ELSE Settle([del EXCEPT !.cursor.col = IF right THEN col ELSE col - (end - start)])

SelectAll(x) ==
    IF x.text = <<>> THEN x
    ELSE Settle([x EXCEPT !.anchor = At(0, 0), !.selecting = TRUE,
                          !.cursor = PlaceOf(x.text, Len(x.text))])

(* A word at a time; an empty row is not left. *)
MoveWord(x, left) ==
    LET row == x.cursor.row  col == x.cursor.col
        region == Region(Row(x.text, row), col, TRUE)
        length(r) == RowLength(x.text, r)
    IN  IF region = NoRegion THEN x
        ELSE Settle([x EXCEPT !.cursor =
               IF left
               THEN IF col > 0 THEN At(row, region.start)
                    ELSE IF row > 0 THEN At(row - 1, length(row - 1)) ELSE @
               ELSE IF col # length(row) THEN At(row, region.end)
                    ELSE IF row < Rows(x.text) - 1 THEN At(row + 1, 0) ELSE @])

SelectWord(x, left) ==
    MoveWord(IF x.selecting THEN x ELSE [x EXCEPT !.anchor = x.cursor, !.selecting = TRUE],
             left)

-----------------------------------------------------------------------------
(* The mouse *)

(* updateMousePointer, which a right click leaves alone in a selection *)
Point(x, place, right) ==
    [x EXCEPT !.cursor = IF right /\ x.selecting THEN @ ELSE place,
              !.anchor = IF x.selecting THEN @ ELSE place]

SelectRow(x) == Settle([x EXCEPT !.anchor = At(x.cursor.row, 0),
                                 !.cursor.col = RowLength(x.text, x.cursor.row)])

MouseDown(x, place, right) ==
    Point([x EXCEPT !.selecting = shift \/ (@ /\ right)], place, right)

MouseUp(x) == [x EXCEPT !.selecting = @ /\ (x.cursor # x.anchor \/ shift)]
DragEnd(x) == [x EXCEPT !.selecting = @ /\ x.cursor # x.anchor]

(* A drag starts where the button went down, and there the cursor is. *)
DragTo(x, to) == IF x.selecting THEN [x EXCEPT !.cursor = to]
                 ELSE [x EXCEPT !.anchor = x.cursor, !.cursor = to, !.selecting = TRUE]

DoubleTap(x) ==
    LET row == x.cursor.row
        region == Region(Row(x.text, row), x.cursor.col, FALSE)
        a == IF shift THEN x.anchor ELSE At(row, region.start)
        back == a.row > row \/ (a.row = row /\ a.col > x.cursor.col)
    IN  IF region = NoRegion THEN x
        ELSE Settle([x EXCEPT !.anchor = a, !.selecting = TRUE,
                              !.cursor.col = IF back THEN region.start ELSE region.end])

-----------------------------------------------------------------------------
(* SetText and Append *)

Cleared(x) == [x EXCEPT !.items = <<>>, !.index = 0]
SetText(x, text) == Cleared(Settle([x EXCEPT !.text = text]))
AppendText(x, text) == Settle(Cleared([x EXCEPT !.text = @ \o text]))

Blank == [text |-> <<>>, cursor |-> At(0, 0), anchor |-> At(0, 0), selecting |-> FALSE,
          items |-> <<>>, index |-> 0]

Init == /\ e = Blank
        /\ multiLine \in BOOLEAN
        /\ shift = FALSE /\ blanked = FALSE

(* The bounds; an entry whose history is broken is not followed further. *)
Bounded == Len(e'.text) <= MaxLen[multiLine] /\ Len(e'.items) <= MaxItems /\ ~blanked

(* The entry after an event is one of these. *)
Becomes(S) == e' \in S /\ Bounded /\ UNCHANGED multiLine
Same == UNCHANGED <<shift, blanked>>

Keyed == Same /\ Becomes({TypedRune(e, r) : r \in Typeable}
                         \cup {Backspace(e), DeleteKey(e), Return(e)}
                         \cup {MoveKey(e, k) : k \in Keys})

Shortcut == Same /\ Becomes({Undo(e), Redo(e), SelectAll(e), Cut(e)}
                            \cup {DeleteWord(e, b) : b \in BOOLEAN}
                            \cup {MoveWord([e EXCEPT !.selecting = FALSE], b) : b \in BOOLEAN}
                            \cup {SelectWord(e, b) : b \in BOOLEAN})

PasteClip == \E clip \in Clips :
    /\ blanked' = (blanked \/ (clip = <<>> /\ HasSelection(e)))
    /\ UNCHANGED shift
    /\ Becomes({IF clip = <<>> THEN PasteNothing(e) ELSE Paste(e, clip)})

(* Shift goes down; it comes up, or the focus is lost. *)
KeyDown == /\ shift' = TRUE /\ UNCHANGED blanked
           /\ Becomes({IF e.selecting THEN e ELSE [e EXCEPT !.anchor = e.cursor]})
KeyUp == shift' = FALSE /\ UNCHANGED blanked /\ Becomes({e})

Places == {PlaceOf(e.text, n) : n \in 0 .. Len(e.text)}

(* A third tap within the delay of a double tap selects the row. *)
Mouse == Same /\ Becomes({MouseDown(e, p, right) : p \in Places, right \in BOOLEAN}
                         \cup {DragTo(e, p) : p \in Places}
                         \cup {DragEnd(e), MouseUp(e), DoubleTap(e), SelectRow(DoubleTap(e))})

Application == Same /\ Becomes({SetText(e, t) : t \in Clips}
                               \cup {AppendText(e, t) : t \in Clips})

Next == Keyed \/ Shortcut \/ PasteClip \/ KeyDown \/ KeyUp \/ Mouse \/ Application

Spec == Init /\ [][Next]_vars

-----------------------------------------------------------------------------
(* The texts that undoing the actions one by one would show, and redoing. *)
Before == LET f[i \in 0 .. Len(e.items)] ==
                IF i >= e.index THEN e.text ELSE Undone(e.items[i + 1], f[i + 1])
          IN  [i \in 1 .. e.index |-> f[i - 1]]
After == LET f[i \in 0 .. Len(e.items)] ==
               IF i <= e.index THEN e.text ELSE Redone(e.items[i], f[i - 1])
         IN  [i \in 1 .. Len(e.items) - e.index |-> f[e.index + i]]

history == <<e.text, e.items, e.index>>

H == INSTANCE History WITH text <- e.text, past <- Before, future <- After

(* Undo shows again what was there before the last edit, and Redo what was  *)
(* undone, along any sequence of edits, merged or not (entry.go 434, 733):  *)
(* until an empty clipboard has been pasted over a selection.               *)
IsHistory == /\ H!Init
             /\ [][history' # history => blanked' \/ H!Next]_vars

(* After an edit, an undo or a redo the cursor is at the end of what was    *)
(* put in, or where something was taken out; both at once only where a      *)
(* selection is replaced.                                                   *)
CursorFollowsEdit ==
    [][e'.text # e.text /\ e'.items # <<>> =>
         LET old == e.text  new == e'.text
             pos == Offset(new, e'.cursor)
         IN  \E from \in 0 .. pos, to \in 0 .. Len(old) :
               /\ from <= to
               /\ from = to \/ from = pos \/ HasSelection(e)
               /\ SubSeq(new, 1, from) = SubSeq(old, 1, from)
               /\ SubSeq(new, pos + 1, Len(new)) = SubSeq(old, to + 1, Len(old))]_vars

=============================================================================
