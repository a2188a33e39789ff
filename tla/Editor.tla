------------------------------- MODULE Editor -------------------------------
(***************************************************************************)
(* The full-screen text editor of lab3 (lab3/amgame/src/editor.c): one     *)
(* thread runs the frame loop                                              *)
(*                                                                         *)
(*     maybe_clear_screen -> handle_key -> repaint, wait for the frame     *)
(*                                                                         *)
(* until F2 leaves the editor or an assertion of kvector.h stops the       *)
(* machine.  The operators on a text "ed" translate the C functions that   *)
(* work on status.buffer, status.cursor, status.view and status.history;   *)
(* the actions translate the cases of editor_handle_key.                   *)
(***************************************************************************)
EXTENDS Integers, SequencesExt

CONSTANTS
    Keys,          \* the keys of the keyboard, by their AM_KEY_ names
    LetterKeys,    \* LETTER_KEYS
    NumberKeys,    \* NUMBER_KEYS
    Height,        \* framebuffer_get_height(), in cells
    Width,         \* framebuffer_get_width(), in cells
    MaxHistory,    \* bound: edits that can be undone at the same time
    MaxSearch      \* bound: characters typed into the search bar

ASSUME SizeAssumption ==
    /\ Height \in Nat \ {0}
    /\ Width \in Nat \ {0}
    /\ MaxHistory \in Nat
    /\ MaxSearch \in Nat

\* Ctrl+Z undoes; without Ctrl the same key types a letter.
ASSUME UndoKeyAssumption == "Z" \in LetterKeys

VARIABLES
    ed,              \* the text: [buffer, cursor, view, history]
    mode,            \* status.mode
    search_content,  \* status.search_content
    search_results,  \* status.search_results; a set: the vector is sorted
    input_status,    \* the modifier keys: [held, capslock]
    overdue,         \* more than clear_interval passed since last_clear_time
    pc               \* the part of the frame that runs next

vars == <<ed, mode, search_content, search_results, input_status, overdue, pc>>

-----------------------------------------------------------------------------
(* Keys, characters, positions, history entries *)

ShiftKeys == {"LSHIFT", "RSHIFT"}
CtrlKeys  == {"LCTRL", "RCTRL"}
TextKeys  == LetterKeys \cup NumberKeys \cup {"TAB", "SPACE", "RETURN"}

\* A character is the key that types it and its case.
Char == [key : TextKeys, upper : BOOLEAN]

KeycodeToChar(key) ==
    LET shift == input_status.held \cap ShiftKeys # {}
    IN [key   |-> key,
        upper |-> key \in LetterKeys /\ (shift # input_status.capslock)]

Plain(key) == [key |-> key, upper |-> FALSE]
Space   == Plain("SPACE")
Tab     == Plain("TAB")
Newline == Plain("RETURN")

\* A line holds no newline and, tabs being typed as spaces, no tab.
TextChar == Char \ {Tab, Newline}
Line == Seq(TextChar)

At(row, column) == [row |-> row, column |-> column]
Position == [row : Nat, column : Nat]

\* Four characters make one entry only if they were typed as a tab.
HistoryEntry ==
    {h \in [type : {"INSERT", "DELETE"}, ch : Char \ {Tab}, nchars : {1, 4}, pos : Position] :
        h.nchars = 4 => h.ch = Space}

MAX(a, b) == IF a > b THEN a ELSE b
MIN(a, b) == IF a < b THEN a ELSE b

-----------------------------------------------------------------------------
(* Operators on a text *)

EmptyText == [buffer |-> << <<>> >>, cursor |-> At(0, 0), view |-> At(0, 0),
              history |-> <<>>]

LineAt(e, row) == e.buffer[row + 1]
CursorLine(e)  == LineAt(e, e.cursor.row)

\* Mutant: the last row and the last column of the window are one too far.
ScrollLate(v, c) ==
    IF c.row < v.row                     THEN [v EXCEPT !.row = c.row]
    ELSE IF c.row > v.row + Height       THEN [v EXCEPT !.row = c.row - Height + 1]
    ELSE IF c.column < v.column          THEN [v EXCEPT !.column = c.column]
    ELSE IF c.column > v.column + Width  THEN [v EXCEPT !.column = c.column - Width + 1]
    ELSE v

\* One call scrolls in one direction only: the tests are an else-if chain.
Scroll(v, c) ==
    IF c.row < v.row                      THEN [v EXCEPT !.row = c.row]
    ELSE IF c.row >= v.row + Height       THEN [v EXCEPT !.row = c.row - Height + 1]
    ELSE IF c.column < v.column           THEN [v EXCEPT !.column = c.column]
    ELSE IF c.column >= v.column + Width  THEN [v EXCEPT !.column = c.column - Width + 1]
    ELSE v

\* Mutant: the column is not limited to the length of the line moved to.
MoveCursorUnlimited(e, row, column) ==
    LET r == MAX(0, MIN(row, Len(e.buffer) - 1))
        c == At(r, MAX(0, column))
    IN [e EXCEPT !.cursor = c, !.view = Scroll(@, c)]

MoveCursor(e, row, column) ==
    LET r == MAX(0, MIN(row, Len(e.buffer) - 1))
        c == At(r, MAX(0, MIN(column, Len(LineAt(e, r)))))
    IN [e EXCEPT !.cursor = c, !.view = Scroll(@, c)]

Record(e, add_history, type, ch, nchars, pos) ==
    IF add_history
    THEN [e EXCEPT !.history =
            Append(@, [type |-> type, ch |-> ch, nchars |-> nchars, pos |-> pos])]
    ELSE e

\* A loop over the 1 or 4 characters of an edit.
Repeat(n, Op(_), e) == IF n = 1 THEN Op(e) ELSE Op(Op(Op(Op(e))))

InsertLinebreak(e, add_history) ==
    LET r  == e.cursor.row
        l  == CursorLine(e)
        e1 == Record(e, add_history, "INSERT", Newline, 1, At(r + 1, 0))
        e2 == [e1 EXCEPT !.buffer =
                 InsertAt([@ EXCEPT ![r + 1] = SubSeq(l, 1, e.cursor.column)],
                          r + 2, SubSeq(l, e.cursor.column + 1, Len(l)))]
    IN MoveCursor(e2, r + 1, 0)

InsertOne(e, ch) ==
    LET c == e.cursor
    IN MoveCursor([e EXCEPT !.buffer[c.row + 1] = InsertAt(@, c.column + 1, ch)],
                  c.row, c.column + 1)

\* Mutant: each of the four spaces of a tab is recorded as an edit.
InsertCharRecordsEach(e, c, add_history) ==
    IF c = Newline THEN InsertLinebreak(e, add_history)
    ELSE LET char_width == IF c = Tab THEN 4 ELSE 1
             ch         == IF c = Tab THEN Space ELSE c
             Insert(x)  == InsertOne(Record(x, add_history, "INSERT", ch, 1,
                                            At(x.cursor.row, x.cursor.column + 1)), ch)
         IN Repeat(char_width, Insert, e)

InsertChar(e, c, add_history) ==
    IF c = Newline THEN InsertLinebreak(e, add_history)
    ELSE LET char_width == IF c = Tab THEN 4 ELSE 1
             ch         == IF c = Tab THEN Space ELSE c
             Insert(x)  == InsertOne(x, ch)
         IN Repeat(char_width, Insert,
                   Record(e, add_history, "INSERT", ch, char_width,
                          At(e.cursor.row, e.cursor.column + 1)))

\* Mutant: the entry is written after the lines are joined.
JoinLineRecordsLate(e, add_history) ==
    LET r      == e.cursor.row
        prev   == LineAt(e, r - 1)
        joined == prev \o CursorLine(e)
        e1     == Record(e, add_history, "DELETE", Newline, 1, At(r - 1, Len(joined)))
    IN IF r = 0 THEN e
       ELSE [e1 EXCEPT !.buffer = RemoveAt([@ EXCEPT ![r] = joined], r + 1),
                       !.cursor = At(r - 1, Len(prev))]

\* The cursor is set without editor_move_cursor: the view does not follow.
JoinLine(e, add_history) ==
    LET r    == e.cursor.row
        prev == LineAt(e, r - 1)
        e1   == Record(e, add_history, "DELETE", Newline, 1, At(r - 1, Len(prev)))
    IN IF r = 0 THEN e
       ELSE [e1 EXCEPT !.buffer = RemoveAt([@ EXCEPT ![r] = prev \o CursorLine(e)], r + 1),
                       !.cursor = At(r - 1, Len(prev))]

\* has_tab: the four characters before the column are spaces.
HasTab(l, column) ==
    column >= 4 /\ \A i \in 1..4 : l[column - i + 1] = Space

DeleteOne(e) ==
    LET c == e.cursor
    IN MoveCursor([e EXCEPT !.buffer[c.row + 1] = RemoveAt(@, c.column)],
                  c.row, c.column - 1)

DeleteChar(e, add_history) ==
    LET c == e.cursor
        l == CursorLine(e)
        n == IF HasTab(l, c.column) THEN 4 ELSE 1
    IN IF c.column = 0 THEN JoinLine(e, add_history)
       ELSE Repeat(n, DeleteOne,
                   Record(e, add_history, "DELETE", l[c.column - n + 1], n,
                          At(c.row, c.column - n)))

UndoOne(e, entry) ==
    LET moved == MoveCursor(e, entry.pos.row, entry.pos.column)
    IN IF entry.type = "DELETE" THEN InsertChar(moved, entry.ch, FALSE)
       ELSE DeleteChar(moved, FALSE)

Undo(e) ==
    LET entry   == Last(e.history)
        Step(x) == UndoOne(x, entry)
    IN IF e.history = <<>> THEN e
       ELSE Repeat(entry.nchars, Step, [e EXCEPT !.history = Front(@)])

\* Mutant: the search goes on one column after an occurrence, not after its end.
MatchesOverlapping(l, s) ==
    {j \in 0..(Len(l) - Len(s)) : SubSeq(l, j + 1, j + Len(s)) = s}

\* The columns at which editor_do_search reports the content s in line l: an
\* occurrence counts unless it overlaps one already reported to its left.
Matches(l, s) ==
    LET found[j \in 0..Len(l)] ==
            /\ SubSeq(l, j + 1, j + Len(s)) = s
            /\ \A k \in MAX(0, j - Len(s) + 1)..(j - 1) : ~found[k]
    IN {j \in 0..(Len(l) - Len(s)) : found[j]}

SearchResult == [row : Nat, begin : Nat, end : Nat]

DoSearch(buffer, s) ==
    UNION {{[row |-> i - 1, begin |-> j, end |-> j + Len(s)] :
              j \in Matches(buffer[i], s)} : i \in DOMAIN buffer}

-----------------------------------------------------------------------------
(* The frame loop *)

Init ==
    /\ ed = EmptyText
    /\ mode = "INSERT"
    /\ search_content = <<>>
    /\ search_results = {}
    /\ input_status = [held |-> {}, capslock |-> FALSE]
    /\ overdue = FALSE
    /\ pc = "clear"

\* Mutant: the clock is reset before the mode is tested, and the text kept.
MaybeClearScreenForgets ==
    /\ pc = "clear"
    /\ pc' = "key"
    /\ overdue' = FALSE
    /\ UNCHANGED <<ed, mode, search_content, search_results, input_status>>

\* editor_init, called again, forgets everything but the modifier keys.
MaybeClearScreen ==
    /\ pc = "clear"
    /\ pc' = "key"
    /\ IF mode = "INSERT" /\ overdue
       THEN /\ ed' = EmptyText
            /\ search_content' = <<>>
            /\ search_results' = {}
            /\ overdue' = FALSE
       ELSE UNCHANGED <<ed, search_content, search_results, overdue>>
    /\ UNCHANGED <<mode, input_status>>

Ctrl == input_status.held \cap CtrlKeys # {}

\* What input_keybrd reports of the keys that keylut knows; a scan code
\* without an entry, and an empty buffer, are no event (IgnoreKey).
KeyEvent == [keydown : BOOLEAN, keycode : Keys]

\* editor_handle_key has read the event: key k goes down.
KeyDown(k) ==
    /\ pc = "key" /\ pc' = "repaint"
    /\ [keydown |-> TRUE, keycode |-> k] \in KeyEvent

\* The second switch of editor_handle_key: reached without Ctrl.
Command(k) == KeyDown(k) /\ ~Ctrl

\* No event, a key released, a key without a case, any key but Z under Ctrl,
\* an arrow in a search, an edit of the search bar while results are shown.
IgnoreKey ==
    /\ pc = "key"
    /\ pc' = "repaint"
    /\ UNCHANGED <<ed, mode, search_content, search_results, input_status, overdue>>

HoldModifier(k) ==
    /\ KeyDown(k)
    /\ k \in ShiftKeys \cup CtrlKeys
    /\ input_status' = [input_status EXCEPT !.held = @ \cup {k}]
    /\ UNCHANGED <<ed, mode, search_content, search_results, overdue>>

ReleaseModifier(k) ==
    /\ pc = "key" /\ pc' = "repaint"
    /\ [keydown |-> FALSE, keycode |-> k] \in KeyEvent
    /\ k \in input_status.held
    /\ input_status' = [input_status EXCEPT !.held = @ \ {k}]
    /\ UNCHANGED <<ed, mode, search_content, search_results, overdue>>

ToggleCapslock ==
    /\ KeyDown("CAPSLOCK")
    /\ input_status' = [input_status EXCEPT !.capslock = ~@]
    /\ UNCHANGED <<ed, mode, search_content, search_results, overdue>>

\* Ctrl+Z comes before the test of the mode: it works in a search too.
UndoKey ==
    /\ KeyDown("Z")
    /\ Ctrl
    /\ ed' = Undo(ed)
    /\ UNCHANGED <<mode, search_content, search_results, input_status, overdue>>

ExitKey ==
    /\ pc = "key"
    /\ [keydown |-> TRUE, keycode |-> "F2"] \in KeyEvent
    /\ ~Ctrl
    /\ pc' = "exit"
    /\ UNCHANGED <<ed, mode, search_content, search_results, input_status, overdue>>

StartSearch ==
    /\ Command("ESCAPE")
    /\ mode = "INSERT"
    /\ mode' = "SEARCH"
    /\ UNCHANGED <<ed, search_content, search_results, input_status, overdue>>

LeaveSearch ==
    /\ Command("ESCAPE")
    /\ mode = "SEARCH"
    /\ mode' = "INSERT"
    /\ overdue' = FALSE
    /\ search_content' = <<>>
    /\ search_results' = {}
    /\ UNCHANGED <<ed, input_status>>

Moved(k) ==
    LET c == ed.cursor
    IN CASE k = "UP"    -> MoveCursor(ed, c.row - 1, c.column)
         [] k = "DOWN"  -> MoveCursor(ed, c.row + 1, c.column)
         [] k = "LEFT"  -> MoveCursor(ed, c.row, c.column - 1)
         [] k = "RIGHT" -> MoveCursor(ed, c.row, c.column + 1)

MoveKey(k) ==
    /\ k \in {"UP", "DOWN", "LEFT", "RIGHT"}
    /\ Command(k)
    /\ mode = "INSERT"
    /\ ed' = Moved(k)
    /\ UNCHANGED <<mode, search_content, search_results, input_status, overdue>>

\* A letter, a number, TAB, SPACE or RETURN typed into the text.
InsertKey(k) ==
    /\ k \in TextKeys
    /\ Command(k)
    /\ mode = "INSERT"
    /\ Len(ed.history) < MaxHistory
    /\ ed' = InsertChar(ed, KeycodeToChar(k), TRUE)
    /\ UNCHANGED <<mode, search_content, search_results, input_status, overdue>>

DeleteKey ==
    /\ Command("BACKSPACE")
    /\ mode = "INSERT"
    /\ Len(ed.history) < MaxHistory
    /\ ed' = DeleteChar(ed, TRUE)
    /\ UNCHANGED <<mode, search_content, search_results, input_status, overdue>>

\* Mutant: the search bar stays editable while results are shown.
EditSearchAlways(k) ==
    /\ Command(k)
    /\ mode = "SEARCH"
    /\ \/ /\ k \in TextKeys \ {"RETURN"}
          /\ Len(search_content) < MaxSearch
          /\ search_content' = Append(search_content, KeycodeToChar(k))
       \/ /\ k = "BACKSPACE"
          /\ search_content # <<>>
          /\ search_content' = Front(search_content)
    /\ UNCHANGED <<ed, mode, search_results, input_status, overdue>>

\* The search bar is editable until a search finds something.
EditSearch(k) ==
    /\ Command(k)
    /\ mode = "SEARCH"
    /\ search_results = {}
    /\ \/ /\ k \in TextKeys \ {"RETURN"}
          /\ Len(search_content) < MaxSearch
          /\ search_content' = Append(search_content, KeycodeToChar(k))
       \/ /\ k = "BACKSPACE"
          /\ search_content # <<>>
          /\ search_content' = Front(search_content)
    /\ UNCHANGED <<ed, mode, search_results, input_status, overdue>>

SearchKey ==
    /\ Command("RETURN")
    /\ mode = "SEARCH"
    /\ search_results = {}
    /\ search_content # <<>>
    /\ search_results' = DoSearch(ed.buffer, search_content)
    /\ UNCHANGED <<ed, mode, search_content, input_status, overdue>>

HandleKey ==
    \/ IgnoreKey
    \/ \E k \in Keys : HoldModifier(k) \/ ReleaseModifier(k)
    \/ ToggleCapslock
    \/ UndoKey
    \/ ExitKey
    \/ StartSearch
    \/ LeaveSearch
    \/ \E k \in Keys : MoveKey(k) \/ InsertKey(k) \/ EditSearch(k)
    \/ DeleteKey
    \/ SearchKey

\* Mutant: i <= MIN(...) instead of i < MIN(...) in the loop over a result.
ReadEndInclusive(r) == MIN(r.end + 1, ed.view.column + Width)

\* The last column of a result that editor_repaint reads, and whether it
\* reads any of it.
ReadEnd(r) == MIN(r.end, ed.view.column + Width)
Drawn(r) ==
    /\ mode = "SEARCH"
    /\ r.row >= ed.view.row /\ r.row < ed.view.row + Height
    /\ MAX(r.begin, ed.view.column) < ReadEnd(r)

\* Line_at(l, i) for a result: its assertion fails past the end of the line.
\* A row past the last line is a slot of the vector that holds no line any
\* more: what is read there is undefined, the assertion fails or not.
AssertMustFail == \E r \in search_results :
    Drawn(r) /\ r.row < Len(ed.buffer) /\ ReadEnd(r) > Len(LineAt(ed, r.row))
AssertMayFail  == \E r \in search_results :
    Drawn(r) /\ r.row >= Len(ed.buffer)

\* editor_repaint returns and the loop waits for the next frame: time passes.
Repaint ==
    /\ pc = "repaint"
    /\ ~AssertMustFail
    /\ pc' = "clear"
    /\ overdue' \in {overdue, TRUE}
    /\ UNCHANGED <<ed, mode, search_content, search_results, input_status>>

RepaintHalts ==
    /\ pc = "repaint"
    /\ AssertMustFail \/ AssertMayFail
    /\ pc' = "halted"
    /\ UNCHANGED <<ed, mode, search_content, search_results, input_status, overdue>>

Next == MaybeClearScreen \/ HandleKey \/ Repaint \/ RepaintHalts

Stopped == pc \in {"exit", "halted"}

\* The clock of the machine does not stop: as long as nobody resets
\* last_clear_time by searching, clear_interval passes again and again.
TimePasses == []<>overdue \/ []<>(mode = "SEARCH") \/ <>[]Stopped

Spec == Init /\ [][Next]_vars
FairSpec == Spec /\ WF_vars(Next) /\ TimePasses

-----------------------------------------------------------------------------
(* Properties *)

\* Types, and what the pointers of the C code rely on: the text has a line,
\* the cursor is on a line and not past its end (editor.c indexes
\* buf->arr[cur->row] without a check).
CursorInText(e) ==
    /\ e.cursor.row < Len(e.buffer)
    /\ e.cursor.column <= Len(CursorLine(e))

TextOK(e) ==
    /\ e \in [buffer : Seq(Line), cursor : Position, view : Position,
              history : Seq(HistoryEntry)]
    /\ CursorInText(e)

EditorTypeOK ==
    /\ TextOK(ed)
    /\ mode \in {"INSERT", "SEARCH"}
    /\ search_content \in Seq(Char \ {Newline})
    /\ search_results \in SUBSET SearchResult
    /\ input_status \in [held : SUBSET (ShiftKeys \cup CtrlKeys), capslock : BOOLEAN]
    /\ overdue \in BOOLEAN
    /\ pc \in {"clear", "key", "repaint", "exit", "halted"}

\* A search is exact: the results are occurrences of the content, they do
\* not overlap, and every occurrence overlaps a result (editor_do_search).
Occurs(row, column) ==
    /\ column + Len(search_content) <= Len(LineAt(ed, row))
    /\ SubSeq(LineAt(ed, row), column + 1, column + Len(search_content))
         = search_content

Overlap(r, row, column) ==
    /\ r.row = row
    /\ r.begin < column + Len(search_content) /\ column < r.end

SearchExact ==
    /\ \A r \in search_results : /\ r.row < Len(ed.buffer)
                                 /\ Occurs(r.row, r.begin)
                                 /\ r.end = r.begin + Len(search_content)
    /\ \A r, s \in search_results : r # s => ~Overlap(r, s.row, s.begin)
    /\ \A row \in 0..(Len(ed.buffer) - 1) :
         \A column \in 0..Len(LineAt(ed, row)) :
           Occurs(row, column) => \E r \in search_results : Overlap(r, row, column)

SearchFindsExactly ==
    [][search_results = {} /\ search_results' # {} => SearchExact']_vars

\* While results are shown, only an undo changes what they were found in:
\* until they are thrown away, the text, the content and the results stay
\* (editor_handle_key, editor_toggle_mode, editor_maybe_clear_screen).
ResultsFrozen ==
    [][search_results # {} /\ search_results' # {} /\ ~UndoKey
         => UNCHANGED <<ed, search_content, search_results>>]_vars

\* The assertion of kvector.h stops the machine only on results that are
\* wrong for the text on the screen.
HaltsOnlyOnStaleResults == pc = "halted" => search_results # {} /\ ~SearchExact

\* kvector.h asserts that an index is below the size of its vector; nobody
\* who edits text expects a key to stop the machine.
NoAssertFailure == pc # "halted"

\* The cell of the cursor is on the screen unless a line was joined to the
\* one above it (editor_join_line does not scroll) or a vertical scroll
\* kept the horizontal one from being done (editor_move_cursor).
CursorVisible ==
    /\ ed.cursor.row \in ed.view.row..(ed.view.row + Height - 1)
    /\ ed.cursor.column \in ed.view.column..(ed.view.column + Width - 1)

CursorHiddenOnlyBy ==
    [][CursorVisible /\ ~CursorVisible'
         => \/ Len(ed'.buffer) < Len(ed.buffer)
            \/ ed'.view.row # ed.view.row]_vars

\* A text that is not being searched is cleared in the end
\* (editor_maybe_clear_screen).
TextIsCleared ==
    mode = "INSERT" ~> (ed = EmptyText \/ mode = "SEARCH" \/ Stopped)

=============================================================================
