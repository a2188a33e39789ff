---------------------------- MODULE EditorProofs ----------------------------
(***************************************************************************)
(* The theorems of the editor and of the screen it is shown on, for every  *)
(* keyboard, every window and every length of the history:                 *)
(*   TypeCorrect           the cursor stays on the text                    *)
(*   HaltsOnlyWhenStale    the assertion of kvector.h fails only on        *)
(*                         results of another text                         *)
(*   ResultsAreFrozen      only an undo changes what is searched           *)
(*   SearchesAreExact      what a search finds                             *)
(*   CursorIsFollowed      when the cursor is lost from sight              *)
(*   UndoTypeCorrect, UndoRestoresExactly                                  *)
(*                         an undo takes the last edit back, and when not  *)
(*   OverrunOnlyOnLongLines, ScreenTypeCorrect, ScreenShowsTheText         *)
(*                         what reaches the frame buffer                   *)
(*                                                                         *)
(* One lemma per operator on a text shows that it maps a text whose cursor *)
(* is in the text to such a text.  The later sections describe a text by   *)
(* the edits that made it: Typed for characters, Split and Join for lines. *)
(***************************************************************************)
EXTENDS EditorUndo, Screen, DataLemmas, SequenceTheorems, TLAPS

Text == [buffer : Seq(Line), cursor : Position, view : Position,
         history : Seq(HistoryEntry)]

-----------------------------------------------------------------------------
(* Sequences and characters *)

\* The characters that a line never holds.
LEMMA CharProperties ==
    /\ Space \in TextChar
    /\ Tab \in Char
    /\ Newline \in Char \ {Tab}
    /\ TextChar = Char \ {Tab, Newline}
  BY DEF Space, Tab, Newline, Plain, TextChar, Char, TextKeys

-----------------------------------------------------------------------------
(* The operators on a text *)

\* The view stays at a position of the text.
LEMMA ScrollType ==
    ASSUME NEW v \in Position, NEW c \in Position
    PROVE  Scroll(v, c) \in Position
  BY SizeAssumption DEF Scroll, Position

\* editor_move_cursor repairs any position: this is what makes the cursor
\* safe after an undo, whose entries may point outside of the text.
LEMMA MoveCursorOK ==
    ASSUME NEW e \in Text, e.buffer # <<>>, NEW row \in Int, NEW column \in Int
    PROVE  /\ TextOK(MoveCursor(e, row, column))
           /\ MoveCursor(e, row, column).buffer = e.buffer
           /\ MoveCursor(e, row, column).history = e.history
           /\ row \in 0..(Len(e.buffer) - 1) =>
                /\ MoveCursor(e, row, column).cursor.row = row
                /\ column \in 0..Len(LineAt(e, row)) =>
                     MoveCursor(e, row, column).cursor.column = column
  <1> DEFINE r == MAX(0, MIN(row, Len(e.buffer) - 1))
             c == At(r, MAX(0, MIN(column, Len(LineAt(e, r)))))
  <1>1. e.buffer \in Seq(Line) /\ Len(e.buffer) \in Nat \ {0}
    BY EmptySeq DEF Text
  <1>2. r \in 0..(Len(e.buffer) - 1) /\ (row \in 0..(Len(e.buffer) - 1) => r = row)
    BY <1>1 DEF MAX, MIN
  <1>3. LineAt(e, r) \in Line
    BY <1>1, <1>2, ElementOfSeq DEF LineAt
  <1>4. Len(LineAt(e, r)) \in Nat
    BY <1>3, LenProperties DEF Line
  <1>5. /\ c \in Position
        /\ c.row = r
        /\ c.column <= Len(LineAt(e, r))
        /\ column \in 0..Len(LineAt(e, r)) => c.column = column
    BY <1>2, <1>4 DEF At, Position, MAX, MIN
  <1>6. Scroll(e.view, c) \in Position
    BY <1>5, ScrollType DEF Text
  <1>7. MoveCursor(e, row, column) = [e EXCEPT !.cursor = c, !.view = Scroll(@, c)]
    BY DEF MoveCursor
  <1>8. MoveCursor(e, row, column) =
          [buffer |-> e.buffer, cursor |-> c, view |-> Scroll(e.view, c),
           history |-> e.history]
    BY <1>7 DEF Text
  <1> HIDE DEF r, c
  <1> QED
    BY <1>1, <1>2, <1>5, <1>6, <1>8 DEF TextOK, Text, CursorInText, CursorLine, LineAt

\* An entry is added to the history and nothing else changes.
LEMMA RecordOK ==
    ASSUME NEW e \in Text, NEW add \in BOOLEAN, NEW type \in {"INSERT", "DELETE"},
           NEW ch \in Char \ {Tab}, NEW n \in {1, 4}, NEW pos \in Position,
           n = 4 => ch = Space
    PROVE  /\ Record(e, add, type, ch, n, pos) \in Text
           /\ Record(e, add, type, ch, n, pos).buffer = e.buffer
           /\ Record(e, add, type, ch, n, pos).cursor = e.cursor
           /\ Record(e, add, type, ch, n, pos).view = e.view
  <1> DEFINE entry == [type |-> type, ch |-> ch, nchars |-> n, pos |-> pos]
  <1>1. entry \in HistoryEntry
    BY DEF HistoryEntry
  <1>2. Append(e.history, entry) \in Seq(HistoryEntry)
    BY <1>1, AppendProperties DEF Text
  <1>3. Record(e, add, type, ch, n, pos)
          = IF add THEN [e EXCEPT !.history = Append(e.history, entry)] ELSE e
    BY DEF Record
  <1> DEFINE h == Append(e.history, entry)
  <1> HIDE DEF entry, h
  <1> QED
    BY <1>2, <1>3 DEF Text, h

\* What TextOK says of a text, in the form the lemmas below use.
LEMMA TextFacts ==
    ASSUME NEW e, TextOK(e)
    PROVE  /\ e \in Text
           /\ e.buffer \in Seq(Line)
           /\ Len(e.buffer) \in Nat \ {0}
           /\ e.buffer # <<>>
           /\ e.cursor.row \in 0..(Len(e.buffer) - 1)
           /\ CursorLine(e) \in Line
           /\ Len(CursorLine(e)) \in Nat
           /\ e.cursor.column \in 0..Len(CursorLine(e))
  <1>1. /\ e \in Text
        /\ e.buffer \in Seq(Line)
        /\ e.cursor.row \in Nat /\ e.cursor.column \in Nat
        /\ e.cursor.row < Len(e.buffer)
        /\ e.cursor.column <= Len(CursorLine(e))
    BY DEF TextOK, Text, CursorInText, Position
  <1>2. Len(e.buffer) \in Nat
    BY <1>1, LenProperties
  <1>3. CursorLine(e) \in Line
    BY <1>1, <1>2, ElementOfSeq DEF CursorLine, LineAt
  <1>4. Len(CursorLine(e)) \in Nat
    BY <1>3, LenProperties DEF Line
  <1> QED
    BY <1>1, <1>2, <1>3, <1>4, EmptySeq

\* A new buffer keeps a text a text.
LEMMA NewBuffer ==
    ASSUME NEW e \in Text, NEW b \in Seq(Line)
    PROVE  /\ [e EXCEPT !.buffer = b] \in Text
           /\ [e EXCEPT !.buffer = b].buffer = b
  BY DEF Text

\* editor_insert_linebreak keeps a text a text.
LEMMA InsertLinebreakOK ==
    ASSUME NEW e, TextOK(e), NEW add \in BOOLEAN
    PROVE  TextOK(InsertLinebreak(e, add))
  <1> DEFINE r    == e.cursor.row
             l    == CursorLine(e)
             c    == e.cursor.column
             e1   == Record(e, add, "INSERT", Newline, 1, At(r + 1, 0))
             head == SubSeq(l, 1, c)
             tail == SubSeq(l, c + 1, Len(l))
             cut  == [e.buffer EXCEPT ![r + 1] = head]
             b    == InsertAt(cut, r + 2, tail)
  <1>1. /\ head \in Line /\ tail \in Line
    BY TextFacts, SubSeqProperties, ElementOfSeq DEF Line
  <1>2. /\ cut \in Seq(Line) /\ Len(cut) = Len(e.buffer)
    BY <1>1, TextFacts, ExceptSeq
  <1>3. /\ b \in Seq(Line) /\ Len(b) = Len(e.buffer) + 1
    <2>1. r + 2 \in 1..(Len(cut) + 1)
      BY <1>2, TextFacts
    <2> HIDE DEF cut, tail
    <2> QED
      BY <1>1, <1>2, <2>1, InsertAtElements
  <1>4. /\ e1 \in Text /\ e1.buffer = e.buffer
    <2>1. At(r + 1, 0) \in Position
      BY TextFacts DEF At, Position
    <2> QED
      BY <2>1, TextFacts, RecordOK, CharProperties
  <1>5. InsertLinebreak(e, add) = MoveCursor([e1 EXCEPT !.buffer = b], r + 1, 0)
    <2>1. [e1 EXCEPT !.buffer = InsertAt([@ EXCEPT ![r + 1] = head], r + 2, tail)]
            = [e1 EXCEPT !.buffer = b]
      BY <1>4
    <2> QED
      BY <2>1 DEF InsertLinebreak
  <1> HIDE DEF e1, b
  <1>6. /\ [e1 EXCEPT !.buffer = b] \in Text
        /\ [e1 EXCEPT !.buffer = b].buffer # <<>>
    BY <1>3, <1>4, NewBuffer, TextFacts, EmptySeq
  <1>7. r + 1 \in Int /\ 0 \in Int
    BY TextFacts
  <1> DEFINE e2 == [e1 EXCEPT !.buffer = b]
  <1> HIDE DEF r, e2
  <1>8. TextOK(MoveCursor(e2, r + 1, 0))
    BY <1>6, <1>7, MoveCursorOK, Zenon DEF e2
  <1> QED
    BY <1>5, <1>8 DEF e2

\* One character typed keeps a text a text.
LEMMA InsertOneOK ==
    ASSUME NEW e, TextOK(e), NEW ch \in TextChar
    PROVE  TextOK(InsertOne(e, ch))
  <1> DEFINE c == e.cursor
             l == InsertAt(CursorLine(e), c.column + 1, ch)
             b == [e.buffer EXCEPT ![c.row + 1] = l]
  <1>1. l \in Line
    <2>1. CursorLine(e) \in Seq(TextChar) /\ c.column + 1 \in 1..(Len(CursorLine(e)) + 1)
      BY TextFacts DEF Line
    <2> HIDE DEF c
    <2> QED
      BY <2>1, InsertAtElements DEF Line
  <1> HIDE DEF l
  <1>2. b \in Seq(Line) /\ b # <<>>
    BY <1>1, TextFacts, ExceptSeq, EmptySeq
  <1>3. InsertOne(e, ch) = MoveCursor([e EXCEPT !.buffer = b], c.row, c.column + 1)
    BY TextFacts DEF InsertOne, CursorLine, LineAt, l, Text
  <1>4. e \in Text /\ c.row \in Int /\ c.column + 1 \in Int
    BY TextFacts
  <1> HIDE DEF b, c
  <1>5. [e EXCEPT !.buffer = b] \in Text /\ [e EXCEPT !.buffer = b].buffer # <<>>
    BY <1>2, <1>4, NewBuffer
  <1> DEFINE e1 == [e EXCEPT !.buffer = b]
  <1> HIDE DEF e1
  <1>6. TextOK(MoveCursor(e1, c.row, c.column + 1))
    BY <1>4, <1>5, MoveCursorOK, Zenon DEF e1
  <1> QED
    BY <1>3, <1>6 DEF e1

\* editor_insert_char keeps a text a text.
LEMMA InsertCharOK ==
    ASSUME NEW e, TextOK(e), NEW ch \in Char, NEW add \in BOOLEAN
    PROVE  TextOK(InsertChar(e, ch, add))
  <1>1. CASE ch = Newline
    BY <1>1, InsertLinebreakOK DEF InsertChar
  <1>2. CASE ch # Newline
    <2> DEFINE n  == IF ch = Tab THEN 4 ELSE 1
               x  == IF ch = Tab THEN Space ELSE ch
               e1 == Record(e, add, "INSERT", x, n, At(e.cursor.row, e.cursor.column + 1))
               I(y) == InsertOne(y, x)
    <2>1. x \in TextChar /\ x \in Char \ {Tab} /\ n \in {1, 4} /\ (n = 4 => x = Space)
      BY <1>2, CharProperties
    <2>2. TextOK(e1)
      <3>1. At(e.cursor.row, e.cursor.column + 1) \in Position
        BY TextFacts DEF At, Position
      <3> QED
        BY <2>1, <3>1, RecordOK, TextFacts DEF TextOK, Text, CursorInText, CursorLine, LineAt
    <2> HIDE DEF x, e1
    <2>3. \A y : TextOK(y) => TextOK(I(y))
      BY <2>1, InsertOneOK
    <2>4. TextOK(I(e1)) /\ TextOK(I(I(I(I(e1)))))
      BY <2>2, <2>3
    <2>5. InsertChar(e, ch, add) = IF n = 1 THEN I(e1) ELSE I(I(I(I(e1))))
      BY <1>2 DEF InsertChar, Repeat, x, e1
    <2> QED
      BY <2>4, <2>5
  <1> QED
    BY <1>1, <1>2

\* The view is left alone, but the cursor is put where the lines meet.
LEMMA JoinLineOK ==
    ASSUME NEW e, TextOK(e), NEW add \in BOOLEAN
    PROVE  TextOK(JoinLine(e, add))
  <1>1. CASE e.cursor.row = 0
    BY <1>1 DEF JoinLine
  <1>2. CASE e.cursor.row # 0
    <2> DEFINE r      == e.cursor.row
               prev   == LineAt(e, r - 1)
               e1     == Record(e, add, "DELETE", Newline, 1, At(r - 1, Len(prev)))
               joined == [e.buffer EXCEPT ![r] = prev \o CursorLine(e)]
               b      == RemoveAt(joined, r + 1)
               c      == At(r - 1, Len(prev))
    <2>1. r \in 1..(Len(e.buffer) - 1) /\ r \in 1..Len(e.buffer)
      BY <1>2, TextFacts
    <2>2. prev \in Line /\ Len(prev) \in Nat
      BY <2>1, TextFacts, ElementOfSeq, LenProperties DEF LineAt, Line
    <2>3. /\ prev \o CursorLine(e) \in Line
          /\ Len(prev \o CursorLine(e)) >= Len(prev)
      BY <2>2, TextFacts, ConcatProperties DEF Line
    <2>4. /\ joined \in Seq(Line) /\ Len(joined) = Len(e.buffer)
          /\ joined[r] = prev \o CursorLine(e)
      BY <2>1, <2>3, TextFacts, ExceptSeq, SMTT(30)
    <2>5. c \in Position
      BY <2>1, <2>2 DEF At, Position
    <2>6. e1 \in Text /\ e1.buffer = e.buffer /\ e1.view = e.view
      BY <2>5, TextFacts, RecordOK, CharProperties
    <2>7. /\ b \in Seq(Line) /\ Len(b) = Len(e.buffer) - 1
          /\ b[r] = joined[r]
      <3>1. r + 1 \in 1..Len(joined)
        BY <2>1, <2>4, TextFacts
      <3>2. r \in 1..(Len(joined) - 1) /\ r < r + 1 /\ Len(joined) = Len(e.buffer)
        BY <2>1, <2>4, TextFacts
      <3> HIDE DEF joined, r
      <3>3. /\ b \in Seq(Line) /\ Len(b) = Len(joined) - 1
            /\ \A k \in 1..(Len(joined) - 1) :
                 b[k] = IF k < r + 1 THEN joined[k] ELSE joined[k + 1]
        BY <2>4, <3>1, RemoveAtElements
      <3> QED
        BY ONLY <3>2, <3>3
    <2> HIDE DEF joined, prev
    <2>8. JoinLine(e, add) = [e1 EXCEPT !.buffer = b, !.cursor = c]
      BY <1>2, <2>6 DEF JoinLine, joined, prev, Text
    <2> HIDE DEF b, c, e1
    <2>9. JoinLine(e, add) = [buffer |-> b, cursor |-> c, view |-> e.view,
                               history |-> e1.history]
      BY <2>6, <2>8 DEF Text
    <2>10. c.row = r - 1 /\ c.column = Len(prev)
      BY DEF c, At
    <2>11. JoinLine(e, add) \in Text
      BY <2>5, <2>6, <2>7, <2>9 DEF Text
    <2>12. c.row < Len(b)
      BY <2>1, <2>7, <2>10, TextFacts
    <2>13. c.column <= Len(b[c.row + 1])
      <3>1. b[c.row + 1] = prev \o CursorLine(e)
        <4>1. c.row + 1 = r
          BY <2>1, <2>10, TextFacts
        <4> QED
          BY <2>4, <2>7, <4>1
      <3> QED
        BY <2>3, <2>10, <3>1
    <2> QED
      BY <2>9, <2>11, <2>12, <2>13 DEF TextOK, Text, CursorInText, CursorLine, LineAt
  <1> QED
    BY <1>1, <1>2

\* One character before the cursor goes, and the cursor with it.
LEMMA DeleteOneOK ==
    ASSUME NEW e, TextOK(e), e.cursor.column >= 1
    PROVE  /\ TextOK(DeleteOne(e))
           /\ DeleteOne(e).cursor.column = e.cursor.column - 1
  <1> DEFINE c == e.cursor
             l == RemoveAt(CursorLine(e), c.column)
             b == [e.buffer EXCEPT ![c.row + 1] = l]
             e1 == [e EXCEPT !.buffer = b]
  <1>1. l \in Line /\ Len(l) = Len(CursorLine(e)) - 1
    <2>1. CursorLine(e) \in Seq(TextChar) /\ c.column \in 1..Len(CursorLine(e))
      BY TextFacts DEF Line
    <2> HIDE DEF c
    <2> QED
      BY <2>1, RemoveAtElements DEF Line
  <1> HIDE DEF l
  <1>2. /\ b \in Seq(Line) /\ b # <<>> /\ Len(b) = Len(e.buffer)
        /\ b[c.row + 1] = l
    BY <1>1, TextFacts, ExceptSeq, EmptySeq
  <1>3. DeleteOne(e) = MoveCursor(e1, c.row, c.column - 1)
    BY TextFacts DEF DeleteOne, CursorLine, LineAt, l, Text
  <1>4. e1 \in Text /\ e1.buffer = b
    BY <1>2, TextFacts, NewBuffer
  <1>5. /\ c.row \in 0..(Len(e1.buffer) - 1) /\ c.row \in Int
        /\ c.column - 1 \in 0..Len(LineAt(e1, c.row)) /\ c.column - 1 \in Int
    BY <1>1, <1>2, <1>4, TextFacts DEF LineAt
  <1> HIDE DEF b, e1, c
  <1>6. /\ TextOK(MoveCursor(e1, c.row, c.column - 1))
        /\ MoveCursor(e1, c.row, c.column - 1).cursor.column = c.column - 1
    BY <1>2, <1>4, <1>5, MoveCursorOK, Zenon
  <1> QED
    BY <1>3, <1>6 DEF c

\* editor_delete_char keeps a text a text.
LEMMA DeleteCharOK ==
    ASSUME NEW e, TextOK(e), NEW add \in BOOLEAN
    PROVE  TextOK(DeleteChar(e, add))
  <1>1. CASE e.cursor.column = 0
    BY <1>1, JoinLineOK DEF DeleteChar
  <1>2. CASE e.cursor.column # 0
    <2> DEFINE c  == e.cursor
               l  == CursorLine(e)
               n  == IF HasTab(l, c.column) THEN 4 ELSE 1
               ch == l[c.column - n + 1]
               e1 == Record(e, add, "DELETE", ch, n, At(c.row, c.column - n))
    <2>1. /\ n \in {1, 4} /\ c.column \in Nat /\ c.column >= n
      BY <1>2, TextFacts DEF HasTab
    <2>2. ch \in Char \ {Tab} /\ (n = 4 => ch = Space)
      <3>0. n = 4 => ch = Space
        BY <2>1 DEF HasTab
      <3>1. c.column - n + 1 \in 1..Len(l)
        BY <2>1, TextFacts
      <3> HIDE DEF n, c
      <3> QED
        BY <3>0, <3>1, TextFacts, ElementOfSeq, CharProperties DEF Line
    <2>3. At(c.row, c.column - n) \in Position
      BY <2>1, TextFacts DEF At, Position
    <2> HIDE DEF ch, n
    <2>4. /\ e1 \in Text /\ e1.buffer = e.buffer /\ e1.cursor = e.cursor
      BY <2>1, <2>2, <2>3, TextFacts, RecordOK
    <2> HIDE DEF e1
    <2>5. TextOK(e1) /\ e1.cursor.column = c.column
      BY <2>4, TextFacts DEF TextOK, Text, CursorInText, CursorLine, LineAt
    <2>6. DeleteChar(e, add) = Repeat(n, DeleteOne, e1)
      BY <1>2 DEF DeleteChar, ch, n, e1
    <2>7. CASE n = 1
      BY <2>1, <2>5, <2>6, <2>7, DeleteOneOK DEF Repeat
    <2>8. CASE n = 4
      <3> DEFINE d1 == DeleteOne(e1)
                 d2 == DeleteOne(d1)
                 d3 == DeleteOne(d2)
      <3>1. TextOK(d1) /\ d1.cursor.column = c.column - 1
        BY <2>1, <2>5, <2>8, DeleteOneOK
      <3> HIDE DEF d1
      <3>2. TextOK(d2) /\ d2.cursor.column = c.column - 2
        BY <2>1, <2>8, <3>1, DeleteOneOK
      <3> HIDE DEF d2
      <3>3. TextOK(d3) /\ d3.cursor.column = c.column - 3
        BY <2>1, <2>8, <3>2, DeleteOneOK
      <3> HIDE DEF d3
      <3>4. TextOK(DeleteOne(d3))
        BY <2>1, <2>8, <3>3, DeleteOneOK
      <3> QED
        BY <2>6, <2>8, <3>4 DEF Repeat, d1, d2, d3
    <2> QED
      BY <2>1, <2>7, <2>8
  <1> QED
    BY <1>1, <1>2

\* Whatever position an entry names, undoing it leaves a good text.
LEMMA UndoOneOK ==
    ASSUME NEW e, TextOK(e), NEW entry \in HistoryEntry
    PROVE  TextOK(UndoOne(e, entry))
  <1> DEFINE m == MoveCursor(e, entry.pos.row, entry.pos.column)
  <1>1. entry.pos.row \in Int /\ entry.pos.column \in Int /\ entry.ch \in Char
    BY DEF HistoryEntry, Position
  <1>2. TextOK(m)
    BY <1>1, TextFacts, MoveCursorOK
  <1> HIDE DEF m
  <1>3. TextOK(InsertChar(m, entry.ch, FALSE)) /\ TextOK(DeleteChar(m, FALSE))
    BY <1>1, <1>2, InsertCharOK, DeleteCharOK
  <1> QED
    BY <1>3 DEF UndoOne, m

\* editor_undo keeps a text a text.
LEMMA UndoOK ==
    ASSUME NEW e, TextOK(e)
    PROVE  TextOK(Undo(e))
  <1>1. CASE e.history = <<>>
    BY <1>1 DEF Undo
  <1>2. CASE e.history # <<>>
    <2> DEFINE entry   == Last(e.history)
               Step(x) == UndoOne(x, entry)
               e1      == [e EXCEPT !.history = Front(e.history)]
    <2>1. e.history \in Seq(HistoryEntry) /\ Len(e.history) \in Nat \ {0}
      BY <1>2, TextFacts, EmptySeq DEF Text
    <2>2. entry \in HistoryEntry
      BY <2>1, ElementOfSeq DEF Last
    <2>3. Front(e.history) \in Seq(HistoryEntry)
      BY <2>1, SubSeqProperties, ElementOfSeq DEF Front
    <2>4. TextOK(e1)
      BY <2>3, TextFacts DEF TextOK, Text, CursorInText, CursorLine, LineAt
    <2> HIDE DEF entry, e1
    <2>5. \A x : TextOK(x) => TextOK(Step(x))
      BY <2>2, UndoOneOK
    <2> HIDE DEF Step
    <2>6. TextOK(Step(e1)) /\ TextOK(Step(Step(Step(Step(e1)))))
      BY <2>4, <2>5
    <2>7. Undo(e) = IF entry.nchars = 1 THEN Step(e1) ELSE Step(Step(Step(Step(e1))))
      BY <1>2 DEF Undo, Repeat, Step, entry, e1
    <2> QED
      BY <2>6, <2>7
  <1> QED
    BY <1>1, <1>2

-----------------------------------------------------------------------------
(* The frame loop *)

\* Only the typing of the modifier keys is needed of them.
LEMMA KeycodeToCharType ==
    ASSUME NEW k \in TextKeys
    PROVE  KeycodeToChar(k) \in Char
  BY DEF KeycodeToChar, Char

\* editor_init makes a text.
LEMMA EmptyTextOK == TextOK(EmptyText)
  <1>1. <<>> \in Line /\ <<>> \in Seq(HistoryEntry) /\ Len(<<>>) = 0
    BY EmptySeq DEF Line
  <1>2. << <<>> >> \in Seq(Line) /\ Len(<< <<>> >>) = 1
    BY <1>1
  <1>3. EmptyText.buffer[1] = <<>>
    BY DEF EmptyText
  <1> QED
    BY <1>1, <1>2, <1>3
    DEF TextOK, EmptyText, CursorInText, CursorLine, LineAt, At, Position

\* Results are records of a row and its columns.
LEMMA DoSearchType ==
    ASSUME NEW b \in Seq(Line), NEW s \in Seq(Char)
    PROVE  DoSearch(b, s) \in SUBSET SearchResult
  <1> SUFFICES ASSUME NEW i \in DOMAIN b, NEW j \in Matches(b[i], s)
               PROVE  [row |-> i - 1, begin |-> j, end |-> j + Len(s)] \in SearchResult
    BY DEF DoSearch
  <1>1. i - 1 \in Nat /\ Len(s) \in Nat
    BY LenProperties
  <1>2. Len(b[i]) \in Nat
    BY LenProperties, ElementOfSeq DEF Line
  <1>3. j \in 0..(Len(b[i]) - Len(s))
    BY DEF Matches
  <1> QED
    BY <1>1, <1>2, <1>3 DEF SearchResult

\* In every reachable state the cursor is on a line of the text and not past
\* its end, and all the state is well typed: the unchecked buf->arr[cur->row]
\* of editor.c are safe, whatever keys are pressed and undone.
THEOREM TypeCorrect == Spec => []EditorTypeOK
  <1>1. Init => EditorTypeOK
    <2> SUFFICES ASSUME Init PROVE EditorTypeOK
      OBVIOUS
    <2>1. TextOK(ed)
      BY EmptyTextOK DEF Init
    <2>2. search_content \in Seq(Char \ {Newline})
      BY EmptySeq DEF Init
    <2> QED
      BY <2>1, <2>2 DEF Init, EditorTypeOK
  <1>2. EditorTypeOK /\ [Next]_vars => EditorTypeOK'
    <2> SUFFICES ASSUME EditorTypeOK, [Next]_vars PROVE EditorTypeOK'
      OBVIOUS
    <2> USE DEF EditorTypeOK
    <2>1. CASE MaybeClearScreen
      BY <2>1, EmptyTextOK, EmptySeq DEF MaybeClearScreen
    <2>2. CASE IgnoreKey
      BY <2>2 DEF IgnoreKey
    <2>3. ASSUME NEW k \in Keys, HoldModifier(k) PROVE EditorTypeOK'
      BY <2>3 DEF HoldModifier, KeyDown
    <2>4. ASSUME NEW k \in Keys, ReleaseModifier(k) PROVE EditorTypeOK'
      BY <2>4 DEF ReleaseModifier
    <2>5. CASE ToggleCapslock
      BY <2>5 DEF ToggleCapslock, KeyDown
    <2>6. CASE UndoKey
      BY <2>6, UndoOK DEF UndoKey, KeyDown
    <2>7. CASE ExitKey
      BY <2>7 DEF ExitKey
    <2>8. CASE StartSearch
      BY <2>8 DEF StartSearch, Command, KeyDown
    <2>9. CASE LeaveSearch
      BY <2>9, EmptySeq DEF LeaveSearch, Command, KeyDown
    <2>10. ASSUME NEW k \in Keys, MoveKey(k) PROVE EditorTypeOK'
      <3>1. /\ ed.cursor.row \in Int /\ ed.cursor.column \in Int
            /\ ed.cursor.row - 1 \in Int /\ ed.cursor.row + 1 \in Int
            /\ ed.cursor.column - 1 \in Int /\ ed.cursor.column + 1 \in Int
            /\ ed \in Text /\ ed.buffer # <<>>
        BY TextFacts
      <3>2. TextOK(Moved(k))
        BY <2>10, <3>1, MoveCursorOK DEF MoveKey, Moved
      <3> QED
        BY <2>10, <3>2 DEF MoveKey, Command, KeyDown
    <2>11. ASSUME NEW k \in Keys, InsertKey(k) PROVE EditorTypeOK'
      BY <2>11, InsertCharOK, KeycodeToCharType DEF InsertKey, Command, KeyDown
    <2>12. ASSUME NEW k \in Keys, EditSearch(k) PROVE EditorTypeOK'
      <3>1. search_content' \in Seq(Char \ {Newline})
        <4>1. CASE /\ k \in TextKeys \ {"RETURN"}
                   /\ search_content' = Append(search_content, KeycodeToChar(k))
          <5>1. KeycodeToChar(k) \in Char \ {Newline}
            BY <4>1, KeycodeToCharType DEF KeycodeToChar, Newline, Plain
          <5> QED
            BY <4>1, <5>1, AppendProperties
        <4>2. CASE search_content # <<>> /\ search_content' = Front(search_content)
          BY <4>2, EmptySeq, SubSeqProperties, ElementOfSeq, LenProperties DEF Front
        <4> QED
          BY <2>12, <4>1, <4>2 DEF EditSearch
      <3> QED
        BY <2>12, <3>1 DEF EditSearch, Command, KeyDown
    <2>13. CASE DeleteKey
      BY <2>13, DeleteCharOK DEF DeleteKey, Command, KeyDown
    <2>14. CASE SearchKey
      <3>1. ed.buffer \in Seq(Line) /\ search_content \in Seq(Char)
        BY TextFacts, SeqMonotonic
      <3> QED
        BY <2>14, <3>1, DoSearchType DEF SearchKey, Command, KeyDown
    <2>15. CASE Repaint
      BY <2>15 DEF Repaint
    <2>16. CASE RepaintHalts
      BY <2>16 DEF RepaintHalts
    <2>17. CASE UNCHANGED vars
      BY <2>17 DEF vars, TextOK, CursorInText, CursorLine, LineAt
    <2> QED
      BY <2>1, <2>2, <2>3, <2>4, <2>5, <2>6, <2>7, <2>8, <2>9, <2>10, <2>11,
         <2>12, <2>13, <2>14, <2>15, <2>16, <2>17
      DEF Next, HandleKey
  <1> QED
    BY <1>1, <1>2, PTL DEF Spec

-----------------------------------------------------------------------------
(* Searching *)

\* An exact search never makes the repaint fail: every column it reads of a
\* result is a column of the line.
LEMMA ExactResultsAreReadable ==
    ASSUME EditorTypeOK, SearchExact
    PROVE  ~AssertMustFail /\ ~AssertMayFail
  <1> SUFFICES ASSUME NEW r \in search_results
               PROVE  /\ r.row < Len(ed.buffer)
                      /\ ReadEnd(r) <= Len(LineAt(ed, r.row))
    <2>1. Len(ed.buffer) \in Nat /\ ed.view.column + Width \in Nat
      BY TextFacts, SizeAssumption DEF EditorTypeOK, Text, Position
    <2>2. ASSUME NEW r \in search_results
          PROVE  /\ r.row \in Nat
                 /\ ReadEnd(r) \in Nat
                 /\ r.row < Len(ed.buffer) => Len(LineAt(ed, r.row)) \in Nat
      <3>1. r.row \in Nat /\ ReadEnd(r) \in Nat
        BY <2>1 DEF EditorTypeOK, SearchResult, ReadEnd, MIN
      <3>2. r.row < Len(ed.buffer) => LineAt(ed, r.row) \in Seq(TextChar)
        BY <2>1, <3>1, TextFacts, ElementOfSeq DEF EditorTypeOK, LineAt, Line
      <3> QED
        BY <3>1, <3>2, LenProperties
    <2> QED
      BY <2>1, <2>2 DEF AssertMustFail, AssertMayFail
  <1>1. /\ r.row < Len(ed.buffer)
        /\ r.begin + Len(search_content) <= Len(LineAt(ed, r.row))
        /\ r.end = r.begin + Len(search_content)
    BY DEF SearchExact, Occurs
  <1>2. r.row \in Nat /\ r.end \in Nat /\ ed.view.column + Width \in Nat
    BY SizeAssumption, TextFacts DEF EditorTypeOK, SearchResult, Text, Position
  <1>3. Len(LineAt(ed, r.row)) \in Nat
    BY <1>1, <1>2, TextFacts, ElementOfSeq, LenProperties, SMTT(30) DEF EditorTypeOK, LineAt, Line
  <1> QED
    BY <1>1, <1>2, <1>3 DEF ReadEnd, MIN

\* The assertion of kvector.h stops the machine only when the results shown
\* are wrong for the text (editor_repaint, Line_at).
THEOREM HaltsOnlyWhenStale == Spec => []HaltsOnlyOnStaleResults
  <1>1. Init => HaltsOnlyOnStaleResults
    BY DEF Init, HaltsOnlyOnStaleResults
  <1>2. EditorTypeOK /\ HaltsOnlyOnStaleResults /\ [Next]_vars => HaltsOnlyOnStaleResults'
    <2> SUFFICES ASSUME EditorTypeOK, HaltsOnlyOnStaleResults, [Next]_vars
                 PROVE  HaltsOnlyOnStaleResults'
      OBVIOUS
    <2>1. CASE RepaintHalts
      <3>1. search_results # {} /\ ~SearchExact
        BY <2>1, ExactResultsAreReadable DEF RepaintHalts, AssertMustFail, AssertMayFail
      <3>2. UNCHANGED <<ed, search_content, search_results>>
        BY <2>1 DEF RepaintHalts
      <3>3. SearchExact' <=> SearchExact
        BY <3>2 DEF SearchExact, Occurs, Overlap, LineAt
      <3> QED
        BY <3>1, <3>2, <3>3 DEF HaltsOnlyOnStaleResults
    <2>2. CASE UNCHANGED vars
      <3>1. UNCHANGED <<ed, search_content, search_results, pc>>
        BY <2>2 DEF vars
      <3>2. SearchExact' <=> SearchExact
        BY <3>1 DEF SearchExact, Occurs, Overlap, LineAt
      <3> QED
        BY <3>1, <3>2 DEF HaltsOnlyOnStaleResults
    <2>3. CASE MaybeClearScreen \/ HandleKey \/ Repaint
      <3>1. pc' # "halted"
        BY <2>3 DEF MaybeClearScreen, HandleKey, Repaint, IgnoreKey, HoldModifier,
           ReleaseModifier, ToggleCapslock, UndoKey, ExitKey, StartSearch, LeaveSearch,
           MoveKey, InsertKey, EditSearch, DeleteKey, SearchKey, Command, KeyDown
      <3> QED
        BY <3>1 DEF HaltsOnlyOnStaleResults
    <2> QED
      BY <2>1, <2>2, <2>3 DEF Next
  <1> QED
    BY <1>1, <1>2, TypeCorrect, PTL DEF Spec

\* Results are shown in a search only.
ResultsOnlyInSearch == search_results # {} => mode = "SEARCH"

\* Results are thrown away when the mode is left.
LEMMA ResultsOnlyInSearchInvariant == Spec => []ResultsOnlyInSearch
  <1>1. Init => ResultsOnlyInSearch
    BY DEF Init, ResultsOnlyInSearch
  <1>2. ResultsOnlyInSearch /\ [Next]_vars => ResultsOnlyInSearch'
    BY DEF ResultsOnlyInSearch, Next, vars, MaybeClearScreen, HandleKey, Repaint,
       RepaintHalts, IgnoreKey, HoldModifier, ReleaseModifier, ToggleCapslock, UndoKey,
       ExitKey, StartSearch, LeaveSearch, MoveKey, InsertKey, EditSearch, DeleteKey,
       SearchKey, Command, KeyDown
  <1> QED
    BY <1>1, <1>2, PTL DEF Spec

\* As long as results are shown, no step but an undo touches the text, the
\* content of the search or the results.
THEOREM ResultsAreFrozen == Spec => ResultsFrozen
  <1>1. ResultsOnlyInSearch /\ [Next]_vars
          => [search_results # {} /\ search_results' # {} /\ ~UndoKey
                => UNCHANGED <<ed, search_content, search_results>>]_vars
    BY DEF ResultsOnlyInSearch, Next, vars, MaybeClearScreen, HandleKey, Repaint,
       RepaintHalts, IgnoreKey, HoldModifier, ReleaseModifier, ToggleCapslock,
       ExitKey, StartSearch, LeaveSearch, MoveKey, InsertKey, EditSearch, DeleteKey,
       SearchKey, Command, KeyDown
  <1> QED
    BY <1>1, ResultsOnlyInSearchInvariant, PTL DEF Spec, ResultsFrozen

-----------------------------------------------------------------------------
(* What a search finds *)

\* The search of one line is greedy: an occurrence counts unless it overlaps
\* one counted to its left (editor_do_search).
LEMMA MatchesAreGreedy ==
    ASSUME NEW l \in Line, NEW s \in Seq(Char), Len(s) >= 1,
           NEW j \in 0..(Len(l) - Len(s))
    PROVE  j \in Matches(l, s) <=>
             /\ SubSeq(l, j + 1, j + Len(s)) = s
             /\ \A k \in Matches(l, s) : ~(k < j /\ j < k + Len(s))
  <1> DEFINE N == Len(l)
             w == Len(s)
             Occ(i) == SubSeq(l, i + 1, i + w) = s
             Left(i) == MAX(0, i - w + 1)..(i - 1)
             Greedy(M, n) == \A i \in 0..n : i \in M <=> Occ(i) /\ \A k \in Left(i) : k \notin M
             S == {n \in Nat : \E M \in SUBSET (0..n) : Greedy(M, n)}
             step(f, i) == Occ(i) /\ \A k \in Left(i) : ~f[k]
             found == CHOOSE f : f = [i \in 0..N |-> step(f, i)]
  <1>1. N \in Nat /\ w \in Nat
    BY LenProperties DEF Line
  <1>2. \A i \in Nat : Left(i) = {k \in 0..(i - 1) : k > i - w}
    BY <1>1 DEF MAX
  <1> HIDE DEF N, w, Occ, Left
  <1>3. 0 \in S
    <2> DEFINE M == {i \in 0..0 : Occ(i)}
    <2>1. Left(0) = {}
      BY <1>2
    <2>2. Greedy(M, 0) /\ M \in SUBSET (0..0)
      BY <2>1
    <2> QED
      BY <2>2
  <1>4. \A n \in Nat : n \in S => n + 1 \in S
    <2> SUFFICES ASSUME NEW n \in Nat, n \in S PROVE n + 1 \in S
      OBVIOUS
    <2> PICK M \in SUBSET (0..n) : Greedy(M, n)
      OBVIOUS
    <2> DEFINE M2 == M \cup {i \in {n + 1} : Occ(i) /\ \A k \in Left(i) : k \notin M}
    <2>1. \A i \in 0..(n + 1) : \A k \in Left(i) : k \in M2 <=> k \in M
      BY <1>2
    <2>2. \A i \in 0..n : i \in M2 <=> i \in M
      OBVIOUS
    <2>3. n + 1 \in M2 <=> Occ(n + 1) /\ \A k \in Left(n + 1) : k \notin M
      OBVIOUS
    <2>4. M2 \in SUBSET (0..(n + 1))
      <3>1. M \subseteq 0..(n + 1) /\ n + 1 \in 0..(n + 1)
        OBVIOUS
      <3> QED
        BY <3>1
    <2> HIDE DEF M2
    <2>5. Greedy(M2, n + 1)
      <3> SUFFICES ASSUME NEW i \in 0..(n + 1)
                   PROVE  i \in M2 <=> Occ(i) /\ \A k \in Left(i) : k \notin M2
        OBVIOUS
      <3>1. CASE i \in 0..n
        BY <3>1, <2>1, <2>2
      <3>2. CASE i = n + 1
        BY <3>2, <2>1, <2>3
      <3> QED
        BY <3>1, <3>2
    <2> QED
      BY <2>4, <2>5
  <1>5. PICK M \in SUBSET (0..N) : Greedy(M, N)
    <2> HIDE DEF S
    <2>1. N \in S
      BY <1>1, <1>3, <1>4, NatSetInduction
    <2> QED
      BY <2>1 DEF S
  <1>6. found = [i \in 0..N |-> step(found, i)]
    <2> DEFINE f == [i \in 0..N |-> i \in M]
    <2>1. \A i \in 0..N : Left(i) \subseteq 0..N
      BY <1>1, <1>2
    <2>2. \A i \in 0..N : (\A k \in Left(i) : ~f[k]) <=> (\A k \in Left(i) : k \notin M)
      BY <2>1
    <2>3. \A i \in 0..N : step(f, i) <=> i \in M
      BY <1>5, <2>2
    <2>4. \A i \in 0..N : step(f, i) = (i \in M)
      <3> SUFFICES ASSUME NEW i \in 0..N PROVE step(f, i) = (i \in M)
        OBVIOUS
      <3>1. (Occ(i) /\ \A k \in Left(i) : ~f[k]) <=> (i \in M)
        BY <2>3
      <3> HIDE DEF f
      <3>2. (Occ(i) /\ \A k \in Left(i) : ~f[k]) = (i \in M)
        BY <3>1, SMT
      <3> QED
        BY <3>2
    <2>5. f = [i \in 0..N |-> step(f, i)]
      BY <2>4
    <2> HIDE DEF f, step
    <2> QED
      BY <2>5
  <1>7. \A i \in 0..N : found[i] <=> Occ(i) /\ \A k \in Left(i) : ~found[k]
    <2> HIDE DEF found
    <2> QED
      BY <1>6
  <1>8. Matches(l, s) = {i \in 0..(N - w) : found[i]}
    BY DEF Matches, N, w, Occ, Left
  <1> HIDE DEF found
  <1>9. j \in 0..N /\ j \in Nat /\ j <= N - w
    BY <1>1 DEF N, w
  <1>10. (\A k \in Left(j) : ~found[k]) <=> (\A k \in Matches(l, s) : ~(k < j /\ j < k + w))
    BY <1>1, <1>2, <1>8, <1>9, SMTT(30)
  <1> QED
    BY <1>7, <1>8, <1>9, <1>10 DEF N, w, Occ

\* What editor_do_search finds is exact.
LEMMA SearchIsExact ==
    EditorTypeOK /\ search_content # <<>> /\ search_results = DoSearch(ed.buffer, search_content)
      => SearchExact
  <1> SUFFICES ASSUME EditorTypeOK, search_content # <<>>,
                      search_results = DoSearch(ed.buffer, search_content)
               PROVE  SearchExact
    OBVIOUS
  <1> DEFINE s == search_content
             w == Len(s)
             res(row, j) == [row |-> row, begin |-> j, end |-> j + w]
             M(row) == Matches(LineAt(ed, row), s)
             N == Len(ed.buffer)
             L(row) == Len(LineAt(ed, row))
  <1>1. s \in Seq(Char) /\ w \in Nat /\ w >= 1 /\ N \in Nat
    BY TextFacts, SeqMonotonic, EmptySeq DEF EditorTypeOK
  <1>2. \A row \in 0..(N - 1) : LineAt(ed, row) \in Line /\ L(row) \in Nat
    BY TextFacts, ElementOfSeq, LenProperties DEF EditorTypeOK, LineAt, Line
  <1>3. \A r : r \in search_results <=> \E row \in 0..(N - 1) : \E j \in M(row) : r = res(row, j)
    <2>1. DOMAIN ed.buffer = 1..N
      BY TextFacts, LenProperties DEF EditorTypeOK
    <2>2. search_results = UNION {{res(i - 1, j) : j \in Matches(ed.buffer[i], s)} : i \in 1..N}
      BY <2>1 DEF DoSearch
    <2>3. \A row \in 0..(N - 1) : row + 1 \in 1..N /\ (row + 1) - 1 = row /\ M(row) = Matches(ed.buffer[row + 1], s)
      BY <1>1 DEF LineAt
    <2>4. \A i \in 1..N : i - 1 \in 0..(N - 1) /\ M(i - 1) = Matches(ed.buffer[i], s)
      BY <1>1 DEF LineAt
    <2> HIDE DEF M, res, N, s
    <2> QED
      BY <2>2, <2>3, <2>4
  <1>4. \A row \in 0..(N - 1) : \A j \in 0..(L(row) - w) :
          j \in M(row) <=> /\ Occurs(row, j)
                           /\ \A k \in M(row) : ~(k < j /\ j < k + w)
    <2> SUFFICES ASSUME NEW row \in 0..(N - 1), NEW j \in 0..(L(row) - w)
                 PROVE  j \in M(row) <=> /\ Occurs(row, j)
                                         /\ \A k \in M(row) : ~(k < j /\ j < k + w)
      OBVIOUS
    <2>1. j + w <= L(row)
      BY <1>1, <1>2
    <2> QED
      BY <1>1, <1>2, <2>1, MatchesAreGreedy DEF Occurs
  <1>5. \A row \in 0..(N - 1) : M(row) \subseteq 0..(L(row) - w)
    BY DEF Matches
  <1>6. \A row, j : res(row, j).row = row /\ res(row, j).begin = j /\ res(row, j).end = j + w
    OBVIOUS
  <1> HIDE DEF M, res, L
  <1>7. \A r \in search_results : /\ r.row < Len(ed.buffer)
                                 /\ Occurs(r.row, r.begin)
                                 /\ r.end = r.begin + Len(search_content)
    <2> SUFFICES ASSUME NEW row \in 0..(N - 1), NEW j \in M(row)
                 PROVE  row < N /\ Occurs(row, j)
      BY <1>3, <1>6
    <2> QED
      BY <1>1, <1>4, <1>5
  <1>8. \A r, t \in search_results : r # t => ~Overlap(r, t.row, t.begin)
    <2> SUFFICES ASSUME NEW row \in 0..(N - 1), NEW j \in M(row), NEW k \in M(row), j # k
                 PROVE  ~(j < k + w /\ k < j + w)
      BY <1>3, <1>6 DEF Overlap
    <2>1. j \in Int /\ k \in Int /\ ~(k < j /\ j < k + w) /\ ~(j < k /\ k < j + w)
      BY <1>4, <1>5
    <2> QED
      BY <1>1, <2>1
  <1>9. \A row \in 0..(N - 1) : \A column \in 0..L(row) :
          Occurs(row, column) => \E r \in search_results : Overlap(r, row, column)
    <2> SUFFICES ASSUME NEW row \in 0..(N - 1), NEW column \in 0..L(row), Occurs(row, column)
                 PROVE  \E r \in search_results : Overlap(r, row, column)
      OBVIOUS
    <2>1. column \in 0..(L(row) - w)
      BY <1>1, <1>2 DEF Occurs, L
    <2>2. PICK k \in M(row) : k < column + w /\ column < k + w
      <3>1. M(row) \subseteq Int /\ column \in Int
        BY <1>5, <2>1
      <3>2. column \in M(row) \/ \E k \in M(row) : k < column /\ column < k + w
        BY <1>4, <2>1
      <3>3. column < column + w /\ \A k \in Int : k < column => k < column + w
        BY <1>1, <3>1
      <3> QED
        BY <3>1, <3>2, <3>3
    <2>3. res(row, k) \in search_results
      BY <1>3
    <2> QED
      BY <1>6, <2>2, <2>3 DEF Overlap
  <1> QED
    BY <1>7, <1>8, <1>9 DEF SearchExact, L

\* A search reports occurrences of its content that do not overlap and
\* leaves none out that overlaps none of them (editor_do_search).
THEOREM SearchesAreExact == Spec => SearchFindsExactly
  <1>1. /\ EditorTypeOK /\ [Next]_vars
        /\ (search_content # <<>> /\ search_results = DoSearch(ed.buffer, search_content)
             => SearchExact)'
        => [search_results = {} /\ search_results' # {} => SearchExact']_vars
    BY DEF Next, vars, MaybeClearScreen, HandleKey, Repaint,
       RepaintHalts, IgnoreKey, HoldModifier, ReleaseModifier, ToggleCapslock, UndoKey,
       ExitKey, StartSearch, LeaveSearch, MoveKey, InsertKey, EditSearch, DeleteKey,
       SearchKey, Command, KeyDown
  <1>2. EditorTypeOK
        => (search_content # <<>> /\ search_results = DoSearch(ed.buffer, search_content)
             => SearchExact)
    BY SearchIsExact
  <1> QED
    BY <1>1, <1>2, TypeCorrect, PTL DEF Spec, SearchFindsExactly

-----------------------------------------------------------------------------
(* What the keys do to the text *)

\* An arrow key asks for a position next to the cursor.
LEMMA MoveKeyMoves ==
    ASSUME TextOK(ed), NEW k \in Keys, MoveKey(k)
    PROVE  \E row \in Int, column \in Int : ed' = MoveCursor(ed, row, column)
  <1>1. /\ ed.cursor.row \in Int /\ ed.cursor.column \in Int
        /\ ed.cursor.row - 1 \in Int /\ ed.cursor.row + 1 \in Int
        /\ ed.cursor.column - 1 \in Int /\ ed.cursor.column + 1 \in Int
    BY TextFacts
  <1>2. CASE k = "UP"
    <2>1. ed' = MoveCursor(ed, ed.cursor.row - 1, ed.cursor.column)
      BY <1>2 DEF MoveKey, Moved
    <2> QED
      BY <1>1, <2>1, Zenon
  <1>3. CASE k = "DOWN"
    <2>1. ed' = MoveCursor(ed, ed.cursor.row + 1, ed.cursor.column)
      BY <1>3 DEF MoveKey, Moved
    <2> QED
      BY <1>1, <2>1, Zenon
  <1>4. CASE k = "LEFT"
    <2>1. ed' = MoveCursor(ed, ed.cursor.row, ed.cursor.column - 1)
      BY <1>4 DEF MoveKey, Moved
    <2> QED
      BY <1>1, <2>1, Zenon
  <1>5. CASE k = "RIGHT"
    <2>1. ed' = MoveCursor(ed, ed.cursor.row, ed.cursor.column + 1)
      BY <1>5 DEF MoveKey, Moved
    <2> QED
      BY <1>1, <2>1, Zenon
  <1> QED
    BY <1>2, <1>3, <1>4, <1>5 DEF MoveKey

\* The other actions leave the text alone or clear it.
LEMMA StepsOfText ==
    ASSUME [Next]_vars
    PROVE  \/ ed' = ed
           \/ ed' = EmptyText
           \/ UndoKey
           \/ \E k \in Keys : MoveKey(k) \/ InsertKey(k)
           \/ DeleteKey
  BY DEF Next, HandleKey, vars, MaybeClearScreen, IgnoreKey, HoldModifier,
     ReleaseModifier, ToggleCapslock, ExitKey, StartSearch, LeaveSearch, EditSearch,
     SearchKey, Repaint, RepaintHalts

-----------------------------------------------------------------------------
(* The edits, field by field *)

\* Where editor_move_cursor puts the cursor.
Nearest(b, row, column) ==
    LET r == MAX(0, MIN(row, Len(b) - 1))
    IN At(r, MAX(0, MIN(column, Len(b[r + 1]))))

\* Where editor_move_cursor leaves every field.
LEMMA MoveCursorFields ==
    ASSUME NEW e \in Text, NEW row \in Int, NEW column \in Int
    PROVE  /\ MoveCursor(e, row, column).buffer = e.buffer
           /\ MoveCursor(e, row, column).history = e.history
           /\ MoveCursor(e, row, column).cursor = Nearest(e.buffer, row, column)
           /\ MoveCursor(e, row, column).view = Scroll(e.view, Nearest(e.buffer, row, column))
  <1> DEFINE c == Nearest(e.buffer, row, column)
  <1>1. MoveCursor(e, row, column) = [e EXCEPT !.cursor = c, !.view = Scroll(@, c)]
    BY DEF MoveCursor, Nearest, LineAt
  <1>2. MoveCursor(e, row, column) =
          [buffer |-> e.buffer, cursor |-> c, view |-> Scroll(e.view, c), history |-> e.history]
    BY <1>1 DEF Text
  <1> HIDE DEF c
  <1> QED
    BY <1>2 DEF c

\* A position of the text is the nearest to itself.
LEMMA NearestInText ==
    ASSUME NEW b \in Seq(Line), NEW row \in 0..(Len(b) - 1), NEW column \in 0..Len(b[row + 1])
    PROVE  Nearest(b, row, column) = At(row, column)
  <1>1. Len(b) \in Nat /\ b[row + 1] \in Line
    BY ElementOfSeq, LenProperties
  <1>2. Len(b[row + 1]) \in Nat
    BY <1>1, LenProperties DEF Line
  <1>3. MAX(0, MIN(row, Len(b) - 1)) = row
    BY <1>1 DEF MAX, MIN
  <1>4. MAX(0, MIN(column, Len(b[row + 1]))) = column
    BY <1>2 DEF MAX, MIN
  <1> QED
    BY <1>3, <1>4 DEF Nearest

\* The nearest position is one of the text.
LEMMA NearestFacts ==
    ASSUME NEW b \in Seq(Line), b # <<>>, NEW row \in Int, NEW column \in Int
    PROVE  /\ Nearest(b, row, column) \in Position
           /\ Nearest(b, row, column).row = MAX(0, MIN(row, Len(b) - 1))
           /\ Nearest(b, row, column).row \in 0..(Len(b) - 1)
           /\ Nearest(b, row, column).column \in 0..Len(b[Nearest(b, row, column).row + 1])
           /\ column <= 0 => Nearest(b, row, column).column = 0
           /\ column >= 0 => Nearest(b, row, column).column <= column
  <1> DEFINE r == MAX(0, MIN(row, Len(b) - 1))
             c == MAX(0, MIN(column, Len(b[r + 1])))
  <1>1. Len(b) \in Nat \ {0}
    BY EmptySeq
  <1>2. r \in 0..(Len(b) - 1)
    BY <1>1 DEF MAX, MIN
  <1>3. b[r + 1] \in Line
    BY <1>1, <1>2, ElementOfSeq
  <1>4. Len(b[r + 1]) \in Nat
    BY <1>3, LenProperties DEF Line
  <1>5. c \in 0..Len(b[r + 1]) /\ (column <= 0 => c = 0) /\ (column >= 0 => c <= column)
    BY <1>4 DEF MAX, MIN
  <1>6. Nearest(b, row, column) = [row |-> r, column |-> c]
    BY DEF Nearest, At
  <1> HIDE DEF r, c
  <1> QED
    BY <1>1, <1>2, <1>4, <1>5, <1>6 DEF r, Position

\* The parts of what editor_insert_char does to one line.
LEMMA InsertOneFields ==
    ASSUME NEW e, TextOK(e), NEW ch \in TextChar
    PROVE  /\ InsertOne(e, ch).buffer =
                [e.buffer EXCEPT ![e.cursor.row + 1] =
                   InsertAt(CursorLine(e), e.cursor.column + 1, ch)]
           /\ InsertOne(e, ch).buffer \in Seq(Line)
           /\ Len(InsertOne(e, ch).buffer) = Len(e.buffer)
           /\ InsertOne(e, ch).cursor = At(e.cursor.row, e.cursor.column + 1)
           /\ InsertOne(e, ch).view = Scroll(e.view, At(e.cursor.row, e.cursor.column + 1))
           /\ InsertOne(e, ch).history = e.history
  <1> DEFINE c == e.cursor
             l == InsertAt(CursorLine(e), c.column + 1, ch)
             b == [e.buffer EXCEPT ![c.row + 1] = l]
             e1 == [e EXCEPT !.buffer = b]
  <1>1. l \in Line /\ Len(l) = Len(CursorLine(e)) + 1
    <2>1. CursorLine(e) \in Seq(TextChar) /\ c.column + 1 \in 1..(Len(CursorLine(e)) + 1)
      BY TextFacts DEF Line
    <2> HIDE DEF c
    <2> QED
      BY <2>1, InsertAtElements DEF Line
  <1>2. InsertOne(e, ch) = MoveCursor(e1, c.row, c.column + 1)
    BY TextFacts DEF InsertOne, CursorLine, LineAt, Text
  <1> HIDE DEF l
  <1>3. /\ b \in Seq(Line) /\ b[c.row + 1] = l /\ Len(b) = Len(e.buffer)
        /\ c.row \in 0..(Len(b) - 1) /\ c.column \in Nat /\ c.column <= Len(CursorLine(e))
        /\ Len(CursorLine(e)) \in Nat
    BY <1>1, TextFacts, ExceptSeq
  <1>4. e1 \in Text /\ e1.buffer = b /\ e1.view = e.view /\ e1.history = e.history
    BY <1>3, TextFacts, NewBuffer DEF Text
  <1> HIDE DEF b, e1, c
  <1>5. c.row \in Int /\ c.column + 1 \in Int /\ c.column + 1 \in 0..Len(b[c.row + 1])
    BY <1>1, <1>3
  <1>6. Nearest(b, c.row, c.column + 1) = At(c.row, c.column + 1)
    BY <1>3, <1>5, NearestInText
  <1>7. /\ InsertOne(e, ch).buffer = b /\ InsertOne(e, ch).history = e.history
        /\ InsertOne(e, ch).cursor = At(c.row, c.column + 1)
        /\ InsertOne(e, ch).view = Scroll(e.view, At(c.row, c.column + 1))
    BY <1>2, <1>4, <1>5, <1>6, MoveCursorFields
  <1> QED
    BY <1>3, <1>7 DEF b, c, l

\* What deleting one character changes.
LEMMA DeleteOneFields ==
    ASSUME NEW e, TextOK(e), e.cursor.column >= 1
    PROVE  /\ DeleteOne(e).buffer =
                [e.buffer EXCEPT ![e.cursor.row + 1] = RemoveAt(CursorLine(e), e.cursor.column)]
           /\ DeleteOne(e).buffer \in Seq(Line)
           /\ Len(DeleteOne(e).buffer) = Len(e.buffer)
           /\ DeleteOne(e).cursor = At(e.cursor.row, e.cursor.column - 1)
           /\ DeleteOne(e).view = Scroll(e.view, At(e.cursor.row, e.cursor.column - 1))
           /\ DeleteOne(e).history = e.history
  <1> DEFINE c == e.cursor
             l == RemoveAt(CursorLine(e), c.column)
             b == [e.buffer EXCEPT ![c.row + 1] = l]
             e1 == [e EXCEPT !.buffer = b]
  <1>1. l \in Line /\ Len(l) = Len(CursorLine(e)) - 1
    <2>1. CursorLine(e) \in Seq(TextChar) /\ c.column \in 1..Len(CursorLine(e))
      BY TextFacts DEF Line
    <2> HIDE DEF c
    <2> QED
      BY <2>1, RemoveAtElements DEF Line
  <1>2. DeleteOne(e) = MoveCursor(e1, c.row, c.column - 1)
    BY TextFacts DEF DeleteOne, CursorLine, LineAt, Text
  <1> HIDE DEF l
  <1>3. /\ b \in Seq(Line) /\ b[c.row + 1] = l /\ Len(b) = Len(e.buffer)
        /\ c.row \in 0..(Len(b) - 1) /\ c.column \in Nat /\ c.column <= Len(CursorLine(e))
        /\ c.column >= 1 /\ Len(CursorLine(e)) \in Nat
    BY <1>1, TextFacts, ExceptSeq
  <1>4. e1 \in Text /\ e1.buffer = b /\ e1.view = e.view /\ e1.history = e.history
    BY <1>3, TextFacts, NewBuffer DEF Text
  <1> HIDE DEF b, e1, c
  <1>5. c.row \in Int /\ c.column - 1 \in Int /\ c.column - 1 \in 0..Len(b[c.row + 1])
    BY <1>1, <1>3
  <1>6. Nearest(b, c.row, c.column - 1) = At(c.row, c.column - 1)
    BY <1>3, <1>5, NearestInText
  <1>7. /\ DeleteOne(e).buffer = b /\ DeleteOne(e).history = e.history
        /\ DeleteOne(e).cursor = At(c.row, c.column - 1)
        /\ DeleteOne(e).view = Scroll(e.view, At(c.row, c.column - 1))
    BY <1>2, <1>4, <1>5, <1>6, MoveCursorFields
  <1> QED
    BY <1>3, <1>7 DEF b, c, l

\* The line l with n characters ch put in behind its first c characters.
Widened(l, c, ch, n) ==
    [i \in 1..(Len(l) + n) |-> IF i <= c THEN l[i] ELSE IF i <= c + n THEN ch ELSE l[i - n]]

\* A widened line, character by character.
LEMMA WidenedFacts ==
    ASSUME NEW l \in Line, NEW c \in 0..Len(l), NEW ch \in TextChar, NEW n \in Nat
    PROVE  /\ Widened(l, c, ch, n) \in Line
           /\ Len(Widened(l, c, ch, n)) = Len(l) + n
           /\ \A i \in 1..(Len(l) + n) :
                Widened(l, c, ch, n)[i] =
                  IF i <= c THEN l[i] ELSE IF i <= c + n THEN ch ELSE l[i - n]
           /\ n = 0 => Widened(l, c, ch, n) = l
  <1> DEFINE w == Widened(l, c, ch, n)
             W(i) == IF i <= c THEN l[i] ELSE IF i <= c + n THEN ch ELSE l[i - n]
  <1>1. Len(l) \in Nat /\ \A i \in 1..Len(l) : l[i] \in TextChar
    BY LenProperties, ElementOfSeq DEF Line
  <1>2. ASSUME NEW i \in 1..(Len(l) + n)
        PROVE  W(i) \in TextChar
    <2>1. i <= c => i \in 1..Len(l)
      BY <1>1
    <2>2. i > c + n => i - n \in 1..Len(l)
      BY <1>1
    <2> QED
      BY <1>1, <2>1, <2>2
  <1>3. w = [i \in 1..(Len(l) + n) |-> W(i)]
    BY DEF Widened
  <1> HIDE DEF w, W
  <1>4. w \in Seq(TextChar) /\ Len(w) = Len(l) + n
    <2>1. Len(l) + n \in Nat
      BY <1>1
    <2> QED
      BY <1>2, <1>3, <2>1
  <1>5. \A i \in 1..(Len(l) + n) : w[i] = W(i)
    BY <1>3
  <1>6. n = 0 => w = l
    <2> SUFFICES ASSUME n = 0 PROVE w = l
      OBVIOUS
    <2>1. \A i \in 1..Len(w) : w[i] = l[i]
      BY <1>1, <1>4, <1>5 DEF W
    <2> QED
      BY <1>1, <1>4, <2>1, SeqEqual DEF Line
  <1> QED
    BY <1>4, <1>5, <1>6 DEF w, W, Line

\* Putting one more of them in, wherever among them, and taking one out.
LEMMA WidenedGrows ==
    ASSUME NEW l \in Line, NEW c \in 0..Len(l), NEW ch \in TextChar, NEW n \in Nat,
           NEW p \in c..(c + n)
    PROVE  InsertAt(Widened(l, c, ch, n), p + 1, ch) = Widened(l, c, ch, n + 1)
  <1> DEFINE s == Widened(l, c, ch, n)
             r == Widened(l, c, ch, n + 1)
  <1>1. Len(l) \in Nat /\ n + 1 \in Nat
    BY LenProperties DEF Line
  <1>2. /\ s \in Seq(TextChar) /\ Len(s) = Len(l) + n
        /\ \A i \in 1..(Len(l) + n) :
             s[i] = IF i <= c THEN l[i] ELSE IF i <= c + n THEN ch ELSE l[i - n]
    BY WidenedFacts DEF Line
  <1>3. /\ r \in Seq(TextChar) /\ Len(r) = Len(l) + (n + 1)
        /\ \A i \in 1..(Len(l) + (n + 1)) :
             r[i] = IF i <= c THEN l[i] ELSE IF i <= c + (n + 1) THEN ch ELSE l[i - (n + 1)]
    BY <1>1, WidenedFacts DEF Line
  <1> HIDE DEF s, r
  <1>4. p + 1 \in 1..Len(s) + 1 /\ Len(r) = Len(s) + 1
    BY <1>1, <1>2, <1>3
  <1>5. ASSUME NEW k \in 1..Len(r)
        PROVE  r[k] = IF k < p + 1 THEN s[k] ELSE IF k = p + 1 THEN ch ELSE s[k - 1]
    <2>1. CASE k < p + 1
      <3>1. k \in 1..(Len(l) + n) /\ k \in 1..(Len(l) + (n + 1)) /\ k <= c + n /\ k <= c + (n + 1)
        BY <1>1, <1>3, <2>1
      <3>2. s[k] = (IF k <= c THEN l[k] ELSE ch) /\ r[k] = (IF k <= c THEN l[k] ELSE ch)
        BY ONLY <1>2, <1>3, <3>1
      <3> QED
        BY <2>1, <3>2
    <2>2. CASE k = p + 1
      BY <1>1, <1>3, <2>2, SMTT(30)
    <2>3. CASE k > p + 1
      <3>1. k - 1 \in 1..(Len(l) + n) /\ (k - 1) - n = k - (n + 1) /\ k - 1 > c
        BY <1>1, <1>3, <2>3
      <3>2. s[k - 1] = IF k <= c + (n + 1) THEN ch ELSE l[k - (n + 1)]
        BY <1>1, <1>2, <3>1
      <3>3. r[k] = IF k <= c + (n + 1) THEN ch ELSE l[k - (n + 1)]
        BY <1>1, <1>3, <2>3
      <3>4. ~(k < p + 1) /\ k # p + 1
        BY <1>1, <1>3, <2>3
      <3> QED
        BY <3>2, <3>3, <3>4
    <2> QED
      BY <1>1, <1>3, <2>1, <2>2, <2>3
  <1>6. r = InsertAt(s, p + 1, ch)
    BY <1>2, <1>3, <1>4, <1>5, InsertSeq
  <1> QED
    BY <1>6 DEF s, r

\* Deleting one of the characters put in narrows the line by it.
LEMMA WidenedShrinks ==
    ASSUME NEW l \in Line, NEW c \in 0..Len(l), NEW ch \in TextChar, NEW n \in Nat, n >= 1,
           NEW p \in (c + 1)..(c + n)
    PROVE  RemoveAt(Widened(l, c, ch, n), p) = Widened(l, c, ch, n - 1)
  <1> DEFINE s == Widened(l, c, ch, n)
             r == Widened(l, c, ch, n - 1)
  <1>1. Len(l) \in Nat /\ n - 1 \in Nat
    BY LenProperties DEF Line
  <1>2. l \in Line /\ c \in 0..Len(l) /\ ch \in TextChar /\ n \in Nat
    OBVIOUS
  <1>3. /\ s \in Line /\ Len(s) = Len(l) + n
        /\ \A i \in 1..(Len(l) + n) :
             s[i] = IF i <= c THEN l[i] ELSE IF i <= c + n THEN ch ELSE l[i - n]
    BY ONLY <1>2, WidenedFacts
  <1>4. /\ r \in Line /\ Len(r) = Len(l) + (n - 1)
        /\ \A i \in 1..(Len(l) + (n - 1)) :
             r[i] = IF i <= c THEN l[i] ELSE IF i <= c + (n - 1) THEN ch ELSE l[i - (n - 1)]
    BY ONLY <1>1, <1>2, WidenedFacts
  <1> HIDE DEF s, r
  <1>5. p \in 1..Len(s) /\ Len(r) = Len(s) - 1
    BY <1>1, <1>3, <1>4
  <1>6. ASSUME NEW k \in 1..Len(r)
        PROVE  r[k] = IF k < p THEN s[k] ELSE s[k + 1]
    <2>1. CASE k < p
      BY <1>1, <1>3, <1>4, <2>1
    <2>2. CASE k >= p
      <3>1. k + 1 \in 1..(Len(l) + n) /\ (k + 1) - n = k - (n - 1) /\ k > c
        BY <1>1, <1>4, <2>2
      <3>2. s[k + 1] = IF k <= c + (n - 1) THEN ch ELSE l[k - (n - 1)]
        BY <1>1, <1>3, <3>1
      <3>3. r[k] = IF k <= c + (n - 1) THEN ch ELSE l[k - (n - 1)]
        BY <1>1, <1>4, <3>1
      <3>4. ~(k < p)
        BY <1>1, <1>4, <2>2
      <3> QED
        BY <3>2, <3>3, <3>4
    <2> QED
      BY <1>1, <1>4, <2>1, <2>2
  <1>7. r = RemoveAt(s, p)
    BY <1>3, <1>4, <1>5, <1>6, RemoveSeq DEF Line
  <1> QED
    BY <1>7 DEF s, r

\* has_tab sees the same wherever it looks just behind the first of them.
LEMMA WidenedHasTab ==
    ASSUME NEW l \in Line, NEW c \in 0..Len(l), NEW ch \in TextChar, NEW n \in Nat, n >= 1
    PROVE  HasTab(Widened(l, c, ch, n), c + 1) <=> HasTab(Widened(l, c, ch, 1), c + 1)
  <1>1. Len(l) \in Nat /\ 1 \in Nat
    BY LenProperties DEF Line
  <1>2. \A i \in 1..(Len(l) + n) :
             Widened(l, c, ch, n)[i] = IF i <= c THEN l[i] ELSE IF i <= c + n THEN ch ELSE l[i - n]
    BY WidenedFacts
  <1>3. \A i \in 1..(Len(l) + 1) :
             Widened(l, c, ch, 1)[i] = IF i <= c THEN l[i] ELSE IF i <= c + 1 THEN ch ELSE l[i - 1]
    BY <1>1, WidenedFacts
  <1>4. \A i \in 1..(c + 1) : Widened(l, c, ch, n)[i] = Widened(l, c, ch, 1)[i]
    BY <1>1, <1>2, <1>3
  <1>5. c + 1 >= 4 => \A i \in 1..4 : (c + 1) - i + 1 \in 1..(c + 1)
    OBVIOUS
  <1> QED
    BY <1>4, <1>5 DEF HasTab

\* The text b with n characters ch put in at a position.
Typed(b, r, c, ch, n) == [b EXCEPT ![r + 1] = Widened(@, c, ch, n)]

\* A position of the text, perhaps at the end of a line.
In(b, r, c) == r \in 0..(Len(b) - 1) /\ c \in 0..Len(b[r + 1])

\* A text that was typed into, line by line.
LEMMA TypedFacts ==
    ASSUME NEW b \in Seq(Line), NEW r, NEW c, In(b, r, c), NEW ch \in TextChar, NEW n \in Nat
    PROVE  /\ Typed(b, r, c, ch, n) \in Seq(Line)
           /\ Len(Typed(b, r, c, ch, n)) = Len(b)
           /\ Typed(b, r, c, ch, n)[r + 1] = Widened(b[r + 1], c, ch, n)
           /\ Len(b[r + 1]) \in Nat /\ b[r + 1] \in Line
           /\ n = 0 => Typed(b, r, c, ch, n) = b
  <1>1. Len(b) \in Nat /\ r + 1 \in 1..Len(b) /\ b \in [1..Len(b) -> Line]
    BY LenProperties DEF In
  <1>2. b[r + 1] \in Line /\ c \in 0..Len(b[r + 1])
    BY <1>1 DEF In
  <1>3. Len(b[r + 1]) \in Nat
    BY <1>2, LenProperties DEF Line
  <1> DEFINE w == Widened(b[r + 1], c, ch, n)
  <1>4. w \in Line /\ (n = 0 => w = b[r + 1])
    BY ONLY <1>2, n \in Nat, ch \in TextChar, WidenedFacts
  <1>5. Typed(b, r, c, ch, n) = [b EXCEPT ![r + 1] = w]
    BY DEF Typed
  <1> HIDE DEF w
  <1>6. [b EXCEPT ![r + 1] = w] \in Seq(Line) /\ Len([b EXCEPT ![r + 1] = w]) = Len(b)
    BY <1>1, <1>4, ExceptSeq
  <1>7. n = 0 => [b EXCEPT ![r + 1] = w] = b
    BY <1>1, <1>4
  <1> QED
    BY <1>1, <1>2, <1>3, <1>5, <1>6, <1>7 DEF w

\* One more character typed behind those typed before.
LEMMA InsertOneTyped ==
    ASSUME NEW e, TextOK(e), NEW b \in Seq(Line), NEW r, NEW c, In(b, r, c),
           NEW ch \in TextChar, NEW n \in Nat, NEW p \in c..(c + n),
           e.buffer = Typed(b, r, c, ch, n), e.cursor = At(r, p)
    PROVE  InsertOne(e, ch).buffer = Typed(b, r, c, ch, n + 1)
  <1>0. b \in Seq(Line) /\ In(b, r, c) /\ ch \in TextChar /\ n \in Nat
    OBVIOUS
  <1>a. /\ Typed(b, r, c, ch, n)[r + 1] = Widened(b[r + 1], c, ch, n)
        /\ b[r + 1] \in Line /\ r \in 0..(Len(b) - 1)
    <2>1. Typed(b, r, c, ch, n)[r + 1] = Widened(b[r + 1], c, ch, n) /\ b[r + 1] \in Line
      BY ONLY <1>0, TypedFacts
    <2>2. r \in 0..(Len(b) - 1)
      BY ONLY <1>0 DEF In
    <2> QED
      BY ONLY <2>1, <2>2, Zenon
  <1>1. /\ e.cursor.row = r /\ e.cursor.column = p
        /\ CursorLine(e) = Widened(b[r + 1], c, ch, n)
        /\ b[r + 1] \in Line /\ c \in 0..Len(b[r + 1])
    BY <1>a DEF CursorLine, LineAt, At, In
  <1>2. InsertAt(CursorLine(e), p + 1, ch) = Widened(b[r + 1], c, ch, n + 1)
    BY ONLY <1>1, ch \in TextChar, n \in Nat, p \in c..(c + n), WidenedGrows
  <1>3. InsertOne(e, ch).buffer = [e.buffer EXCEPT ![r + 1] = Widened(b[r + 1], c, ch, n + 1)]
    BY <1>1, <1>2, InsertOneFields
  <1>4. InsertOne(e, ch).buffer = [b EXCEPT ![r + 1] = Widened(b[r + 1], c, ch, n + 1)]
    <2> DEFINE l == Widened(b[r + 1], c, ch, n + 1)
    <2> HIDE DEF l
    <2> DEFINE w == Widened(b[r + 1], c, ch, n)
    <2>1. Typed(b, r, c, ch, n) = [b EXCEPT ![r + 1] = w]
      BY DEF Typed
    <2> HIDE DEF w
    <2>2. b \in [1..Len(b) -> Line] /\ r + 1 \in 1..Len(b)
      BY <1>a, LenProperties
    <2>3. [Typed(b, r, c, ch, n) EXCEPT ![r + 1] = l] = [b EXCEPT ![r + 1] = l]
      BY <2>1, <2>2
    <2> QED
      BY <1>3, <2>3 DEF l
  <1> QED
    BY <1>4 DEF Typed

\* Deleting one of the characters that were typed.
LEMMA DeleteOneTyped ==
    ASSUME NEW e, TextOK(e), NEW b \in Seq(Line), NEW r, NEW c, In(b, r, c),
           NEW ch \in TextChar, NEW n \in Nat, n >= 1, NEW p \in (c + 1)..(c + n),
           e.buffer = Typed(b, r, c, ch, n), e.cursor = At(r, p)
    PROVE  DeleteOne(e).buffer = Typed(b, r, c, ch, n - 1)
  <1>0. b \in Seq(Line) /\ In(b, r, c) /\ ch \in TextChar /\ n \in Nat
    OBVIOUS
  <1>a. /\ Typed(b, r, c, ch, n)[r + 1] = Widened(b[r + 1], c, ch, n)
        /\ b[r + 1] \in Line /\ r \in 0..(Len(b) - 1)
    <2>1. Typed(b, r, c, ch, n)[r + 1] = Widened(b[r + 1], c, ch, n) /\ b[r + 1] \in Line
      BY ONLY <1>0, TypedFacts
    <2>2. r \in 0..(Len(b) - 1)
      BY ONLY <1>0 DEF In
    <2> QED
      BY ONLY <2>1, <2>2, Zenon
  <1>1. /\ e.cursor.row = r /\ e.cursor.column = p
        /\ CursorLine(e) = Widened(b[r + 1], c, ch, n)
        /\ b[r + 1] \in Line /\ c \in 0..Len(b[r + 1])
    BY <1>a DEF CursorLine, LineAt, At, In
  <1>b. e.cursor.column >= 1
    BY <1>1
  <1>2. RemoveAt(CursorLine(e), p) = Widened(b[r + 1], c, ch, n - 1)
    BY ONLY <1>1, ch \in TextChar, n \in Nat, n >= 1, p \in (c + 1)..(c + n), WidenedShrinks
  <1>3. DeleteOne(e).buffer = [e.buffer EXCEPT ![r + 1] = Widened(b[r + 1], c, ch, n - 1)]
    BY <1>1, <1>2, <1>b, DeleteOneFields
  <1>4. DeleteOne(e).buffer = [b EXCEPT ![r + 1] = Widened(b[r + 1], c, ch, n - 1)]
    <2> DEFINE l == Widened(b[r + 1], c, ch, n - 1)
    <2> HIDE DEF l
    <2> DEFINE w == Widened(b[r + 1], c, ch, n)
    <2>1. Typed(b, r, c, ch, n) = [b EXCEPT ![r + 1] = w]
      BY DEF Typed
    <2> HIDE DEF w
    <2>2. b \in [1..Len(b) -> Line] /\ r + 1 \in 1..Len(b)
      BY <1>a, LenProperties
    <2>3. [Typed(b, r, c, ch, n) EXCEPT ![r + 1] = l] = [b EXCEPT ![r + 1] = l]
      BY <2>1, <2>2
    <2> QED
      BY <1>3, <2>3 DEF l
  <1> QED
    BY <1>4 DEF Typed

\* The entry that editor_insert_char and its like append.
Entry(type, ch, n, pos) == [type |-> type, ch |-> ch, nchars |-> n, pos |-> pos]

\* An entry is added and nothing else changes.
LEMMA RecordFields ==
    ASSUME NEW e \in Text, NEW add \in BOOLEAN, NEW type, NEW ch, NEW n, NEW pos
    PROVE  /\ Record(e, add, type, ch, n, pos).buffer = e.buffer
           /\ Record(e, add, type, ch, n, pos).cursor = e.cursor
           /\ Record(e, add, type, ch, n, pos).view = e.view
           /\ Record(e, add, type, ch, n, pos).history =
                IF add THEN Append(e.history, Entry(type, ch, n, pos)) ELSE e.history
  <1> DEFINE h == Append(e.history, Entry(type, ch, n, pos))
  <1>1. Record(e, add, type, ch, n, pos) = IF add THEN [e EXCEPT !.history = h] ELSE e
    BY DEF Record, Entry
  <1> HIDE DEF h
  <1>2. /\ [e EXCEPT !.history = h].buffer = e.buffer
        /\ [e EXCEPT !.history = h].cursor = e.cursor
        /\ [e EXCEPT !.history = h].view = e.view
        /\ [e EXCEPT !.history = h].history = h
    BY DEF Text
  <1> QED
    BY <1>1, <1>2 DEF h

\* editor_insert_char of anything but a newline.
LEMMA InsertCharFields ==
    ASSUME NEW e, TextOK(e), NEW ch \in Char \ {Newline}, NEW add \in BOOLEAN,
           NEW x, NEW n, x = (IF ch = Tab THEN Space ELSE ch), n = (IF ch = Tab THEN 4 ELSE 1)
    PROVE  /\ InsertChar(e, ch, add).buffer = Typed(e.buffer, e.cursor.row, e.cursor.column, x, n)
           /\ InsertChar(e, ch, add).history =
                IF add THEN Append(e.history, Entry("INSERT", x, n,
                                                    At(e.cursor.row, e.cursor.column + 1)))
                       ELSE e.history
           /\ InsertChar(e, ch, add).cursor = At(e.cursor.row, e.cursor.column + n)
  <1> DEFINE r == e.cursor.row
             c == e.cursor.column
             b == e.buffer
             pos == At(r, c + 1)
             e0 == Record(e, add, "INSERT", x, n, pos)
             I(y) == InsertOne(y, x)
  <1>1. x \in TextChar /\ x \in Char \ {Tab} /\ n \in {1, 4} /\ (n = 4 => x = Space) /\ n \in Nat
    BY CharProperties
  <1>2. /\ e \in Text /\ b \in Seq(Line) /\ In(b, r, c) /\ r \in Nat /\ c \in Nat /\ pos \in Position
    BY TextFacts DEF In, CursorLine, LineAt, Position, At
  <1>3. /\ TextOK(e0) /\ e0.buffer = b /\ e0.cursor = At(r, c) /\ e0.view = e.view
        /\ e0.history = IF add THEN Append(e.history, Entry("INSERT", x, n, pos)) ELSE e.history
    <2>1. e.cursor = At(r, c)
      BY <1>2 DEF Text, Position, At
    <2>2. e0 \in Text /\ e0.buffer = b /\ e0.cursor = e.cursor /\ e0.view = e.view
      BY <1>1, <1>2, RecordOK
    <2>3. e0.history = IF add THEN Append(e.history, Entry("INSERT", x, n, pos)) ELSE e.history
      BY <1>2, RecordFields
    <2> HIDE DEF e0, pos
    <2>4. TextOK(e0)
      <3>1. e0.cursor = e.cursor /\ e0.buffer = e.buffer /\ e0 \in Text
        BY <2>2
      <3>2. CursorInText(e)
        BY DEF TextOK
      <3> QED
        BY ONLY <3>1, <3>2 DEF TextOK, Text, CursorInText, CursorLine, LineAt
    <2> QED
      BY <2>1, <2>2, <2>3, <2>4
  <1>4. InsertChar(e, ch, add) = IF n = 1 THEN I(e0) ELSE I(I(I(I(e0))))
    BY DEF InsertChar, Repeat
  <1> DEFINE After(y, k) == /\ TextOK(y) /\ y.buffer = Typed(b, r, c, x, k) /\ y.cursor = At(r, c + k)
                            /\ y.history = e0.history
  <1>5. After(e0, 0)
    <2>1. c + 0 = c
      BY <1>2
    <2>2. Typed(b, r, c, x, 0) = b
      BY ONLY <1>1, <1>2, TypedFacts
    <2> HIDE DEF e0
    <2> QED
      BY <1>3, <2>1, <2>2
  <1> HIDE DEF e0, b, r, c, pos
  <1>6. ASSUME NEW y, NEW k \in Nat, After(y, k) PROVE After(I(y), k + 1)
    <2>1. TextOK(I(y))
      BY <1>1, <1>6, InsertOneOK
    <2>2. I(y).cursor = At(r, c + (k + 1)) /\ I(y).history = y.history
      <3>1. y.cursor.row = r /\ y.cursor.column = c + k
        BY <1>6 DEF At
      <3>2. (c + k) + 1 = c + (k + 1)
        BY <1>2
      <3>3. /\ InsertOne(y, x).cursor = At(y.cursor.row, y.cursor.column + 1)
            /\ InsertOne(y, x).history = y.history
        BY <1>1, <1>6, InsertOneFields
      <3> QED
        BY ONLY <3>1, <3>2, <3>3 DEF I
    <2>3. I(y).buffer = Typed(b, r, c, x, k + 1)
      <3>1. c + k \in c..(c + k)
        BY <1>2
      <3> QED
        BY <1>1, <1>2, <1>6, <3>1, InsertOneTyped
    <2> QED
      BY <1>6, <2>1, <2>2, <2>3
  <1> HIDE DEF After, I
  <1>7. /\ After(I(e0), 1) /\ After(I(I(e0)), 2) /\ After(I(I(I(e0))), 3) /\ After(I(I(I(I(e0)))), 4)
    <2>1. After(I(e0), 0 + 1)
      BY <1>5, <1>6
    <2>2. After(I(I(e0)), 1 + 1)
      BY <1>6, <2>1
    <2>3. After(I(I(I(e0))), 2 + 1)
      BY <1>6, <2>2
    <2>4. After(I(I(I(I(e0)))), 3 + 1)
      BY <1>6, <2>3
    <2> QED
      BY <2>1, <2>2, <2>3, <2>4
  <1>8. After(InsertChar(e, ch, add), n)
    BY <1>1, <1>4, <1>7
  <1> QED
    BY <1>3, <1>8 DEF After, b, r, c, pos

-----------------------------------------------------------------------------
(* The view follows the cursor *)

\* The row of the cursor is in the window, and its column is.
RowShown(e)    == e.cursor.row \in e.view.row..(e.view.row + Height - 1)
ColumnShown(e) == e.cursor.column \in e.view.column..(e.view.column + Width - 1)

\* A text that is seen where the view was, or whose view has another row.
Followed(v, e) == RowShown(e) /\ (e.view.row = v.row => ColumnShown(e))

\* editor_scroll brings the row into the window, and the column if the rows
\* of the window stay.
LEMMA ScrollFollows ==
    ASSUME NEW v \in Position, NEW c \in Position
    PROVE  /\ c.row \in Scroll(v, c).row..(Scroll(v, c).row + Height - 1)
           /\ Scroll(v, c).row = v.row =>
                c.column \in Scroll(v, c).column..(Scroll(v, c).column + Width - 1)
           /\ c.row \in v.row..(v.row + Height - 1) => Scroll(v, c).row = v.row
           /\ c.row < v.row => Scroll(v, c).row = c.row
           /\ c.row >= v.row + Height => Scroll(v, c).row = c.row - Height + 1
  BY SizeAssumption DEF Scroll, Position

\* editor_move_cursor scrolls to the cursor.
LEMMA MoveCursorFollows ==
    ASSUME NEW e \in Text, e.buffer # <<>>, NEW row \in Int, NEW column \in Int,
           NEW m, m = MoveCursor(e, row, column)
    PROVE  /\ TextOK(m) /\ m.buffer = e.buffer /\ m.history = e.history
           /\ m.cursor.row = MAX(0, MIN(row, Len(e.buffer) - 1))
           /\ Followed(e.view, m)
           /\ m.cursor.row \in e.view.row..(e.view.row + Height - 1) => m.view.row = e.view.row
           /\ m.cursor.row < e.view.row => m.view.row = m.cursor.row
           /\ m.cursor.row >= e.view.row + Height => m.view.row = m.cursor.row - Height + 1
  <1> DEFINE c == Nearest(e.buffer, row, column)
  <1>1. e.buffer \in Seq(Line) /\ e.view \in Position
    BY DEF Text
  <1>2. c \in Position /\ c.row = MAX(0, MIN(row, Len(e.buffer) - 1))
    BY <1>1, NearestFacts
  <1>3. /\ TextOK(m) /\ m.buffer = e.buffer /\ m.history = e.history
        /\ m.cursor = c /\ m.view = Scroll(e.view, c)
    BY MoveCursorOK, MoveCursorFields
  <1> HIDE DEF c
  <1>4. /\ m.cursor.row \in m.view.row..(m.view.row + Height - 1)
        /\ m.view.row = e.view.row =>
             m.cursor.column \in m.view.column..(m.view.column + Width - 1)
    BY <1>1, <1>2, <1>3, ScrollFollows
  <1>5. /\ m.cursor.row \in e.view.row..(e.view.row + Height - 1) => m.view.row = e.view.row
        /\ m.cursor.row < e.view.row => m.view.row = m.cursor.row
        /\ m.cursor.row >= e.view.row + Height => m.view.row = m.cursor.row - Height + 1
    BY <1>1, <1>2, <1>3, ScrollFollows
  <1> QED
    BY <1>2, <1>3, <1>4, <1>5 DEF Followed, RowShown, ColumnShown

\* One character typed or deleted in a row that is shown: the cursor is shown.
LEMMA InsertOneFollows ==
    ASSUME NEW e, TextOK(e), RowShown(e), NEW ch \in TextChar, NEW m, m = InsertOne(e, ch)
    PROVE  /\ TextOK(m) /\ Len(m.buffer) = Len(e.buffer) /\ m.history = e.history
           /\ m.cursor.row = e.cursor.row /\ m.view.row = e.view.row
           /\ RowShown(m) /\ ColumnShown(m)
  <1> DEFINE c == At(e.cursor.row, e.cursor.column + 1)
  <1>1. c \in Position /\ c.row = e.cursor.row /\ e.view \in Position
    BY TextFacts DEF At, Position, Text
  <1>2. /\ TextOK(m) /\ Len(m.buffer) = Len(e.buffer) /\ m.history = e.history
        /\ m.cursor = c /\ m.view = Scroll(e.view, c)
    BY InsertOneOK, InsertOneFields
  <1> HIDE DEF c
  <1> QED
    BY <1>1, <1>2, ScrollFollows DEF RowShown, ColumnShown

\* One character deleted from a line whose cursor is shown.
LEMMA DeleteOneFollows ==
    ASSUME NEW e, TextOK(e), RowShown(e), e.cursor.column >= 1, NEW m, m = DeleteOne(e)
    PROVE  /\ TextOK(m) /\ Len(m.buffer) = Len(e.buffer) /\ m.history = e.history
           /\ m.cursor.row = e.cursor.row /\ m.view.row = e.view.row
           /\ m.cursor.column = e.cursor.column - 1
           /\ RowShown(m) /\ ColumnShown(m)
  <1> DEFINE c == At(e.cursor.row, e.cursor.column - 1)
  <1>1. c \in Position /\ c.row = e.cursor.row /\ e.view \in Position /\ c.column = e.cursor.column - 1
    BY TextFacts DEF At, Position, Text
  <1>2. /\ TextOK(m) /\ Len(m.buffer) = Len(e.buffer) /\ m.history = e.history
        /\ m.cursor = c /\ m.view = Scroll(e.view, c)
    BY DeleteOneOK, DeleteOneFields
  <1> HIDE DEF c
  <1> QED
    BY <1>1, <1>2, ScrollFollows DEF RowShown, ColumnShown

\* An entry in the history moves nothing.
LEMMA RecordFollows ==
    ASSUME NEW e, TextOK(e), NEW add \in BOOLEAN, NEW type \in {"INSERT", "DELETE"},
           NEW ch \in Char \ {Tab}, NEW n \in {1, 4}, NEW pos \in Position,
           n = 4 => ch = Space, NEW m, m = Record(e, add, type, ch, n, pos)
    PROVE  /\ TextOK(m) /\ m.buffer = e.buffer /\ m.cursor = e.cursor /\ m.view = e.view
           /\ RowShown(e) => RowShown(m)
  <1>1. m \in Text /\ m.buffer = e.buffer /\ m.cursor = e.cursor /\ m.view = e.view
    BY TextFacts, RecordOK
  <1>2. CursorInText(e)
    BY DEF TextOK
  <1> QED
    BY ONLY <1>1, <1>2 DEF TextOK, Text, CursorInText, CursorLine, LineAt, RowShown

\* editor_insert_char of anything but a newline, in a row that is shown.
LEMMA InsertCharFollows ==
    ASSUME NEW e, TextOK(e), RowShown(e), NEW ch \in Char \ {Newline}, NEW add \in BOOLEAN,
           NEW m, m = InsertChar(e, ch, add)
    PROVE  /\ TextOK(m) /\ Len(m.buffer) = Len(e.buffer)
           /\ m.cursor.row = e.cursor.row /\ m.view.row = e.view.row
           /\ RowShown(m) /\ ColumnShown(m)
  <1> DEFINE x == IF ch = Tab THEN Space ELSE ch
             n == IF ch = Tab THEN 4 ELSE 1
             pos == At(e.cursor.row, e.cursor.column + 1)
             e0 == Record(e, add, "INSERT", x, n, pos)
             I(y) == InsertOne(y, x)
             Same(y) == /\ TextOK(y) /\ Len(y.buffer) = Len(e.buffer)
                        /\ y.cursor.row = e.cursor.row /\ y.view.row = e.view.row
                        /\ RowShown(y)
  <1>1. x \in TextChar /\ x \in Char \ {Tab} /\ n \in {1, 4} /\ (n = 4 => x = Space)
    BY CharProperties
  <1>2. pos \in Position
    BY TextFacts DEF At, Position
  <1>3. m = IF n = 1 THEN I(e0) ELSE I(I(I(I(e0))))
    BY DEF InsertChar, Repeat
  <1> HIDE DEF x, n, pos
  <1>4. Same(e0)
    BY <1>1, <1>2, RecordFollows
  <1> HIDE DEF e0
  <1>5. ASSUME NEW y, Same(y) PROVE Same(I(y)) /\ ColumnShown(I(y))
    BY <1>1, <1>5, InsertOneFollows
  <1> HIDE DEF I
  <1>6. CASE n = 1
    <2>1. Same(m) /\ ColumnShown(m)
      BY <1>3, <1>4, <1>5, <1>6
    <2> QED
      BY <2>1
  <1>7. CASE n = 4
    <2>1. Same(I(e0)) /\ Same(I(I(e0))) /\ Same(I(I(I(e0))))
      BY <1>4, <1>5
    <2>2. Same(m) /\ ColumnShown(m)
      BY <1>3, <1>5, <1>7, <2>1
    <2> QED
      BY <2>2
  <1> QED
    BY <1>1, <1>6, <1>7

\* editor_insert_linebreak.
LEMMA InsertLinebreakFollows ==
    ASSUME NEW e, TextOK(e), NEW add \in BOOLEAN, NEW m, m = InsertLinebreak(e, add)
    PROVE  /\ TextOK(m)
           /\ Len(m.buffer) = Len(e.buffer) + 1
           /\ m.cursor.row = e.cursor.row + 1 /\ m.cursor.column = 0
           /\ Followed(e.view, m)
           /\ m.cursor.row \in e.view.row..(e.view.row + Height - 1) => m.view.row = e.view.row
           /\ m.cursor.row >= e.view.row + Height => m.view.row = m.cursor.row - Height + 1
  <1> DEFINE r    == e.cursor.row
             l    == CursorLine(e)
             c    == e.cursor.column
             e1   == Record(e, add, "INSERT", Newline, 1, At(r + 1, 0))
             head == SubSeq(l, 1, c)
             tail == SubSeq(l, c + 1, Len(l))
             cut  == [e.buffer EXCEPT ![r + 1] = head]
             b    == InsertAt(cut, r + 2, tail)
             e2   == [e1 EXCEPT !.buffer = b]
  <1>1. /\ head \in Line /\ tail \in Line
    BY TextFacts, SubSeqProperties, ElementOfSeq DEF Line
  <1>2. /\ cut \in Seq(Line) /\ Len(cut) = Len(e.buffer)
    BY <1>1, TextFacts, ExceptSeq
  <1>3. /\ b \in Seq(Line) /\ Len(b) = Len(e.buffer) + 1
    <2>1. r + 2 \in 1..(Len(cut) + 1)
      BY <1>2, TextFacts, SMTT(30)
    <2> HIDE DEF cut, tail
    <2> QED
      BY <1>1, <1>2, <2>1, InsertAtElements
  <1>4. /\ e1 \in Text /\ e1.buffer = e.buffer /\ e1.view = e.view
    <2>1. At(r + 1, 0) \in Position
      BY TextFacts DEF At, Position
    <2> QED
      BY <2>1, TextFacts, RecordOK, CharProperties
  <1>5. m = MoveCursor(e2, r + 1, 0)
    <2>1. [e1 EXCEPT !.buffer = InsertAt([@ EXCEPT ![r + 1] = head], r + 2, tail)]
            = [e1 EXCEPT !.buffer = b]
      BY <1>4
    <2> QED
      BY <2>1 DEF InsertLinebreak
  <1> HIDE DEF e1, b
  <1>6. /\ e2 \in Text /\ e2.buffer = b /\ b # <<>> /\ e2.view = e.view
    <2>1. e2 \in Text /\ e2.buffer = b /\ b # <<>>
      BY <1>3, <1>4, NewBuffer, TextFacts, EmptySeq
    <2>2. e2.view = e1.view
      BY <1>4 DEF Text
    <2> QED
      BY <1>4, <2>1, <2>2
  <1>7. r \in Nat /\ r < Len(e.buffer) /\ Len(e.buffer) \in Nat
    BY TextFacts
  <1> HIDE DEF r, e2
  <1>8. r + 1 \in Int /\ 0 \in Int /\ MAX(0, MIN(r + 1, Len(b) - 1)) = r + 1
    BY <1>3, <1>7 DEF MAX, MIN
  <1>9. TextOK(m) /\ m.buffer = b /\ m.cursor.row = r + 1 /\ Followed(e.view, m)
    BY <1>5, <1>6, <1>8, MoveCursorFollows
  <1>10. /\ m.cursor.row \in e.view.row..(e.view.row + Height - 1) => m.view.row = e.view.row
         /\ m.cursor.row >= e.view.row + Height => m.view.row = m.cursor.row - Height + 1
    BY <1>5, <1>6, <1>8, MoveCursorFollows
  <1>11. m.cursor.column = 0
    <2>1. m.cursor = Nearest(e2.buffer, r + 1, 0)
      BY <1>5, <1>6, <1>8, MoveCursorFields
    <2>2. e2.buffer \in Seq(Line) /\ e2.buffer # <<>> /\ 0 <= 0
      BY <1>6 DEF Text
    <2> QED
      BY <1>8, <2>1, <2>2, NearestFacts
  <1> QED
    BY <1>3, <1>9, <1>10, <1>11 DEF r

\* editor_join_line: one line less, and the view does not follow the cursor.
LEMMA JoinLineShortens ==
    ASSUME NEW e, TextOK(e), NEW add \in BOOLEAN, e.cursor.row # 0
    PROVE  /\ Len(JoinLine(e, add).buffer) = Len(e.buffer) - 1
           /\ JoinLine(e, add).cursor.row = e.cursor.row - 1
           /\ JoinLine(e, add).view = e.view
  <1> DEFINE r      == e.cursor.row
             prev   == LineAt(e, r - 1)
             e1     == Record(e, add, "DELETE", Newline, 1, At(r - 1, Len(prev)))
             joined == [e.buffer EXCEPT ![r] = prev \o CursorLine(e)]
             b      == RemoveAt(joined, r + 1)
             c      == At(r - 1, Len(prev))
  <1>1. r \in 1..(Len(e.buffer) - 1) /\ r \in 1..Len(e.buffer)
    BY TextFacts
  <1>2. prev \in Line /\ Len(prev) \in Nat
    BY <1>1, TextFacts, ElementOfSeq, LenProperties DEF LineAt, Line
  <1>3. prev \o CursorLine(e) \in Line
    BY <1>2, TextFacts, ConcatProperties DEF Line
  <1>4. joined \in Seq(Line) /\ Len(joined) = Len(e.buffer)
    BY <1>1, <1>3, TextFacts, ExceptSeq
  <1>5. c \in Position
    BY <1>1, <1>2 DEF At, Position
  <1>6. e1 \in Text /\ e1.buffer = e.buffer /\ e1.view = e.view
    BY <1>5, TextFacts, RecordOK, CharProperties
  <1>7. Len(b) = Len(e.buffer) - 1
    <2>1. r + 1 \in 1..Len(joined)
      BY <1>1, <1>4, TextFacts
    <2> HIDE DEF joined, r
    <2> QED
      BY <1>4, <2>1, RemoveAtElements
  <1> HIDE DEF joined, prev
  <1>8. JoinLine(e, add) = [e1 EXCEPT !.buffer = b, !.cursor = c]
    BY <1>6 DEF JoinLine, joined, prev, Text
  <1>9. c.row = r - 1
    BY DEF At
  <1> HIDE DEF b, c, e1
  <1> QED
    BY <1>6, <1>7, <1>8, <1>9 DEF Text

\* editor_delete_char in a row that is shown: the cursor is shown, unless
\* lines are joined or there is nothing to delete.
LEMMA DeleteCharFollows ==
    ASSUME NEW e, TextOK(e), RowShown(e), NEW add \in BOOLEAN,
           NEW m, m = DeleteChar(e, add)
    PROVE  /\ TextOK(m)
           /\ \/ Len(m.buffer) = Len(e.buffer) - 1
              \/ m = e
              \/ /\ Len(m.buffer) = Len(e.buffer)
                 /\ m.cursor.row = e.cursor.row /\ m.view.row = e.view.row
                 /\ RowShown(m) /\ ColumnShown(m)
  <1>0. TextOK(m)
    BY DeleteCharOK
  <1>1. CASE e.cursor.column = 0 /\ e.cursor.row = 0
    BY <1>0, <1>1 DEF DeleteChar, JoinLine
  <1>2. CASE e.cursor.column = 0 /\ e.cursor.row # 0
    BY <1>0, <1>2, JoinLineShortens DEF DeleteChar
  <1>3. CASE e.cursor.column # 0
    <2> DEFINE c  == e.cursor
               l  == CursorLine(e)
               n  == IF HasTab(l, c.column) THEN 4 ELSE 1
               ch == l[c.column - n + 1]
               pos == At(c.row, c.column - n)
               e1 == Record(e, add, "DELETE", ch, n, pos)
               D(y) == DeleteOne(y)
               Same(y, k) == /\ TextOK(y) /\ Len(y.buffer) = Len(e.buffer)
                             /\ y.cursor.row = e.cursor.row /\ y.view.row = e.view.row
                             /\ y.cursor.column = e.cursor.column - k
                             /\ RowShown(y)
    <2>1. /\ n \in {1, 4} /\ c.column \in Nat /\ c.column >= n
      BY <1>3, TextFacts DEF HasTab
    <2>2. ch \in Char \ {Tab} /\ (n = 4 => ch = Space)
      <3>0. n = 4 => ch = Space
        BY <2>1 DEF HasTab
      <3>1. c.column - n + 1 \in 1..Len(l)
        BY <2>1, TextFacts
      <3> HIDE DEF n, c
      <3> QED
        BY <3>0, <3>1, TextFacts, ElementOfSeq, CharProperties DEF Line
    <2>3. pos \in Position
      BY <2>1, TextFacts DEF At, Position
    <2>4. m = IF n = 1 THEN D(e1) ELSE D(D(D(D(e1))))
      BY <1>3 DEF DeleteChar, Repeat
    <2> HIDE DEF ch, n, pos
    <2>5. Same(e1, 0)
      <3>1. e.cursor.column \in Nat
        BY TextFacts
      <3> QED
        BY <2>1, <2>2, <2>3, <3>1, RecordFollows
    <2> HIDE DEF e1
    <2>6. ASSUME NEW y, NEW k \in Nat, k < n, Same(y, k) PROVE Same(D(y), k + 1) /\ ColumnShown(D(y))
      <3>1. y.cursor.column >= 1 /\ (e.cursor.column - k) - 1 = e.cursor.column - (k + 1)
        BY <2>1, <2>6
      <3> QED
        BY <2>6, <3>1, DeleteOneFollows
    <2> HIDE DEF D
    <2>7. CASE n = 1
      <3>1. m = D(e1)
        BY <2>4, <2>7
      <3>2. Same(D(e1), 0 + 1) /\ ColumnShown(D(e1))
        BY <2>5, <2>6, <2>7
      <3> QED
        BY <1>0, <3>1, <3>2
    <2>8. CASE n = 4
      <3>1. Same(D(e1), 0 + 1)
        BY <2>5, <2>6, <2>8
      <3>2. Same(D(D(e1)), 1 + 1)
        BY <2>6, <2>8, <3>1
      <3>3. Same(D(D(D(e1))), 2 + 1)
        BY <2>6, <2>8, <3>2
      <3>4. Same(m, 3 + 1) /\ ColumnShown(m)
        BY <2>4, <2>6, <2>8, <3>3
      <3> QED
        BY <1>0, <3>4
    <2> QED
      BY <2>1, <2>7, <2>8
  <1> QED
    BY <1>1, <1>2, <1>3

\* The undo of a deleted character: from wherever the cursor was.
LEMMA UndoDeleteFollows ==
    ASSUME NEW e, TextOK(e), NEW h \in HistoryEntry, h.type = "DELETE", Height >= 2,
           NEW m, m = UndoOne(e, h)
    PROVE  /\ TextOK(m)
           /\ h.ch # Newline => ColumnShown(m)
           /\ RowShown(m)
           /\ m.view.row = e.view.row => ColumnShown(m)
  <1> DEFINE x == MoveCursor(e, h.pos.row, h.pos.column)
  <1>0. h.pos.row \in Int /\ h.pos.column \in Int /\ h.ch \in Char \ {Tab}
    BY DEF HistoryEntry, Position
  <1>1. e \in Text /\ e.buffer # <<>>
    BY TextFacts
  <1>2. /\ TextOK(x) /\ RowShown(x)
        /\ x.cursor.row \in e.view.row..(e.view.row + Height - 1) => x.view.row = e.view.row
        /\ x.cursor.row < e.view.row => x.view.row = x.cursor.row
        /\ x.cursor.row >= e.view.row + Height => x.view.row = x.cursor.row - Height + 1
    <2> HIDE DEF x
    <2>1. x = MoveCursor(e, h.pos.row, h.pos.column)
      BY DEF x
    <2> QED
      BY <1>0, <1>1, <2>1, MoveCursorFollows DEF Followed
  <1>3. m = InsertChar(x, h.ch, FALSE)
    BY DEF UndoOne
  <1> HIDE DEF x
  <1>4. CASE h.ch # Newline
    BY <1>0, <1>2, <1>3, <1>4, InsertCharFollows
  <1>5. CASE h.ch = Newline
    <2>1. m = InsertLinebreak(x, FALSE)
      BY <1>3, <1>5 DEF InsertChar
    <2>2. /\ TextOK(m) /\ m.cursor.row = x.cursor.row + 1 /\ Followed(x.view, m)
          /\ m.cursor.row \in x.view.row..(x.view.row + Height - 1) => m.view.row = x.view.row
          /\ m.cursor.row >= x.view.row + Height => m.view.row = m.cursor.row - Height + 1
      BY <1>2, <2>1, InsertLinebreakFollows, ZenonT(30)
    <2>3. /\ x.cursor.row \in Nat /\ x.view.row \in Nat /\ e.view.row \in Nat /\ Height \in Nat
          /\ x.cursor.row >= x.view.row /\ x.cursor.row < x.view.row + Height
      <3>1. x \in Text /\ x.cursor.row \in Nat /\ Height \in Nat
        BY <1>2, TextFacts, SizeAssumption
      <3>2. x.view.row \in Nat /\ e.view.row \in Nat
        BY ONLY <1>1, <3>1 DEF Text, Position
      <3> QED
        BY <1>2, <3>1, <3>2 DEF RowShown
    <2>4. m.view.row = e.view.row => m.view.row = x.view.row
      <3>1. CASE m.cursor.row \in x.view.row..(x.view.row + Height - 1)
        BY <2>2, <3>1
      <3>2. CASE m.cursor.row >= x.view.row + Height
        <4>1. m.view.row = x.view.row + 1 /\ x.cursor.row = x.view.row + Height - 1
          BY <2>2, <2>3, <3>2
        <4>2. x.view.row + 1 # e.view.row
          BY <1>2, <2>3, <4>1
        <4> QED
          BY <4>1, <4>2
      <3> QED
        BY <2>2, <2>3, <3>1, <3>2
    <2> QED
      BY <1>5, <2>2, <2>4 DEF Followed
  <1> QED
    BY <1>4, <1>5, <1>2, <1>3, <1>0, InsertCharFollows

\* The undo of an inserted character: the text gets shorter, or the cursor is
\* shown where it was moved to.
LEMMA UndoInsertFollows ==
    ASSUME NEW e, TextOK(e), NEW h \in HistoryEntry, h.type = "INSERT",
           NEW m, m = UndoOne(e, h)
    PROVE  /\ TextOK(m)
           /\ Len(m.buffer) <= Len(e.buffer)
           /\ Len(m.buffer) = Len(e.buffer) =>
                /\ m.cursor.row = MAX(0, MIN(h.pos.row, Len(e.buffer) - 1))
                /\ Followed(e.view, m)
                /\ m.cursor.row \in e.view.row..(e.view.row + Height - 1) => m.view.row = e.view.row
  <1> DEFINE x == MoveCursor(e, h.pos.row, h.pos.column)
  <1>0. h.pos.row \in Int /\ h.pos.column \in Int
    BY DEF HistoryEntry, Position
  <1>1. e \in Text /\ e.buffer # <<>> /\ Len(e.buffer) \in Nat
    BY TextFacts
  <1>2. /\ TextOK(x) /\ RowShown(x) /\ Followed(e.view, x) /\ x.buffer = e.buffer
        /\ x.cursor.row = MAX(0, MIN(h.pos.row, Len(e.buffer) - 1))
        /\ x.cursor.row \in e.view.row..(e.view.row + Height - 1) => x.view.row = e.view.row
    <2> HIDE DEF x
    <2>1. x = MoveCursor(e, h.pos.row, h.pos.column)
      BY DEF x
    <2> QED
      BY <1>0, <1>1, <2>1, MoveCursorFollows DEF Followed
  <1>3. m = DeleteChar(x, FALSE)
    BY DEF UndoOne
  <1> HIDE DEF x
  <1>4. /\ TextOK(m)
        /\ \/ Len(m.buffer) = Len(x.buffer) - 1
           \/ m = x
           \/ /\ Len(m.buffer) = Len(x.buffer)
              /\ m.cursor.row = x.cursor.row /\ m.view.row = x.view.row
              /\ RowShown(m) /\ ColumnShown(m)
    BY <1>2, <1>3, DeleteCharFollows
  <1> QED
    BY <1>1, <1>2, <1>4 DEF Followed

\* editor_undo shows the cursor unless it scrolls the rows or joins lines.
LEMMA UndoFollows ==
    ASSUME NEW e, TextOK(e), RowShown(e), ColumnShown(e), Height >= 2, NEW m, m = Undo(e)
    PROVE  \/ Len(m.buffer) < Len(e.buffer)
           \/ m.view.row # e.view.row
           \/ RowShown(m) /\ ColumnShown(m)
  <1>1. CASE e.history = <<>>
    BY <1>1 DEF Undo
  <1>2. CASE e.history # <<>>
    <2> DEFINE h == Last(e.history)
               e0 == [e EXCEPT !.history = Front(@)]
               U(y) == UndoOne(y, h)
    <2>1. e \in Text /\ e.history \in Seq(HistoryEntry) /\ Len(e.history) \in Nat \ {0}
      BY <1>2, TextFacts, EmptySeq DEF Text
    <2>2. h \in HistoryEntry /\ Front(e.history) \in Seq(HistoryEntry)
      BY <2>1, ElementOfSeq, SubSeqProperties DEF Last, Front
    <2>3. TextOK(e0) /\ e0.buffer = e.buffer /\ e0.view = e.view
      BY <2>1, <2>2 DEF TextOK, Text, CursorInText, CursorLine, LineAt
    <2>4. m = IF h.nchars = 1 THEN U(e0) ELSE U(U(U(U(e0))))
      BY <1>2 DEF Undo, Repeat
    <2>5. h.nchars \in {1, 4} /\ (h.nchars = 4 => h.ch = Space) /\ h.type \in {"INSERT", "DELETE"}
      BY <2>2 DEF HistoryEntry
    <2> HIDE DEF h, e0
    <2>6. CASE h.type = "DELETE"
      <3>1. CASE h.nchars = 1
        BY <2>2, <2>3, <2>4, <2>6, <3>1, UndoDeleteFollows
      <3>2. CASE h.nchars = 4
        <4>1. h.ch # Newline
          BY <2>5, <3>2 DEF Space, Newline, Plain
        <4>2. ASSUME NEW y, TextOK(y) PROVE TextOK(U(y)) /\ RowShown(U(y)) /\ ColumnShown(U(y))
          BY <2>2, <2>6, <4>1, <4>2, UndoDeleteFollows
        <4> HIDE DEF U
        <4>3. TextOK(U(e0)) /\ TextOK(U(U(e0))) /\ TextOK(U(U(U(e0))))
          BY <2>3, <4>2
        <4> QED
          BY <2>4, <3>2, <4>2, <4>3
      <3> QED
        BY <2>5, <3>1, <3>2
    <2>7. CASE h.type = "INSERT"
      <3> DEFINE R == MAX(0, MIN(h.pos.row, Len(e.buffer) - 1))
                 Short(y) == TextOK(y) /\ Len(y.buffer) < Len(e.buffer)
                 Back(y)  == TextOK(y) /\ Len(y.buffer) = Len(e.buffer) /\ y.cursor.row = R /\ RowShown(y)
      <3>0. \A y : TextOK(y) => Len(y.buffer) \in Nat
        BY TextFacts
      <3>1. Short(U(e0)) \/ (Back(U(e0)) /\ Followed(e.view, U(e0)))
        <4>1. /\ TextOK(U(e0)) /\ Len(U(e0).buffer) <= Len(e0.buffer)
              /\ Len(U(e0).buffer) = Len(e0.buffer) =>
                   /\ U(e0).cursor.row = MAX(0, MIN(h.pos.row, Len(e0.buffer) - 1))
                   /\ Followed(e0.view, U(e0))
          BY <2>2, <2>3, <2>7, UndoInsertFollows
        <4> HIDE DEF U
        <4> QED
          BY <2>3, <3>0, <4>1 DEF Followed
      <3>2. ASSUME NEW y, Short(y) PROVE Short(U(y))
        <4>1. TextOK(U(y)) /\ Len(U(y).buffer) <= Len(y.buffer)
          BY <2>2, <2>7, <3>2, UndoInsertFollows
        <4> QED
          BY <3>0, <3>2, <4>1
      <3>3. ASSUME NEW y, Back(y) PROVE Short(U(y)) \/ (Back(U(y)) /\ ColumnShown(U(y)))
        <4>1. /\ TextOK(U(y)) /\ Len(U(y).buffer) <= Len(y.buffer)
              /\ Len(U(y).buffer) = Len(y.buffer) =>
                   /\ U(y).cursor.row = R /\ Followed(y.view, U(y))
                   /\ R \in y.view.row..(y.view.row + Height - 1) => U(y).view.row = y.view.row
          BY <2>2, <2>7, <3>3, UndoInsertFollows
        <4> QED
          BY <3>0, <3>3, <4>1 DEF Followed, RowShown
      <3> HIDE DEF U, Short, Back
      <3>4. CASE h.nchars = 1
        BY <2>4, <3>1, <3>4 DEF Short, Back, Followed
      <3>5. CASE h.nchars = 4
        <4>1. Short(U(U(U(e0)))) \/ Back(U(U(U(e0))))
          BY <3>1, <3>2, <3>3
        <4>2. Short(m) \/ (Back(m) /\ ColumnShown(m))
          BY <2>4, <3>2, <3>3, <3>5, <4>1
        <4> QED
          BY <4>2 DEF Short, Back
      <3> QED
        BY <2>5, <3>4, <3>5
    <2> QED
      BY <2>5, <2>6, <2>7
  <1> QED
    BY <1>1, <1>2

\* In a window of at least two rows, the cursor is lost from sight only by a
\* join or in a step that scrolls the rows (editor_move_cursor,
\* editor_join_line).
THEOREM CursorIsFollowed ==
    ASSUME Height >= 2
    PROVE  Spec => CursorHiddenOnlyBy
  <1> DEFINE Kept(e, m) == \/ Len(m.buffer) < Len(e.buffer)
                           \/ m.view.row # e.view.row
                           \/ RowShown(m) /\ ColumnShown(m)
  <1>1. ASSUME EditorTypeOK, [Next]_vars, CursorVisible
        PROVE  Kept(ed, ed')
    <2>0. TextOK(ed) /\ ed \in Text /\ ed.buffer # <<>> /\ RowShown(ed) /\ ColumnShown(ed)
      BY <1>1, TextFacts DEF EditorTypeOK, CursorVisible, RowShown, ColumnShown
    <2>1. CASE ed' = ed
      BY <2>0, <2>1
    <2>2. CASE ed' = EmptyText
      BY <2>2, SizeAssumption DEF EmptyText, At, RowShown, ColumnShown
    <2>3. CASE UndoKey
      BY <2>0, <2>3, UndoFollows DEF UndoKey
    <2>4. ASSUME NEW k \in Keys, MoveKey(k)
          PROVE  Kept(ed, ed')
      <3>2. PICK row \in Int, column \in Int : ed' = MoveCursor(ed, row, column)
        BY <2>0, <2>4, MoveKeyMoves
      <3> QED
        BY <2>0, <3>2, MoveCursorFollows DEF Followed
    <2>5. ASSUME NEW k \in Keys, InsertKey(k)
          PROVE  Kept(ed, ed')
      <3> DEFINE ch == KeycodeToChar(k)
      <3>1. ch \in Char /\ ed' = InsertChar(ed, ch, TRUE)
        BY <2>5, KeycodeToCharType DEF InsertKey
      <3> HIDE DEF ch
      <3>2. CASE ch = Newline
        BY <2>0, <3>1, <3>2, InsertLinebreakFollows DEF Followed, InsertChar
      <3>3. CASE ch # Newline
        BY <2>0, <3>1, <3>3, InsertCharFollows
      <3> QED
        BY <3>2, <3>3
    <2>6. CASE DeleteKey
      <3>1. ed' = DeleteChar(ed, TRUE) /\ Len(ed.buffer) \in Nat
        BY <2>0, <2>6, TextFacts DEF DeleteKey
      <3> QED
        <4>1. \/ Len(ed'.buffer) = Len(ed.buffer) - 1
              \/ ed' = ed
              \/ ed'.view.row = ed.view.row /\ RowShown(ed') /\ ColumnShown(ed')
          BY <2>0, <3>1, DeleteCharFollows
        <4>2. CASE ed' = ed
          BY <2>0, <4>2
        <4>3. Len(ed'.buffer) = Len(ed.buffer) - 1 => Len(ed'.buffer) < Len(ed.buffer)
          <5>1. \A i \in Nat : \A j : j = i - 1 => j < i
            OBVIOUS
          <5> QED
            BY <3>1, <5>1, Zenon
        <4> QED
          BY <4>1, <4>2, <4>3, Zenon
    <2>7. ed' = ed \/ ed' = EmptyText \/ UndoKey \/ (\E k \in Keys : MoveKey(k) \/ InsertKey(k)) \/ DeleteKey
      BY <1>1, StepsOfText
    <2> QED
      BY <2>1, <2>2, <2>3, <2>4, <2>5, <2>6, <2>7
  <1>2. ASSUME EditorTypeOK, [Next]_vars
        PROVE  [CursorVisible /\ ~CursorVisible'
                  => \/ Len(ed'.buffer) < Len(ed.buffer)
                     \/ ed'.view.row # ed.view.row]_vars
    BY <1>1, <1>2 DEF CursorVisible, RowShown, ColumnShown
  <1> QED
    BY <1>2, TypeCorrect, PTL DEF Spec, CursorHiddenOnlyBy

-----------------------------------------------------------------------------
(* Lines that are split and joined *)

\* The text b with a line cut at (r, c); with line r + 1 joined to line r.
Split(b, r, c) ==
    InsertAt([b EXCEPT ![r + 1] = SubSeq(b[r + 1], 1, c)], r + 2,
             SubSeq(b[r + 1], c + 1, Len(b[r + 1])))
Join(b, r) == RemoveAt([b EXCEPT ![r] = b[r] \o b[r + 1]], r + 1)

\* The two halves of a line, and the line of two halves.
LEMMA Halves ==
    ASSUME NEW l \in Line, NEW c \in 0..Len(l)
    PROVE  /\ SubSeq(l, 1, c) \in Line /\ Len(SubSeq(l, 1, c)) = c
           /\ SubSeq(l, c + 1, Len(l)) \in Line
           /\ SubSeq(l, 1, c) \o SubSeq(l, c + 1, Len(l)) = l
  <1> DEFINE h == SubSeq(l, 1, c)
             t == SubSeq(l, c + 1, Len(l))
  <1>1. Len(l) \in Nat /\ \A i \in 1..Len(l) : l[i] \in TextChar
    BY LenProperties, ElementOfSeq DEF Line
  <1>2. h \in Seq(TextChar) /\ Len(h) = c /\ \A i \in 1..c : h[i] = l[i]
    <2>1. 1 \in Int /\ c \in Int /\ \A i \in 1..c : l[i] \in TextChar
      BY <1>1
    <2>2. /\ h \in Seq(TextChar) /\ Len(h) = (IF 1 <= c THEN c - 1 + 1 ELSE 0)
          /\ \A i \in 1..(c - 1 + 1) : h[i] = l[1 + i - 1]
      BY ONLY <2>1, SubSeqProperties
    <2> QED
      BY <1>1, <2>2
  <1>3. /\ t \in Seq(TextChar) /\ Len(t) = Len(l) - c
        /\ \A i \in 1..(Len(l) - c) : t[i] = l[c + i]
    <2>1. c + 1 \in Int /\ Len(l) \in Int /\ \A i \in (c + 1)..Len(l) : l[i] \in TextChar
      BY <1>1
    <2>2. /\ t \in Seq(TextChar)
          /\ Len(t) = (IF c + 1 <= Len(l) THEN Len(l) - (c + 1) + 1 ELSE 0)
          /\ \A i \in 1..(Len(l) - (c + 1) + 1) : t[i] = l[(c + 1) + i - 1]
      BY ONLY <2>1, SubSeqProperties
    <2>3. Len(l) - (c + 1) + 1 = Len(l) - c
      BY <1>1
    <2>4. ASSUME NEW i \in 1..(Len(l) - c) PROVE t[i] = l[c + i]
      <3>1. (c + 1) + i - 1 = c + i
        BY <1>1
      <3>2. t[i] = l[(c + 1) + i - 1]
        BY <2>2, <2>3
      <3> QED
        BY <3>1, <3>2
    <2>5. Len(t) = Len(l) - c
      BY <1>1, <2>2
    <2> QED
      BY <2>2, <2>4, <2>5
  <1> HIDE DEF h, t
  <1>4. h \o t = l
    <2>1. /\ h \o t \in Seq(TextChar) /\ Len(h \o t) = Len(h) + Len(t)
          /\ \A i \in 1..(Len(h) + Len(t)) :
               (h \o t)[i] = IF i <= Len(h) THEN h[i] ELSE t[i - Len(h)]
      BY <1>2, <1>3, ConcatProperties, Zenon
    <2>2. Len(h) + Len(t) = Len(l)
      BY <1>1, <1>2, <1>3
    <2>3. ASSUME NEW i \in 1..Len(l) PROVE (h \o t)[i] = l[i]
      <3>1. i > c => i - c \in 1..(Len(l) - c) /\ c + (i - c) = i
        BY <1>1
      <3> QED
        BY <1>1, <1>2, <1>3, <2>1, <2>2, <3>1
    <2> QED
      BY <2>1, <2>2, <2>3, SeqEqual DEF Line
  <1> QED
    BY <1>2, <1>3, <1>4 DEF h, t, Line

\* The two halves of two lines that were joined.
LEMMA Whole ==
    ASSUME NEW a \in Line, NEW b \in Line
    PROVE  /\ a \o b \in Line /\ Len(a) \in 0..Len(a \o b)
           /\ SubSeq(a \o b, 1, Len(a)) = a
           /\ SubSeq(a \o b, Len(a) + 1, Len(a \o b)) = b
  <1> DEFINE l == a \o b
             h == SubSeq(l, 1, Len(a))
             t == SubSeq(l, Len(a) + 1, Len(l))
  <1>0. a \in Seq(TextChar) /\ b \in Seq(TextChar) /\ Len(a) \in Nat /\ Len(b) \in Nat
    BY LenProperties DEF Line
  <1>1. /\ l \in Seq(TextChar) /\ Len(l) = Len(a) + Len(b)
        /\ \A i \in 1..(Len(a) + Len(b)) : l[i] = IF i <= Len(a) THEN a[i] ELSE b[i - Len(a)]
    BY <1>0, ConcatProperties, Zenon
  <1> HIDE DEF l
  <1>2. \A i \in 1..Len(l) : l[i] \in TextChar
    BY <1>1, ElementOfSeq
  <1>3. h = a
    <2>1. /\ h \in Seq(TextChar) /\ Len(h) = (IF 1 <= Len(a) THEN Len(a) - 1 + 1 ELSE 0)
          /\ \A i \in 1..(Len(a) - 1 + 1) : h[i] = l[1 + i - 1]
      <3>1. 1 \in Int /\ Len(a) \in Int /\ \A i \in 1..Len(a) : l[i] \in TextChar
        BY <1>0, <1>1, <1>2
      <3> QED
        BY ONLY <3>1, SubSeqProperties
    <2> HIDE DEF h
    <2>2. Len(h) = Len(a) /\ \A i \in 1..Len(h) : h[i] = a[i]
      BY <1>0, <1>1, <2>1
    <2> QED
      BY <1>0, <2>1, <2>2, SeqEqual
  <1>4. t = b
    <2>1. /\ t \in Seq(TextChar)
          /\ Len(t) = (IF Len(a) + 1 <= Len(l) THEN Len(l) - (Len(a) + 1) + 1 ELSE 0)
          /\ \A i \in 1..(Len(l) - (Len(a) + 1) + 1) : t[i] = l[(Len(a) + 1) + i - 1]
      <3>1. Len(a) + 1 \in Int /\ Len(l) \in Int /\ \A i \in (Len(a) + 1)..Len(l) : l[i] \in TextChar
        BY <1>0, <1>1, <1>2
      <3> QED
        BY ONLY <3>1, SubSeqProperties
    <2> HIDE DEF t
    <2>2. Len(t) = Len(b)
      BY <1>0, <1>1, <2>1
    <2>3. ASSUME NEW i \in 1..Len(t) PROVE t[i] = b[i]
      <3>1. /\ i \in 1..(Len(l) - (Len(a) + 1) + 1)
            /\ (Len(a) + 1) + i - 1 = Len(a) + i /\ Len(a) + i \in 1..(Len(a) + Len(b))
            /\ ~(Len(a) + i <= Len(a)) /\ (Len(a) + i) - Len(a) = i
        BY <1>0, <1>1, <2>2
      <3> QED
        BY <1>1, <2>1, <3>1
    <2> QED
      BY <1>0, <2>1, <2>2, <2>3, SeqEqual
  <1> QED
    BY <1>0, <1>1, <1>3, <1>4 DEF l, Line

\* A split text, line by line; joining takes the split back.
LEMMA SplitFacts ==
    ASSUME NEW b \in Seq(Line), NEW r, NEW c, In(b, r, c)
    PROVE  /\ Split(b, r, c) \in Seq(Line)
           /\ Len(Split(b, r, c)) = Len(b) + 1
           /\ \A k \in 1..(Len(b) + 1) :
                Split(b, r, c)[k] =
                  IF k < r + 1 THEN b[k]
                  ELSE IF k = r + 1 THEN SubSeq(b[r + 1], 1, c)
                  ELSE IF k = r + 2 THEN SubSeq(b[r + 1], c + 1, Len(b[r + 1]))
                  ELSE b[k - 1]
           /\ Join(Split(b, r, c), r + 1) = b
  <1> DEFINE h == SubSeq(b[r + 1], 1, c)
             t == SubSeq(b[r + 1], c + 1, Len(b[r + 1]))
             cut == [b EXCEPT ![r + 1] = h]
             s == InsertAt(cut, r + 2, t)
  <1>1. Len(b) \in Nat /\ r \in 0..(Len(b) - 1) /\ r \in Nat
    BY LenProperties DEF In
  <1>2. b[r + 1] \in Line /\ c \in 0..Len(b[r + 1])
    BY <1>1, ElementOfSeq DEF In
  <1>3. h \in Line /\ t \in Line /\ h \o t = b[r + 1]
    BY ONLY <1>2, Halves
  <1>4. Split(b, r, c) = s
    BY DEF Split
  <1> HIDE DEF h, t
  <1>5. /\ cut \in Seq(Line) /\ Len(cut) = Len(b)
        /\ \A k \in 1..Len(b) : cut[k] = IF k = r + 1 THEN h ELSE b[k]
    BY <1>1, <1>3, ExceptSeq
  <1> HIDE DEF cut
  <1>6. /\ s \in Seq(Line) /\ Len(s) = Len(b) + 1
        /\ \A k \in 1..(Len(b) + 1) :
             s[k] = IF k < r + 2 THEN cut[k] ELSE IF k = r + 2 THEN t ELSE cut[k - 1]
    <2> DEFINE i == r + 2
    <2>1. cut \in Seq(Line) /\ i \in 1..(Len(cut) + 1) /\ t \in Line
      BY <1>1, <1>3, <1>5
    <2> HIDE DEF i
    <2>2. /\ InsertAt(cut, i, t) \in Seq(Line) /\ Len(InsertAt(cut, i, t)) = Len(cut) + 1
          /\ \A k \in 1..(Len(cut) + 1) :
               InsertAt(cut, i, t)[k] = IF k < i THEN cut[k] ELSE IF k = i THEN t ELSE cut[k - 1]
      BY ONLY <2>1, InsertAtElements, SMTT(30)
    <2>3. s = InsertAt(cut, i, t) /\ Len(cut) = Len(b)
      BY <1>5 DEF i
    <2>4. \A k \in 1..(Len(b) + 1) :
             s[k] = IF k < i THEN cut[k] ELSE IF k = i THEN t ELSE cut[k - 1]
      BY ONLY <2>2, <2>3, Zenon
    <2> HIDE DEF s
    <2>5. s \in Seq(Line) /\ Len(s) = Len(b) + 1
      BY ONLY <2>2, <2>3, Zenon
    <2> QED
      BY ONLY <2>4, <2>5 DEF i
  <1> HIDE DEF s
  <1>7. ASSUME NEW k \in 1..(Len(b) + 1)
        PROVE  s[k] = IF k < r + 1 THEN b[k] ELSE IF k = r + 1 THEN h ELSE IF k = r + 2 THEN t
                      ELSE b[k - 1]
    <2>1. CASE k < r + 2
      <3>1. k \in 1..Len(b) /\ s[k] = cut[k] /\ k # r + 2
        BY <1>1, <1>6, <2>1
      <3> QED
        BY <1>1, <1>5, <2>1, <3>1
    <2>2. CASE k = r + 2
      BY <1>1, <1>6, <2>2
    <2>3. CASE k > r + 2
      <3>1. k - 1 \in 1..Len(b) /\ k - 1 # r + 1 /\ s[k] = cut[k - 1]
        BY <1>1, <1>6, <2>3
      <3>2. s[k] = b[k - 1]
        BY <1>5, <3>1
      <3> QED
        BY <1>1, <2>3, <3>2
    <2> QED
      BY <1>1, <2>1, <2>2, <2>3
  <1> DEFINE j == [s EXCEPT ![r + 1] = s[r + 1] \o s[(r + 1) + 1]]
  <1>8. s[r + 1] \o s[(r + 1) + 1] = b[r + 1]
    <2>0. (r + 1) + 1 = r + 2 /\ r + 1 \in 1..(Len(b) + 1) /\ r + 2 \in 1..(Len(b) + 1)
      BY <1>1
    <2>1. s[r + 1] = h /\ s[r + 2] = t
      BY <1>1, <1>7, <2>0
    <2> QED
      BY <1>3, <2>0, <2>1
  <1>9. /\ j \in Seq(Line) /\ Len(j) = Len(b) + 1
        /\ \A k \in 1..(Len(b) + 1) : j[k] = IF k = r + 1 THEN b[r + 1] ELSE s[k]
    BY <1>1, <1>2, <1>6, <1>8, ExceptSeq
  <1> HIDE DEF j
  <1>10. b = RemoveAt(j, (r + 1) + 1)
    <2>1. (r + 1) + 1 \in 1..Len(j) /\ Len(b) = Len(j) - 1
      BY <1>1, <1>9
    <2>2. ASSUME NEW k \in 1..Len(b)
          PROVE  b[k] = IF k < (r + 1) + 1 THEN j[k] ELSE j[k + 1]
      <3>1. CASE k < r + 1
        <4>1. k \in 1..(Len(b) + 1) /\ k # r + 1 /\ j[k] = s[k] /\ s[k] = b[k]
          BY <1>1, <1>7, <1>9, <3>1
        <4> QED
          BY <1>1, <3>1, <4>1
      <3>2. CASE k = r + 1
        BY <1>1, <1>9, <3>2
      <3>3. CASE k > r + 1
        <4>1. k + 1 \in 1..(Len(b) + 1) /\ k + 1 # r + 1 /\ (k + 1) - 1 = k /\ k + 1 # r + 2
              /\ ~(k + 1 < r + 1)
          BY <1>1, <3>3
        <4>2. s[k + 1] = b[(k + 1) - 1]
          BY <1>7, <4>1
        <4>3. j[k + 1] = s[k + 1]
          BY <1>9, <4>1
        <4> QED
          BY <1>1, <3>3, <4>1, <4>2, <4>3
      <3> QED
        BY <1>1, <3>1, <3>2, <3>3
    <2> QED
      BY <1>9, <2>1, <2>2, RemoveSeq
  <1>11. Join(Split(b, r, c), r + 1) = b
    BY <1>4, <1>10 DEF Join, j
  <1> QED
    BY <1>4, <1>6, <1>7, <1>11 DEF h, t

\* A joined text; splitting takes the join back.
LEMMA JoinFacts ==
    ASSUME NEW b \in Seq(Line), NEW r \in 1..(Len(b) - 1)
    PROVE  /\ Join(b, r) \in Seq(Line)
           /\ Len(Join(b, r)) = Len(b) - 1
           /\ In(Join(b, r), r - 1, Len(b[r]))
           /\ Split(Join(b, r), r - 1, Len(b[r])) = b
  <1> DEFINE j == Join(b, r)
             l == b[r] \o b[r + 1]
             m == [b EXCEPT ![r] = l]
  <1>1. Len(b) \in Nat /\ r \in 1..Len(b) /\ r + 1 \in 1..Len(b) /\ r - 1 \in 0..(Len(b) - 2)
    BY LenProperties
  <1>2. b[r] \in Line /\ b[r + 1] \in Line
    BY <1>1, ElementOfSeq
  <1>3. /\ l \in Line /\ Len(b[r]) \in 0..Len(l) /\ Len(b[r]) \in Nat
        /\ SubSeq(l, 1, Len(b[r])) = b[r] /\ SubSeq(l, Len(b[r]) + 1, Len(l)) = b[r + 1]
    BY ONLY <1>2, Whole, LenProperties DEF Line
  <1>4. j = RemoveAt(m, r + 1)
    BY DEF Join
  <1> HIDE DEF l
  <1>5. /\ m \in Seq(Line) /\ Len(m) = Len(b)
        /\ \A k \in 1..Len(b) : m[k] = IF k = r THEN l ELSE b[k]
    BY <1>1, <1>3, ExceptSeq
  <1> HIDE DEF j, m
  <1>6. /\ j \in Seq(Line) /\ Len(j) = Len(b) - 1
        /\ \A k \in 1..(Len(b) - 1) : j[k] = IF k < r + 1 THEN m[k] ELSE m[k + 1]
    <2>1. m \in Seq(Line) /\ r + 1 \in 1..Len(m)
      BY <1>1, <1>5
    <2> QED
      BY ONLY <1>4, <1>5, <2>1, RemoveAtElements
  <1>7. j[r] = l /\ (r - 1) + 1 = r
    BY <1>1, <1>5, <1>6
  <1>8. In(j, r - 1, Len(b[r]))
    BY <1>1, <1>3, <1>6, <1>7 DEF In
  <1> DEFINE cut == [j EXCEPT ![r] = b[r]]
  <1>9. /\ cut \in Seq(Line) /\ Len(cut) = Len(b) - 1
        /\ \A k \in 1..(Len(b) - 1) : cut[k] = IF k = r THEN b[r] ELSE j[k]
    BY <1>1, <1>2, <1>6, ExceptSeq
  <1>10. Split(j, r - 1, Len(b[r])) = InsertAt(cut, r + 1, b[r + 1])
    <2>1. (r - 1) + 2 = r + 1
      BY <1>1
    <2> QED
      BY <1>3, <1>7, <2>1 DEF Split
  <1> HIDE DEF cut
  <1>11. b = InsertAt(cut, r + 1, b[r + 1])
    <2>1. r + 1 \in 1..(Len(cut) + 1) /\ Len(b) = Len(cut) + 1
      BY <1>1, <1>9
    <2>2. ASSUME NEW k \in 1..Len(b)
          PROVE  b[k] = IF k < r + 1 THEN cut[k] ELSE IF k = r + 1 THEN b[r + 1] ELSE cut[k - 1]
      BY <1>1, <1>5, <1>6, <1>9, SMTT(30)
    <2> QED
      BY <1>2, <1>9, <2>1, <2>2, InsertSeq
  <1> QED
    BY <1>6, <1>8, <1>10, <1>11 DEF j

\* What editor_insert_linebreak changes.
LEMMA InsertLinebreakFields ==
    ASSUME NEW e, TextOK(e), NEW add \in BOOLEAN
    PROVE  /\ In(e.buffer, e.cursor.row, e.cursor.column)
           /\ InsertLinebreak(e, add).buffer = Split(e.buffer, e.cursor.row, e.cursor.column)
           /\ InsertLinebreak(e, add).history =
                IF add THEN Append(e.history, Entry("INSERT", Newline, 1, At(e.cursor.row + 1, 0)))
                       ELSE e.history
  <1> DEFINE r    == e.cursor.row
             c    == e.cursor.column
             e1   == Record(e, add, "INSERT", Newline, 1, At(r + 1, 0))
             b    == Split(e.buffer, r, c)
             e2   == [e1 EXCEPT !.buffer = b]
  <1>1. e.buffer \in Seq(Line) /\ In(e.buffer, r, c)
    BY TextFacts DEF In, CursorLine, LineAt
  <1>2. b \in Seq(Line) /\ Len(b) = Len(e.buffer) + 1
    BY <1>1, SplitFacts
  <1>3. /\ e1 \in Text /\ e1.buffer = e.buffer
        /\ e1.history = IF add THEN Append(e.history, Entry("INSERT", Newline, 1, At(r + 1, 0)))
                               ELSE e.history
    <2>1. At(r + 1, 0) \in Position
      BY TextFacts DEF At, Position
    <2> QED
      BY <2>1, TextFacts, RecordOK, RecordFields, CharProperties
  <1>4. InsertLinebreak(e, add) = MoveCursor(e2, r + 1, 0)
    <2>1. [e1 EXCEPT !.buffer = InsertAt([@ EXCEPT ![r + 1] = SubSeq(CursorLine(e), 1, c)],
                                         r + 2, SubSeq(CursorLine(e), c + 1, Len(CursorLine(e))))]
            = e2
      BY <1>3 DEF Split, CursorLine, LineAt
    <2> QED
      BY <2>1 DEF InsertLinebreak
  <1> HIDE DEF e1, b
  <1>5. /\ e2 \in Text /\ e2.buffer = b /\ e2.history = e1.history
    BY <1>2, <1>3 DEF Text
  <1>6. r + 1 \in Int /\ 0 \in Int
    BY TextFacts
  <1> HIDE DEF r, e2
  <1>7. MoveCursor(e2, r + 1, 0).buffer = b /\ MoveCursor(e2, r + 1, 0).history = e1.history
    BY <1>5, <1>6, MoveCursorFields
  <1> QED
    BY <1>1, <1>3, <1>4, <1>7 DEF b, r

\* What editor_join_line changes.
LEMMA JoinLineFields ==
    ASSUME NEW e, TextOK(e), NEW add \in BOOLEAN, e.cursor.row # 0
    PROVE  /\ e.cursor.row \in 1..(Len(e.buffer) - 1)
           /\ JoinLine(e, add).buffer = Join(e.buffer, e.cursor.row)
           /\ JoinLine(e, add).history =
                IF add THEN Append(e.history, Entry("DELETE", Newline, 1,
                                 At(e.cursor.row - 1, Len(e.buffer[e.cursor.row]))))
                       ELSE e.history
  <1> DEFINE r      == e.cursor.row
             prev   == LineAt(e, r - 1)
             c      == At(r - 1, Len(prev))
             e1     == Record(e, add, "DELETE", Newline, 1, c)
             b      == Join(e.buffer, r)
  <1>1. r \in 1..(Len(e.buffer) - 1) /\ (r - 1) + 1 = r
    BY TextFacts
  <1>2. prev = e.buffer[r]
    BY <1>1 DEF LineAt
  <1>3. /\ e1.buffer = e.buffer /\ e1 \in Text
        /\ e1.history = IF add THEN Append(e.history, Entry("DELETE", Newline, 1, c)) ELSE e.history
    <2>1. prev \in Line /\ Len(prev) \in Nat
      BY <1>1, <1>2, TextFacts, ElementOfSeq, LenProperties DEF Line
    <2>2. c \in Position
      BY <1>1, <2>1 DEF At, Position
    <2> HIDE DEF c
    <2> QED
      BY <2>2, TextFacts, RecordOK, RecordFields, CharProperties
  <1>4. JoinLine(e, add) = [e1 EXCEPT !.buffer = b, !.cursor = c]
    BY <1>1, <1>2, <1>3 DEF JoinLine, Join, CursorLine, LineAt, Text
  <1> HIDE DEF b, e1
  <1>5. /\ [e1 EXCEPT !.buffer = b, !.cursor = c].buffer = b
        /\ [e1 EXCEPT !.buffer = b, !.cursor = c].history = e1.history
    <2> HIDE DEF c
    <2> QED
      BY <1>3 DEF Text
  <1> QED
    BY <1>1, <1>2, <1>3, <1>4, <1>5 DEF b

\* The line l without the n characters behind its first c.
Narrow(l, c, n) == [i \in 1..(Len(l) - n) |-> IF i <= c THEN l[i] ELSE l[i + n]]

\* A line without n equal characters, widened by them, is the line.
LEMMA Narrowed ==
    ASSUME NEW l \in Line, NEW c \in Nat, NEW n \in Nat, c + n <= Len(l), NEW x \in TextChar,
           \A i \in (c + 1)..(c + n) : l[i] = x
    PROVE  /\ Narrow(l, c, n) \in Line /\ Len(Narrow(l, c, n)) = Len(l) - n
           /\ Widened(Narrow(l, c, n), c, x, n) = l
  <1> DEFINE W(i) == IF i <= c THEN l[i] ELSE l[i + n]
             s == Narrow(l, c, n)
  <1>1. Len(l) \in Nat /\ \A i \in 1..Len(l) : l[i] \in TextChar
    BY LenProperties, ElementOfSeq DEF Line
  <1>2. \A i \in 1..(Len(l) - n) : W(i) \in TextChar
    BY <1>1
  <1> HIDE DEF W
  <1>3. s \in Seq(TextChar) /\ Len(s) = Len(l) - n /\ \A i \in 1..(Len(l) - n) : s[i] = W(i)
    <2>1. Len(l) - n \in Nat
      BY <1>1
    <2>2. s = [i \in 1..(Len(l) - n) |-> W(i)]
      BY DEF Narrow, W
    <2> HIDE DEF s
    <2> QED
      BY <1>2, <2>1, <2>2
  <1> HIDE DEF s
  <1>4. s \in Line /\ c \in 0..Len(s)
    BY <1>1, <1>3 DEF Line
  <1> DEFINE w == Widened(s, c, x, n)
  <1>5. /\ w \in Line /\ Len(w) = Len(s) + n
        /\ \A i \in 1..(Len(s) + n) :
             w[i] = IF i <= c THEN s[i] ELSE IF i <= c + n THEN x ELSE s[i - n]
    <2>1. s \in Line /\ c \in 0..Len(s) /\ x \in TextChar /\ n \in Nat
      BY <1>4
    <2> QED
      BY ONLY <2>1, WidenedFacts
  <1> HIDE DEF w
  <1>6. ASSUME NEW i \in 1..Len(w) PROVE w[i] = l[i]
    <2>0. Len(w) = Len(l)
      BY <1>1, <1>3, <1>5
    <2>1. CASE i <= c
      <3>1. i \in 1..(Len(l) - n) /\ s[i] = l[i]
        BY <1>1, <1>3, <2>0, <2>1 DEF W
      <3> QED
        BY <1>5, <2>1, <3>1
    <2>2. CASE i > c /\ i <= c + n
      BY <1>1, <1>5, <2>2
    <2>3. CASE i > c + n
      <3>1. i - n \in 1..(Len(l) - n) /\ ~(i - n <= c) /\ (i - n) + n = i /\ ~(i <= c) /\ ~(i <= c + n)
        BY <1>1, <2>0, <2>3
      <3>2. s[i - n] = l[i]
        BY <1>3, <3>1 DEF W
      <3> QED
        BY <1>5, <3>1, <3>2
    <2> QED
      BY <2>1, <2>2, <2>3
  <1>7. w = l
    <2>1. Len(w) = Len(l)
      BY <1>1, <1>3, <1>5
    <2> QED
      BY <1>5, <1>6, <2>1, SeqEqual DEF Line
  <1> QED
    BY <1>3, <1>4, <1>7 DEF w, s

\* editor_delete_char within a line.
LEMMA DeleteCharFields ==
    ASSUME NEW e, TextOK(e), e.cursor.column # 0, NEW add \in BOOLEAN,
           NEW m, m = DeleteChar(e, add),
           NEW n, n = (IF HasTab(CursorLine(e), e.cursor.column) THEN 4 ELSE 1)
    PROVE  /\ n \in {1, 4} /\ e.cursor.column - n \in Nat
           /\ \E x \in TextChar :
                /\ n = 4 => x = Space
                /\ CursorLine(e)[e.cursor.column] = x
                /\ In(m.buffer, e.cursor.row, e.cursor.column - n) /\ m.buffer \in Seq(Line)
                /\ e.buffer = Typed(m.buffer, e.cursor.row, e.cursor.column - n, x, n)
                /\ m.history =
                     IF add THEN Append(e.history, Entry("DELETE", x, n,
                                                At(e.cursor.row, e.cursor.column - n)))
                            ELSE e.history
  <1> DEFINE r == e.cursor.row
             q == e.cursor.column
             c == q - n
             l == CursorLine(e)
             x == l[q - n + 1]
             e0 == Record(e, add, "DELETE", x, n, At(r, q - n))
             D(y) == DeleteOne(y)
  <1>1. /\ n \in {1, 4} /\ n \in Nat /\ q \in Nat /\ c \in Nat /\ r \in 0..(Len(e.buffer) - 1)
        /\ e.buffer \in Seq(Line) /\ l \in Line /\ l = e.buffer[r + 1] /\ c + n = q
        /\ q \in 1..Len(l) /\ Len(l) \in Nat
    <2>1. /\ e.buffer \in Seq(Line) /\ r \in 0..(Len(e.buffer) - 1)
          /\ l \in Line /\ Len(l) \in Nat /\ q \in 0..Len(l)
      BY TextFacts
    <2>2. l = e.buffer[r + 1]
      BY DEF CursorLine, LineAt
    <2>3. n \in {1, 4} /\ (n = 4 => q >= 4)
      BY DEF HasTab
    <2>4. q # 0
      OBVIOUS
    <2> HIDE DEF l, q, r
    <2> QED
      BY ONLY <2>1, <2>2, <2>3, <2>4
  <1>2. x \in TextChar /\ (n = 4 => x = Space) /\ \A i \in (c + 1)..(c + n) : l[i] = x
    <2>1. x \in TextChar
      <3>1. q - n + 1 \in 1..Len(l)
        BY <1>1, SMTT(30)
      <3> HIDE DEF q, l
      <3> QED
        BY <1>1, <3>1, ElementOfSeq DEF Line
    <2>2. CASE n = 1
      <3> HIDE DEF l, q
      <3>1. \A i \in (c + 1)..(c + n) : i = q - n + 1
        BY <1>1, <2>2
      <3> QED
        BY <1>1, <2>1, <2>2, <3>1
    <2>3. CASE n = 4
      <3>1. \A i \in 1..4 : l[q - i + 1] = Space
        BY <2>3 DEF HasTab
      <3>2. x = Space
        <4>1. l[q - 4 + 1] = Space
          BY <3>1
        <4> QED
          BY <2>3, <4>1
      <3>3. ASSUME NEW i \in (c + 1)..(c + n) PROVE l[i] = Space
        <4> HIDE DEF c, q
        <4>1. q - i + 1 \in 1..4 /\ q - (q - i + 1) + 1 = i
          <5>1. i \in (c + 1)..(c + n)
            OBVIOUS
          <5> QED
            BY ONLY <1>1, <2>3, <5>1
        <4> QED
          BY <3>1, <4>1
      <3> QED
        BY <2>1, <3>2, <3>3
    <2> QED
      BY <1>1, <2>2, <2>3
  <1>3. m = IF n = 1 THEN D(e0) ELSE D(D(D(D(e0))))
    BY DEF DeleteChar, Repeat
  <1> DEFINE s == Narrow(l, c, n)
  <1>4. s \in Line /\ Len(s) = Len(l) - n /\ Widened(s, c, x, n) = l
    <2>1. c + n <= Len(l)
      BY <1>1
    <2>2. x \in TextChar /\ \A i \in (c + 1)..(c + n) : l[i] = x
      BY <1>2
    <2>3. l \in Line /\ c \in Nat /\ n \in Nat
      BY <1>1
    <2> HIDE DEF x, l, c, q
    <2> QED
      BY ONLY <2>1, <2>2, <2>3, Narrowed, ZenonT(30)
  <1> HIDE DEF s
  <1> DEFINE b == [e.buffer EXCEPT ![r + 1] = s]
  <1>5. b \in Seq(Line) /\ Len(b) = Len(e.buffer) /\ b[r + 1] = s /\ In(b, r, c)
    <2>1. b \in Seq(Line) /\ Len(b) = Len(e.buffer) /\ b[r + 1] = s
      <3>1. s \in Line /\ e.buffer \in Seq(Line) /\ r + 1 \in 1..Len(e.buffer)
        BY <1>1, <1>4, LenProperties, SMTT(30)
      <3> HIDE DEF r
      <3> QED
        BY ONLY <3>1, ExceptSeq
    <2> HIDE DEF b, c, q, l
    <2>2. c \in 0..Len(s)
      BY ONLY <1>1, <1>4
    <2> QED
      BY <1>1, <2>1, <2>2 DEF In
  <1>6. e.buffer = Typed(b, r, c, x, n)
    <2>1. Typed(b, r, c, x, n) = [b EXCEPT ![r + 1] = l]
      BY <1>4, <1>5 DEF Typed
    <2>2. e.buffer \in [1..Len(e.buffer) -> Line] /\ r + 1 \in 1..Len(e.buffer)
      BY <1>1, LenProperties, SMTT(30)
    <2>3. [b EXCEPT ![r + 1] = l] = e.buffer
      BY <1>1, <2>2
    <2> QED
      BY <2>1, <2>3
  <1> HIDE DEF b
  <1>7. /\ TextOK(e0) /\ e0.buffer = e.buffer /\ e0.cursor = At(r, q)
        /\ e0.history = IF add THEN Append(e.history, Entry("DELETE", x, n, At(r, q - n)))
                               ELSE e.history
    <2> DEFINE pos == At(r, q - n)
    <2>1. pos \in Position
      BY <1>1 DEF At, Position
    <2>2. x \in Char \ {Tab}
      BY <1>2, CharProperties
    <2>3. e.cursor = At(r, q)
      BY TextFacts DEF Text, Position, At
    <2> HIDE DEF pos, x
    <2>4. e \in Text
      BY TextFacts
    <2>5. n \in {1, 4} /\ (n = 4 => x = Space)
      BY <1>1, <1>2
    <2>6. e0 = Record(e, add, "DELETE", x, n, pos)
      BY DEF pos
    <2>7. TextOK(e0) /\ e0.buffer = e.buffer /\ e0.cursor = e.cursor
      BY <2>1, <2>2, <2>5, <2>6, RecordFollows
    <2>8. e0.history = IF add THEN Append(e.history, Entry("DELETE", x, n, pos)) ELSE e.history
      BY <2>4, <2>6, RecordFields
    <2> QED
      BY <2>3, <2>7, <2>8 DEF pos
  <1> DEFINE After(y, k) == /\ TextOK(y) /\ y.buffer = Typed(b, r, c, x, k) /\ y.cursor = At(r, c + k)
                            /\ y.history = e0.history
  <1>8. After(e0, n)
    BY <1>1, <1>6, <1>7
  <1> HIDE DEF e0, r, q, c, l, x
  <1>9. ASSUME NEW y, NEW k \in Nat, k >= 1, After(y, k) PROVE After(D(y), k - 1)
    <2>1. y.cursor.row = r /\ y.cursor.column = c + k /\ y.cursor.column >= 1
      BY <1>1, <1>9 DEF At
    <2>2. TextOK(D(y))
      BY <1>9, <2>1, DeleteOneOK
    <2>3. (c + k) - 1 = c + (k - 1)
      BY <1>1
    <2>4. D(y).cursor = At(r, c + (k - 1)) /\ D(y).history = y.history
      <3>1. /\ D(y).cursor = At(y.cursor.row, y.cursor.column - 1)
            /\ D(y).history = y.history
        BY <1>9, <2>1, DeleteOneFields
      <3> HIDE DEF D
      <3> QED
        BY <2>1, <2>3, <3>1
    <2>5. D(y).buffer = Typed(b, r, c, x, k - 1)
      <3>1. c + k \in (c + 1)..(c + k)
        BY <1>1, <1>9
      <3> QED
        BY <1>1, <1>2, <1>5, <1>9, <3>1, DeleteOneTyped, SMTT(30)
    <2> QED
      BY <1>9, <2>2, <2>4, <2>5
  <1> HIDE DEF After, D
  <1>10. After(m, 0)
    <2>1. CASE n = 1
      <3>1. After(D(e0), 1 - 1)
        BY <1>8, <1>9, <2>1
      <3> QED
        BY <1>3, <2>1, <3>1
    <2>2. CASE n = 4
      <3>1. After(D(e0), 4 - 1)
        BY <1>8, <1>9, <2>2
      <3>2. After(D(D(e0)), 3 - 1)
        BY <1>9, <3>1
      <3>3. After(D(D(D(e0))), 2 - 1)
        BY <1>9, <3>2
      <3>4. After(D(D(D(D(e0)))), 1 - 1)
        BY <1>9, <3>3
      <3> QED
        BY <1>3, <2>2, <3>4
    <2> QED
      BY <1>1, <2>1, <2>2
  <1>11. m.buffer = b /\ m.history = e0.history
    <2>1. 0 \in Nat /\ Typed(b, r, c, x, 0) = b
      BY <1>2, <1>5, TypedFacts
    <2> QED
      BY <1>10, <2>1 DEF After
  <1>12. l[q] = x
    BY <1>1, <1>2
  <1>13. /\ x \in TextChar /\ (n = 4 => x = Space) /\ l[q] = x
         /\ In(m.buffer, r, c) /\ m.buffer \in Seq(Line) /\ e.buffer = Typed(m.buffer, r, c, x, n)
         /\ m.history = IF add THEN Append(e.history, Entry("DELETE", x, n, At(r, c))) ELSE e.history
    BY <1>2, <1>5, <1>6, <1>7, <1>11, <1>12 DEF c
  <1>14. n \in {1, 4} /\ c \in Nat
    BY <1>1
  <1> QED
    BY <1>13, <1>14 DEF c, r, q, l

\* What an entry of the history says: the edit that it records made the
\* text b1 out of the text b0.
RecordsChars(b0, h, b1) ==
    /\ h.type = "INSERT" /\ h.ch # Newline
    /\ \E r, c : In(b0, r, c) /\ h.pos = At(r, c + 1) /\ b1 = Typed(b0, r, c, h.ch, h.nchars)
RecordsBreak(b0, h, b1) ==
    /\ h.type = "INSERT" /\ h.ch = Newline
    /\ \E r, c : In(b0, r, c) /\ h.pos = At(r + 1, 0) /\ b1 = Split(b0, r, c)
RecordsDeletion(b0, h, b1) ==
    /\ h.type = "DELETE" /\ h.ch # Newline
    /\ In(b1, h.pos.row, h.pos.column)
    /\ b0 = Typed(b1, h.pos.row, h.pos.column, h.ch, h.nchars)
RecordsJoin(b0, h, b1) ==
    /\ h.type = "DELETE" /\ h.ch = Newline
    /\ In(b1, h.pos.row, h.pos.column)
    /\ b0 = Split(b1, h.pos.row, h.pos.column)

Recorded(b0, h, b1) ==
    /\ h \in HistoryEntry /\ b0 \in Seq(Line) /\ b1 \in Seq(Line)
    /\ \/ RecordsChars(b0, h, b1) \/ RecordsBreak(b0, h, b1)
       \/ RecordsDeletion(b0, h, b1) \/ RecordsJoin(b0, h, b1)

\* The entries that the edits record.
LEMMA EntryType ==
    ASSUME NEW type \in {"INSERT", "DELETE"}, NEW ch \in Char \ {Tab}, NEW n \in {1, 4},
           NEW pos \in Position, n = 4 => ch = Space
    PROVE  /\ Entry(type, ch, n, pos) \in HistoryEntry
           /\ Entry(type, ch, n, pos).type = type /\ Entry(type, ch, n, pos).ch = ch
           /\ Entry(type, ch, n, pos).nchars = n /\ Entry(type, ch, n, pos).pos = pos
  BY DEF Entry, HistoryEntry

\* The entry of a typed character says what became of the text.
LEMMA InsertCharRecords ==
    ASSUME NEW e, TextOK(e), NEW ch \in Char, NEW m, m = InsertChar(e, ch, TRUE)
    PROVE  \E h : m.history = Append(e.history, h) /\ Recorded(e.buffer, h, m.buffer)
  <1>0. /\ TextOK(m) /\ m.buffer \in Seq(Line) /\ e.buffer \in Seq(Line)
        /\ e.cursor.row \in Nat /\ e.cursor.column \in Nat
    <2>1. TextOK(m)
      BY InsertCharOK
    <2>2. m.buffer \in Seq(Line) /\ e.buffer \in Seq(Line)
      BY <2>1, TextFacts
    <2>3. e.cursor.row \in Nat /\ e.cursor.column \in Nat
      BY TextFacts
    <2> QED
      BY <2>1, <2>2, <2>3
  <1>1. CASE ch = Newline
    <2> DEFINE pos == At(e.cursor.row + 1, 0)
               h == Entry("INSERT", Newline, 1, pos)
    <2>1. /\ In(e.buffer, e.cursor.row, e.cursor.column)
          /\ m.buffer = Split(e.buffer, e.cursor.row, e.cursor.column)
          /\ m.history = Append(e.history, h)
      BY <1>1, InsertLinebreakFields DEF InsertChar
    <2>2. pos \in Position
      BY <1>0 DEF At, Position
    <2>3. h \in HistoryEntry /\ h.type = "INSERT" /\ h.ch = Newline /\ h.pos = pos
      BY <2>2, CharProperties, EntryType
    <2> HIDE DEF h
    <2>4. RecordsBreak(e.buffer, h, m.buffer)
      BY <2>1, <2>3 DEF RecordsBreak
    <2> QED
      BY <1>0, <2>1, <2>3, <2>4 DEF Recorded
  <1>2. CASE ch # Newline
    <2> DEFINE x == IF ch = Tab THEN Space ELSE ch
               n == IF ch = Tab THEN 4 ELSE 1
               pos == At(e.cursor.row, e.cursor.column + 1)
               h == Entry("INSERT", x, n, pos)
    <2>1. /\ m.buffer = Typed(e.buffer, e.cursor.row, e.cursor.column, x, n)
          /\ m.history = Append(e.history, h)
      <3>1. ch \in Char \ {Newline} /\ TRUE \in BOOLEAN
        BY <1>2
      <3> HIDE DEF x, n
      <3>2. x = (IF ch = Tab THEN Space ELSE ch) /\ n = (IF ch = Tab THEN 4 ELSE 1)
        BY DEF x, n
      <3>3. PICK add \in BOOLEAN : add = TRUE
        OBVIOUS
      <3>4. /\ InsertChar(e, ch, add).buffer =
                 Typed(e.buffer, e.cursor.row, e.cursor.column, x, n)
            /\ InsertChar(e, ch, add).history =
                 IF add THEN Append(e.history, Entry("INSERT", x, n,
                                                     At(e.cursor.row, e.cursor.column + 1)))
                        ELSE e.history
        BY <3>1, <3>2, InsertCharFields
      <3> QED
        BY <3>3, <3>4
    <2>2. pos \in Position /\ In(e.buffer, e.cursor.row, e.cursor.column)
      BY <1>0, TextFacts DEF At, Position, In, CursorLine, LineAt
    <2>3. x \in Char \ {Tab} /\ x # Newline /\ n \in {1, 4} /\ (n = 4 => x = Space)
      BY <1>2, CharProperties
    <2> HIDE DEF x, n
    <2>4. h \in HistoryEntry /\ h.type = "INSERT" /\ h.ch = x /\ h.nchars = n /\ h.pos = pos
      <3> HIDE DEF pos
      <3> QED
        BY <2>2, <2>3, EntryType
    <2> HIDE DEF h
    <2>5. RecordsChars(e.buffer, h, m.buffer)
      BY <2>1, <2>2, <2>3, <2>4 DEF RecordsChars
    <2> QED
      BY <1>0, <2>1, <2>4, <2>5 DEF Recorded
  <1> QED
    BY <1>1, <1>2

\* The entry of a deletion says what became of the text.
LEMMA DeleteCharRecords ==
    ASSUME NEW e, TextOK(e), NEW m, m = DeleteChar(e, TRUE)
    PROVE  \/ m = e
           \/ \E h : m.history = Append(e.history, h) /\ Recorded(e.buffer, h, m.buffer)
  <1>0. /\ TextOK(m) /\ m.buffer \in Seq(Line) /\ e.buffer \in Seq(Line)
        /\ e.cursor.row \in Nat /\ e.cursor.column \in Nat
    <2>1. TextOK(m)
      BY DeleteCharOK
    <2>2. m.buffer \in Seq(Line) /\ e.buffer \in Seq(Line)
      BY <2>1, TextFacts
    <2>3. e.cursor.row \in Nat /\ e.cursor.column \in Nat
      BY TextFacts
    <2> QED
      BY <2>1, <2>2, <2>3
  <1>1. CASE e.cursor.column = 0 /\ e.cursor.row = 0
    BY <1>1 DEF DeleteChar, JoinLine
  <1>2. CASE e.cursor.column = 0 /\ e.cursor.row # 0
    <2> DEFINE r == e.cursor.row
               c == Len(e.buffer[r])
               pos == At(r - 1, c)
               h == Entry("DELETE", Newline, 1, pos)
    <2>1. /\ r \in 1..(Len(e.buffer) - 1) /\ m.buffer = Join(e.buffer, r)
          /\ m.history = Append(e.history, h)
      BY <1>2, JoinLineFields DEF DeleteChar
    <2>2. In(m.buffer, r - 1, c) /\ Split(m.buffer, r - 1, c) = e.buffer
      BY <1>0, <2>1, JoinFacts
    <2>3. pos \in Position /\ pos.row = r - 1 /\ pos.column = c
      BY <1>0, <2>1, <2>2 DEF At, Position, In
    <2> HIDE DEF pos
    <2>4. h \in HistoryEntry /\ h.type = "DELETE" /\ h.ch = Newline /\ h.pos = pos
      BY <2>3, CharProperties, EntryType
    <2> HIDE DEF h, c, r
    <2>5. RecordsJoin(e.buffer, h, m.buffer)
      BY <2>2, <2>3, <2>4 DEF RecordsJoin
    <2> QED
      BY <1>0, <2>1, <2>4, <2>5 DEF Recorded
  <1>3. CASE e.cursor.column # 0
    <2> DEFINE n == IF HasTab(CursorLine(e), e.cursor.column) THEN 4 ELSE 1
               r == e.cursor.row
               c == e.cursor.column - n
    <2>1. n \in {1, 4} /\ c \in Nat /\ \E x \in TextChar :
             /\ n = 4 => x = Space
             /\ In(m.buffer, r, c)
             /\ e.buffer = Typed(m.buffer, r, c, x, n)
             /\ m.history = Append(e.history, Entry("DELETE", x, n, At(r, c)))
      <3> HIDE DEF n
      <3>1. n = (IF HasTab(CursorLine(e), e.cursor.column) THEN 4 ELSE 1) /\ TRUE \in BOOLEAN
        BY DEF n
      <3>a. PICK add \in BOOLEAN : add = TRUE
        OBVIOUS
      <3>b. m = DeleteChar(e, add)
        BY <3>a
      <3>2. /\ n \in {1, 4} /\ e.cursor.column - n \in Nat
            /\ \E x \in TextChar :
                 /\ n = 4 => x = Space
                 /\ CursorLine(e)[e.cursor.column] = x
                 /\ In(m.buffer, e.cursor.row, e.cursor.column - n) /\ m.buffer \in Seq(Line)
                 /\ e.buffer = Typed(m.buffer, e.cursor.row, e.cursor.column - n, x, n)
                 /\ m.history =
                      IF add THEN Append(e.history, Entry("DELETE", x, n,
                                                 At(e.cursor.row, e.cursor.column - n)))
                             ELSE e.history
        <4>1. TextOK(e) /\ e.cursor.column # 0
          BY <1>3
        <4> QED
          BY ONLY <3>1, <3>b, <4>1, add \in BOOLEAN, DeleteCharFields, SMTT(30)
      <3> QED
        BY <3>2, <3>a
    <2>2. PICK x \in TextChar :
             /\ n = 4 => x = Space
             /\ In(m.buffer, r, c)
             /\ e.buffer = Typed(m.buffer, r, c, x, n)
             /\ m.history = Append(e.history, Entry("DELETE", x, n, At(r, c)))
      BY <2>1
    <2> DEFINE pos == At(r, c)
               h == Entry("DELETE", x, n, pos)
    <2>3. pos \in Position /\ pos.row = r /\ pos.column = c
      BY <1>0, <2>1 DEF At, Position
    <2> HIDE DEF n, c, r
    <2>4. m.history = Append(e.history, h)
      BY <2>2
    <2> HIDE DEF pos
    <2>5. x \in Char \ {Tab} /\ x # Newline
      BY CharProperties
    <2>6. h \in HistoryEntry /\ h.type = "DELETE" /\ h.ch = x /\ h.nchars = n /\ h.pos = pos
      BY <2>1, <2>2, <2>3, <2>5, EntryType
    <2> HIDE DEF h
    <2>7. RecordsDeletion(e.buffer, h, m.buffer)
      BY <2>2, <2>3, <2>5, <2>6 DEF RecordsDeletion
    <2> QED
      BY <1>0, <2>4, <2>6, <2>7 DEF Recorded
  <1> QED
    BY <1>1, <1>2, <1>3

-----------------------------------------------------------------------------
(* What an undo does to the text *)

\* The cursor goes to a position of the text.
LEMMA MovedTo ==
    ASSUME NEW y, TextOK(y), NEW r, NEW c, In(y.buffer, r, c), NEW m, m = MoveCursor(y, r, c)
    PROVE  /\ TextOK(m) /\ m.buffer = y.buffer /\ m.history = y.history
           /\ m.cursor = At(r, c) /\ m.cursor.row = r /\ m.cursor.column = c
           /\ CursorLine(m) = y.buffer[r + 1]
  <1>1. y \in Text /\ y.buffer \in Seq(Line) /\ y.buffer # <<>>
    BY TextFacts
  <1>2. r \in 0..(Len(y.buffer) - 1) /\ c \in 0..Len(y.buffer[r + 1]) /\ r \in Int /\ c \in Int
    BY DEF In
  <1>3. TextOK(m) /\ m.buffer = y.buffer /\ m.history = y.history /\ m.cursor = Nearest(y.buffer, r, c)
    BY <1>1, <1>2, MoveCursorOK, MoveCursorFields
  <1>4. Nearest(y.buffer, r, c) = At(r, c)
    BY <1>1, <1>2, NearestInText
  <1> QED
    BY <1>3, <1>4 DEF At, CursorLine, LineAt

\* Nothing is recorded while an undo edits.
LEMMA UndoEdits ==
    ASSUME NEW y, TextOK(y), NEW h \in HistoryEntry, NEW m,
           m = MoveCursor(y, h.pos.row, h.pos.column)
    PROVE  /\ h.type = "DELETE" => UndoOne(y, h) = InsertChar(m, h.ch, FALSE)
           /\ h.type = "DELETE" /\ h.ch # Newline => UndoOne(y, h) = InsertOne(m, h.ch)
           /\ h.type = "DELETE" /\ h.ch = Newline => UndoOne(y, h) = InsertLinebreak(m, FALSE)
           /\ h.type = "INSERT" => UndoOne(y, h) = DeleteChar(m, FALSE)
           /\ h.type = "INSERT" /\ m.cursor.column = 0 => UndoOne(y, h) = JoinLine(m, FALSE)
           /\ h.type = "INSERT" /\ m.cursor.column # 0 /\ ~HasTab(CursorLine(m), m.cursor.column)
                => UndoOne(y, h) = DeleteOne(m)
  <1>1. h.ch # Tab /\ h.type \in {"INSERT", "DELETE"}
    BY DEF HistoryEntry
  <1>2. UndoOne(y, h) = IF h.type = "DELETE" THEN InsertChar(m, h.ch, FALSE)
                                             ELSE DeleteChar(m, FALSE)
    BY DEF UndoOne
  <1>3. h.ch # Newline => InsertChar(m, h.ch, FALSE) = InsertOne(m, h.ch)
    BY <1>1 DEF InsertChar, Repeat, Record
  <1>4. h.ch = Newline => InsertChar(m, h.ch, FALSE) = InsertLinebreak(m, FALSE)
    BY DEF InsertChar
  <1>5. m.cursor.column = 0 => DeleteChar(m, FALSE) = JoinLine(m, FALSE)
    BY DEF DeleteChar
  <1>6. m.cursor.column # 0 /\ ~HasTab(CursorLine(m), m.cursor.column)
          => DeleteChar(m, FALSE) = DeleteOne(m)
    BY DEF DeleteChar, Repeat, Record
  <1> QED
    BY <1>1, <1>2, <1>3, <1>4, <1>5, <1>6

\* The edits of an undo record nothing.
LEMMA UndoKeepsHistory ==
    ASSUME NEW y, TextOK(y), NEW h \in HistoryEntry
    PROVE  TextOK(UndoOne(y, h)) /\ UndoOne(y, h).history = y.history
  <1> DEFINE m == MoveCursor(y, h.pos.row, h.pos.column)
  <1>0. TextOK(UndoOne(y, h))
    BY UndoOneOK
  <1>1. TextOK(m) /\ m.history = y.history
    <2>1. h.pos.row \in Int /\ h.pos.column \in Int
      BY DEF HistoryEntry, Position
    <2> QED
      BY <2>1, TextFacts, MoveCursorOK
  <1>2. m = MoveCursor(y, h.pos.row, h.pos.column) /\ h.type \in {"INSERT", "DELETE"} /\ h.ch \in Char
        /\ FALSE \in BOOLEAN
    BY DEF HistoryEntry
  <1> HIDE DEF m
  <1>3. CASE h.type = "DELETE" /\ h.ch # Newline
    <2>1. UndoOne(y, h) = InsertOne(m, h.ch) /\ h.ch \in TextChar
      BY <1>2, <1>3, UndoEdits, CharProperties DEF HistoryEntry
    <2> QED
      <3>1. InsertOne(m, h.ch).history = m.history
        BY <1>1, <2>1, InsertOneFields
      <3> QED
        BY <1>0, <1>1, <2>1, <3>1
  <1>4. CASE h.type = "DELETE" /\ h.ch = Newline
    <2>1. UndoOne(y, h) = InsertLinebreak(m, FALSE)
      BY <1>2, <1>4, UndoEdits
    <2>2. InsertLinebreak(m, FALSE).history = m.history
      BY <1>1, <1>2, InsertLinebreakFields
    <2> QED
      BY <1>0, <1>1, <2>1, <2>2
  <1>5. CASE h.type = "INSERT" /\ m.cursor.column = 0
    <2>1. UndoOne(y, h) = JoinLine(m, FALSE)
      BY <1>2, <1>5, UndoEdits
    <2>2. m.cursor.row = 0 => JoinLine(m, FALSE) = m
      BY DEF JoinLine
    <2>3. m.cursor.row # 0 => JoinLine(m, FALSE).history = m.history
      BY <1>1, JoinLineFields
    <2> QED
      BY <1>0, <1>1, <2>1, <2>2, <2>3
  <1>6. CASE h.type = "INSERT" /\ m.cursor.column # 0
    <2>1. UndoOne(y, h) = DeleteChar(m, FALSE)
      BY <1>2, <1>6, UndoEdits
    <2>2. DeleteChar(m, FALSE).history = m.history
      BY <1>1, <1>6, DeleteCharFields
    <2> QED
      BY <1>0, <1>1, <2>1, <2>2
  <1> QED
    BY <1>2, <1>3, <1>4, <1>5, <1>6

\* One step of the undo of typed characters that do not look like a tab.
LEMMA UndoCharsStep ==
    ASSUME NEW y, TextOK(y), NEW b \in Seq(Line), NEW r, NEW c, In(b, r, c),
           NEW x \in TextChar, NEW k \in Nat, k >= 1, y.buffer = Typed(b, r, c, x, k),
           ~HasTab(Widened(b[r + 1], c, x, 1), c + 1),
           NEW h \in HistoryEntry, h.type = "INSERT", h.pos = At(r, c + 1)
    PROVE  UndoOne(y, h).buffer = Typed(b, r, c, x, k - 1)
  <1> DEFINE m == MoveCursor(y, h.pos.row, h.pos.column)
             l == b[r + 1]
  <1>0. b \in Seq(Line) /\ In(b, r, c) /\ x \in TextChar /\ k \in Nat /\ 1 \in Nat
    OBVIOUS
  <1>1. /\ y.buffer[r + 1] = Widened(l, c, x, k) /\ l \in Line /\ Len(l) \in Nat
        /\ Len(y.buffer) = Len(b)
    BY ONLY <1>0, y.buffer = Typed(b, r, c, x, k), TypedFacts
  <1>2. c \in 0..Len(l) /\ r \in 0..(Len(b) - 1)
    BY DEF In
  <1>3. Len(y.buffer[r + 1]) = Len(l) + k
    BY ONLY <1>0, <1>1, <1>2, WidenedFacts
  <1>4. ~HasTab(Widened(l, c, x, k), c + 1)
    BY <1>1, <1>2, WidenedHasTab
  <1>5. In(y.buffer, r, c + 1) /\ h.pos.row = r /\ h.pos.column = c + 1
    BY <1>1, <1>2, <1>3 DEF In, At
  <1>6. /\ TextOK(m) /\ m.buffer = y.buffer /\ m.cursor = At(r, c + 1) /\ m.cursor.column = c + 1
        /\ CursorLine(m) = Widened(l, c, x, k)
    BY <1>1, <1>5, MovedTo
  <1>7. UndoOne(y, h) = DeleteOne(m)
    <2>1. m.cursor.column # 0
      BY <1>2, <1>6
    <2>2. m = MoveCursor(y, h.pos.row, h.pos.column)
      OBVIOUS
    <2> HIDE DEF m
    <2> QED
      BY <1>4, <1>6, <2>1, <2>2, UndoEdits
  <1>8. DeleteOne(m).buffer = Typed(b, r, c, x, k - 1)
    <2>1. c + 1 \in (c + 1)..(c + k)
      BY <1>2
    <2> HIDE DEF m, l
    <2> QED
      BY <1>6, <2>1, DeleteOneTyped
  <1> QED
    BY <1>7, <1>8

\* One step of the undo of deleted characters.
LEMMA UndoDeletionStep ==
    ASSUME NEW y, TextOK(y), NEW b \in Seq(Line), NEW r, NEW c, In(b, r, c),
           NEW x \in TextChar, NEW k \in Nat, y.buffer = Typed(b, r, c, x, k),
           NEW h \in HistoryEntry, h.type = "DELETE", h.ch = x, h.pos = At(r, c)
    PROVE  UndoOne(y, h).buffer = Typed(b, r, c, x, k + 1)
  <1> DEFINE m == MoveCursor(y, h.pos.row, h.pos.column)
             l == b[r + 1]
  <1>0. b \in Seq(Line) /\ In(b, r, c) /\ x \in TextChar /\ k \in Nat
    OBVIOUS
  <1>1. /\ y.buffer[r + 1] = Widened(l, c, x, k) /\ l \in Line /\ Len(l) \in Nat
        /\ Len(y.buffer) = Len(b)
    BY ONLY <1>0, y.buffer = Typed(b, r, c, x, k), TypedFacts
  <1>2. c \in 0..Len(l) /\ r \in 0..(Len(b) - 1)
    BY DEF In
  <1>3. Len(y.buffer[r + 1]) = Len(l) + k
    BY ONLY <1>0, <1>1, <1>2, WidenedFacts
  <1>5. In(y.buffer, r, c) /\ h.pos.row = r /\ h.pos.column = c
    BY <1>1, <1>2, <1>3 DEF In, At
  <1>6. TextOK(m) /\ m.buffer = y.buffer /\ m.cursor = At(r, c)
    BY <1>1, <1>5, MovedTo
  <1>7. UndoOne(y, h) = InsertOne(m, x)
    <2>1. h.ch # Newline
      BY CharProperties
    <2>2. m = MoveCursor(y, h.pos.row, h.pos.column)
      OBVIOUS
    <2> HIDE DEF m
    <2> QED
      BY <2>1, <2>2, UndoEdits
  <1>8. InsertOne(m, x).buffer = Typed(b, r, c, x, k + 1)
    <2>1. c \in c..(c + k)
      BY <1>2
    <2> HIDE DEF m, l
    <2> QED
      BY <1>6, <2>1, InsertOneTyped
  <1> QED
    BY <1>7, <1>8

\* The undo of a newline that was typed, and of one that was deleted.
LEMMA UndoBreak ==
    ASSUME NEW y, TextOK(y), NEW b \in Seq(Line), NEW r, NEW c, In(b, r, c),
           y.buffer = Split(b, r, c),
           NEW h \in HistoryEntry, h.type = "INSERT", h.pos = At(r + 1, 0)
    PROVE  UndoOne(y, h).buffer = b
  <1> DEFINE m == MoveCursor(y, h.pos.row, h.pos.column)
  <1>1. Len(y.buffer) = Len(b) + 1 /\ Join(y.buffer, r + 1) = b /\ y.buffer \in Seq(Line)
    BY SplitFacts
  <1>2. r \in 0..(Len(b) - 1) /\ Len(b) \in Nat /\ r + 1 \in 0..(Len(y.buffer) - 1) /\ r + 1 # 0
    BY <1>1, LenProperties DEF In
  <1>3. In(y.buffer, r + 1, 0) /\ h.pos.row = r + 1 /\ h.pos.column = 0
    <2>1. y.buffer[(r + 1) + 1] \in Line
      BY <1>1, <1>2, ElementOfSeq
    <2>2. Len(y.buffer[(r + 1) + 1]) \in Nat
      BY <2>1, LenProperties DEF Line
    <2> QED
      BY <1>2, <2>2 DEF In, At
  <1>4. TextOK(m) /\ m.buffer = y.buffer /\ m.cursor.row = r + 1 /\ m.cursor.column = 0
    BY <1>3, MovedTo
  <1>5. UndoOne(y, h) = JoinLine(m, FALSE)
    <2>1. m = MoveCursor(y, h.pos.row, h.pos.column)
      OBVIOUS
    <2> HIDE DEF m
    <2> QED
      BY <1>4, <2>1, UndoEdits
  <1>6. JoinLine(m, FALSE).buffer = Join(m.buffer, r + 1)
    <2> HIDE DEF m
    <2>1. FALSE \in BOOLEAN /\ m.cursor.row # 0
      BY <1>2, <1>4
    <2> QED
      BY <1>4, <2>1, JoinLineFields
  <1> QED
    BY <1>1, <1>4, <1>5, <1>6

\* Undoing a join splits the line where it was joined.
LEMMA UndoJoin ==
    ASSUME NEW y, TextOK(y), NEW r, NEW c, In(y.buffer, r, c),
           NEW h \in HistoryEntry, h.type = "DELETE", h.ch = Newline, h.pos = At(r, c)
    PROVE  UndoOne(y, h).buffer = Split(y.buffer, r, c)
  <1> DEFINE m == MoveCursor(y, h.pos.row, h.pos.column)
  <1>1. h.pos.row = r /\ h.pos.column = c
    BY DEF At
  <1>2. TextOK(m) /\ m.buffer = y.buffer /\ m.cursor.row = r /\ m.cursor.column = c
    BY <1>1, MovedTo
  <1>3. UndoOne(y, h) = InsertLinebreak(m, FALSE)
    <2>1. m = MoveCursor(y, h.pos.row, h.pos.column)
      OBVIOUS
    <2> HIDE DEF m
    <2> QED
      BY <2>1, UndoEdits
  <1>4. InsertLinebreak(m, FALSE).buffer = Split(m.buffer, r, c)
    <2> HIDE DEF m
    <2>1. FALSE \in BOOLEAN
      OBVIOUS
    <2> QED
      BY <1>2, <2>1, InsertLinebreakFields
  <1> QED
    BY <1>2, <1>3, <1>4

\* The undo of an insertion in line r: there are less lines, or line r is not
\* longer, and it is shorter if there was something to delete.
LEMMA UndoInsertShrinks ==
    ASSUME NEW y, TextOK(y), NEW h \in HistoryEntry, h.type = "INSERT",
           NEW r, r = h.pos.row, r < Len(y.buffer), NEW m, m = UndoOne(y, h)
    PROVE  /\ TextOK(m) /\ Len(m.buffer) <= Len(y.buffer)
           /\ Len(m.buffer) = Len(y.buffer) =>
                /\ Len(m.buffer[r + 1]) <= Len(y.buffer[r + 1])
                /\ h.pos.column > 0 /\ Len(y.buffer[r + 1]) > 0
                     => Len(m.buffer[r + 1]) < Len(y.buffer[r + 1])
                /\ h.pos.column <= Len(y.buffer[r + 1]) /\ HasTab(y.buffer[r + 1], h.pos.column)
                     => Len(m.buffer[r + 1]) = Len(y.buffer[r + 1]) - 4
           /\ h.pos.column > 0 /\ Len(y.buffer[r + 1]) > 0 => Len(m.buffer) = Len(y.buffer)
  <1> DEFINE q == MAX(0, MIN(h.pos.column, Len(y.buffer[r + 1])))
             v == MoveCursor(y, r, q)
             w == MoveCursor(y, h.pos.row, h.pos.column)
  <1>1. /\ r \in Nat /\ h.pos.column \in Nat /\ y.buffer \in Seq(Line) /\ Len(y.buffer) \in Nat
        /\ r \in 0..(Len(y.buffer) - 1) /\ y \in Text /\ y.buffer # <<>>
    BY TextFacts DEF HistoryEntry, Position
  <1>2. y.buffer[r + 1] \in Line /\ Len(y.buffer[r + 1]) \in Nat
    <2>1. y.buffer[r + 1] \in Line
      BY <1>1, ElementOfSeq
    <2> QED
      BY <2>1, LenProperties DEF Line
  <1>3. /\ q \in 0..Len(y.buffer[r + 1]) /\ (h.pos.column <= Len(y.buffer[r + 1]) => q = h.pos.column)
        /\ h.pos.column > 0 /\ Len(y.buffer[r + 1]) > 0 => q > 0
    <2> DEFINE L == Len(y.buffer[r + 1])
               p == h.pos.column
    <2>1. L \in Nat /\ p \in Nat
      BY <1>1, <1>2
    <2> HIDE DEF L, p
    <2>2. /\ MAX(0, MIN(p, L)) \in 0..L /\ (p <= L => MAX(0, MIN(p, L)) = p)
          /\ p > 0 /\ L > 0 => MAX(0, MIN(p, L)) > 0
      BY <2>1 DEF MAX, MIN
    <2> QED
      BY <2>2 DEF L, p
  <1>4. MAX(0, MIN(r, Len(y.buffer) - 1)) = r
    BY <1>1 DEF MAX, MIN
  <1>5. /\ TextOK(w) /\ w.buffer = y.buffer /\ w.cursor = At(r, q)
    <2>1. TextOK(w) /\ w.buffer = y.buffer /\ w.cursor = Nearest(y.buffer, r, h.pos.column)
      BY <1>1, MoveCursorOK, MoveCursorFields
    <2> QED
      BY <1>4, <2>1 DEF Nearest
  <1>6. w.cursor.row = r /\ w.cursor.column = q /\ CursorLine(w) = y.buffer[r + 1]
    BY <1>5 DEF At, CursorLine, LineAt
  <1>7. m = DeleteChar(w, FALSE) /\ (q = 0 => m = JoinLine(w, FALSE)) /\ TextOK(m)
    <2>1. w = MoveCursor(y, h.pos.row, h.pos.column)
      OBVIOUS
    <2> HIDE DEF w, q
    <2> QED
      BY <1>6, <2>1, UndoEdits, UndoOneOK
  <1> HIDE DEF w, q
  <1>8. CASE q = 0
    <2>1. CASE r = 0
      <3>1. m = w
        BY <1>6, <1>7, <1>8, <2>1 DEF JoinLine
      <3> QED
        <4>1. m.buffer = y.buffer
          BY <1>5, <3>1
        <4>2. ~(h.pos.column > 0 /\ Len(y.buffer[r + 1]) > 0)
          BY <1>3, <1>8
        <4>3. ~(h.pos.column <= Len(y.buffer[r + 1]) /\ HasTab(y.buffer[r + 1], h.pos.column))
          BY <1>1, <1>3, <1>8 DEF HasTab
        <4>4. Len(y.buffer[r + 1]) <= Len(y.buffer[r + 1]) /\ Len(y.buffer) <= Len(y.buffer)
          BY <1>1, <1>2
        <4> QED
          BY <1>7, <4>1, <4>2, <4>3, <4>4, Zenon
    <2>2. CASE r # 0
      <3>1. Len(m.buffer) = Len(y.buffer) - 1
        BY <1>5, <1>6, <1>7, <1>8, <2>2, JoinLineShortens
      <3> QED
        <4>1. ~(h.pos.column > 0 /\ Len(y.buffer[r + 1]) > 0)
          BY <1>3, <1>8
        <4>2. Len(m.buffer) < Len(y.buffer) /\ Len(m.buffer) # Len(y.buffer) /\ Len(m.buffer) <= Len(y.buffer)
          BY <1>1, <3>1
        <4> QED
          BY <1>7, <4>1, <4>2
    <2> QED
      BY <2>1, <2>2
  <1>9. CASE q # 0
    <2> DEFINE n == IF HasTab(y.buffer[r + 1], q) THEN 4 ELSE 1
    <2>1. n = (IF HasTab(CursorLine(w), w.cursor.column) THEN 4 ELSE 1)
      BY <1>6
    <2>2. n \in Nat /\ n >= 1
      OBVIOUS
    <2> HIDE DEF n
    <2>3. PICK add \in BOOLEAN : add = FALSE
      OBVIOUS
    <2>4. m = DeleteChar(w, add) /\ w.cursor.column # 0
      BY <1>6, <1>7, <1>9, <2>3
    <2>5. \E x \in TextChar :
            /\ In(m.buffer, w.cursor.row, w.cursor.column - n) /\ m.buffer \in Seq(Line)
            /\ w.buffer = Typed(m.buffer, w.cursor.row, w.cursor.column - n, x, n)
      BY ONLY <1>5, <2>1, <2>3, <2>4, DeleteCharFields, SMTT(30)
    <2>6. PICK x \in TextChar : /\ In(m.buffer, r, q - n) /\ m.buffer \in Seq(Line)
                                /\ y.buffer = Typed(m.buffer, r, q - n, x, n)
      BY <1>5, <1>6, <2>5
    <2>7. /\ Len(y.buffer) = Len(m.buffer) /\ y.buffer[r + 1] = Widened(m.buffer[r + 1], q - n, x, n)
          /\ Len(m.buffer[r + 1]) \in Nat /\ m.buffer[r + 1] \in Line
      BY <2>2, <2>6, TypedFacts
    <2>8. Len(y.buffer[r + 1]) = Len(m.buffer[r + 1]) + n
      <3>1. q - n \in 0..Len(m.buffer[r + 1])
        BY <2>6 DEF In
      <3> DEFINE c == q - n
                 l == m.buffer[r + 1]
      <3>2. c \in 0..Len(l) /\ l \in Line /\ y.buffer[r + 1] = Widened(l, c, x, n)
        BY <2>7, <3>1
      <3> HIDE DEF c, l
      <3>3. Len(Widened(l, c, x, n)) = Len(l) + n
        <4>1. l \in Line /\ c \in 0..Len(l) /\ x \in TextChar /\ n \in Nat
          BY <2>2, <3>2
        <4> QED
          BY ONLY <4>1, WidenedFacts
      <3> QED
        BY <3>2, <3>3 DEF l
    <2>9. HasTab(y.buffer[r + 1], q) => n = 4
      BY DEF n
    <2> QED
      <3> DEFINE L == Len(y.buffer[r + 1])
                 M == Len(m.buffer[r + 1])
      <3>1. L \in Nat /\ M \in Nat /\ L = M + n /\ n \in Nat /\ n >= 1
        BY <1>2, <2>2, <2>7, <2>8
      <3> HIDE DEF L, M
      <3>2. M <= L /\ M < L /\ (n = 4 => M = L - 4)
        BY ONLY <3>1
      <3>3. h.pos.column <= L /\ HasTab(y.buffer[r + 1], h.pos.column) => n = 4
        BY <1>3, <2>9 DEF L
      <3>4. Len(m.buffer) = Len(y.buffer) /\ Len(m.buffer) <= Len(y.buffer)
        BY <1>1, <2>7
      <3> QED
        BY <1>7, <3>2, <3>3, <3>4 DEF L, M
  <1> QED
    BY <1>8, <1>9

\* The steps of an undo; its history.
LEMMA UndoSteps ==
    ASSUME NEW e, TextOK(e), e.history # <<>>, NEW h, h = Last(e.history),
           NEW e0, e0 = [e EXCEPT !.history = Front(@)]
    PROVE  /\ h \in HistoryEntry /\ h.nchars \in {1, 4}
           /\ TextOK(e0) /\ e0.buffer = e.buffer /\ e0.history = Front(e.history)
           /\ h.nchars = 1 => Undo(e) = UndoOne(e0, h)
           /\ h.nchars = 4 => Undo(e) = UndoOne(UndoOne(UndoOne(UndoOne(e0, h), h), h), h)
           /\ Undo(e).history = Front(e.history)
  <1>1. e \in Text /\ e.history \in Seq(HistoryEntry) /\ Len(e.history) \in Nat \ {0}
    BY TextFacts, EmptySeq DEF Text
  <1>2. h \in HistoryEntry /\ Front(e.history) \in Seq(HistoryEntry)
    BY <1>1, ElementOfSeq, SubSeqProperties DEF Last, Front
  <1>3. TextOK(e0) /\ e0.buffer = e.buffer /\ e0.history = Front(e.history)
    BY <1>1, <1>2 DEF TextOK, Text, CursorInText, CursorLine, LineAt
  <1>4. h.nchars \in {1, 4}
    BY <1>2 DEF HistoryEntry
  <1> DEFINE U(x) == UndoOne(x, h)
  <1>5. Undo(e) = IF h.nchars = 1 THEN U(e0) ELSE U(U(U(U(e0))))
    BY DEF Undo, Repeat
  <1>6. ASSUME NEW x, TextOK(x), x.history = e0.history
        PROVE  TextOK(U(x)) /\ U(x).history = e0.history
    BY <1>2, <1>6, UndoKeepsHistory
  <1> HIDE DEF U
  <1>7. U(e0).history = e0.history /\ U(U(U(U(e0)))).history = e0.history
    BY <1>3, <1>6
  <1> QED
    BY <1>2, <1>3, <1>4, <1>5, <1>7 DEF U

\* An undo of what does not look like a tab takes the edit back.
LEMMA UndoTakesBack ==
    ASSUME NEW e, TextOK(e), e.history # <<>>, NEW h, h = Last(e.history),
           NEW b, Recorded(b, h, e.buffer), ~LooksLikeTab(h, e.buffer)
    PROVE  Undo(e).buffer = b
  <1> DEFINE e0 == [e EXCEPT !.history = Front(@)]
             U(y) == UndoOne(y, h)
  <1>1. /\ h \in HistoryEntry /\ h.nchars \in {1, 4}
        /\ TextOK(e0) /\ e0.buffer = e.buffer
        /\ h.nchars = 1 => Undo(e) = U(e0)
        /\ h.nchars = 4 => Undo(e) = U(U(U(U(e0))))
    BY UndoSteps
  <1>2. b \in Seq(Line) /\ e.buffer \in Seq(Line) /\ h.ch \in Char \ {Tab} /\ (h.nchars = 4 => h.ch = Space)
    BY DEF Recorded, HistoryEntry
  <1>3. \A y : TextOK(y) => TextOK(U(y))
    BY <1>1, UndoOneOK
  <1>4. h.nchars \in Nat /\ Newline # Space
    BY <1>1 DEF Newline, Space, Plain
  <1> HIDE DEF e0
  <1>5. CASE RecordsChars(b, h, e.buffer)
    <2>1. PICK r, c : In(b, r, c) /\ h.pos = At(r, c + 1) /\ e.buffer = Typed(b, r, c, h.ch, h.nchars)
      BY <1>5 DEF RecordsChars
    <2> DEFINE x == h.ch
               l == b[r + 1]
               After(y, k) == TextOK(y) /\ y.buffer = Typed(b, r, c, x, k)
    <2>2. x \in TextChar /\ h.type = "INSERT"
      BY <1>2, <1>5, CharProperties DEF RecordsChars
    <2>3. /\ l \in Line /\ c \in 0..Len(l) /\ c \in Nat /\ Len(l) \in Nat
          /\ e.buffer[r + 1] = Widened(l, c, x, h.nchars)
      <3>1. e.buffer[r + 1] = Widened(l, c, x, h.nchars) /\ l \in Line /\ Len(l) \in Nat
        BY <1>2, <1>4, <2>1, <2>2, TypedFacts
      <3> QED
        BY <2>1, <3>1 DEF In
    <2>4. ~HasTab(Widened(l, c, x, 1), c + 1)
      <3>1. CASE x = Space
        <4>1. h.pos.row = r /\ h.pos.column = c + 1
          BY <2>1 DEF At
        <4>2. ~HasTab(e.buffer[r + 1], c + 1)
          BY <2>2, <3>1, <4>1 DEF LooksLikeTab
        <4>3. h.nchars \in Nat /\ h.nchars >= 1
          BY <1>1
        <4> QED
          BY <2>2, <2>3, <4>2, <4>3, WidenedHasTab
      <3>2. CASE x # Space
        <4> HIDE DEF x, l
        <4> DEFINE w == Widened(l, c, x, 1)
        <4>1. 1 \in Nat /\ c + 1 \in 1..(Len(l) + 1) /\ ~(c + 1 <= c) /\ (c + 1) - 1 + 1 = c + 1
          BY <2>3
        <4>2. \A i \in 1..(Len(l) + 1) :
                w[i] = IF i <= c THEN l[i] ELSE IF i <= c + 1 THEN x ELSE l[i - 1]
          BY ONLY <2>2, <2>3, <4>1, WidenedFacts
        <4> HIDE DEF w
        <4>3. w[c + 1] = x
          BY <4>1, <4>2
        <4>4. HasTab(w, c + 1) => w[(c + 1) - 1 + 1] = Space
          BY DEF HasTab
        <4> QED
          BY <3>2, <4>1, <4>3, <4>4 DEF w
      <3> QED
        BY <3>1, <3>2
    <2>5. After(e0, h.nchars)
      BY <1>1, <2>1
    <2>6. ASSUME NEW y, NEW k \in Nat, k >= 1, After(y, k) PROVE After(U(y), k - 1)
      <3>1. TextOK(U(y))
        BY <1>3, <2>6
      <3>2. h \in HistoryEntry
        BY <1>1
      <3>3. TextOK(y) /\ y.buffer = Typed(b, r, c, x, k)
        BY <2>6
      <3> HIDE DEF x
      <3>4. ~HasTab(Widened(b[r + 1], c, x, 1), c + 1)
        BY <2>4
      <3>5. U(y).buffer = Typed(b, r, c, x, k - 1)
        BY <1>2, <2>1, <2>2, <2>6, <3>2, <3>3, <3>4, UndoCharsStep
      <3> QED
        BY <3>1, <3>5
    <2> HIDE DEF U, After
    <2>7. After(Undo(e), 0)
      <3>1. CASE h.nchars = 1
        <4>1. After(U(e0), 1 - 1)
          BY <2>5, <2>6, <3>1
        <4> QED
          BY <1>1, <3>1, <4>1
      <3>2. CASE h.nchars = 4
        <4>1. After(U(e0), 4 - 1)
          BY <2>5, <2>6, <3>2
        <4>2. After(U(U(e0)), 3 - 1)
          BY <2>6, <4>1
        <4>3. After(U(U(U(e0))), 2 - 1)
          BY <2>6, <4>2
        <4>4. After(U(U(U(U(e0)))), 1 - 1)
          BY <2>6, <4>3
        <4> QED
          BY <1>1, <3>2, <4>4
      <3> QED
        BY <1>1, <3>1, <3>2
    <2>8. Typed(b, r, c, x, 0) = b
      <3> HIDE DEF x
      <3>1. 0 \in Nat
        OBVIOUS
      <3> QED
        BY <1>2, <2>1, <2>2, <3>1, TypedFacts
    <2> QED
      BY <2>7, <2>8 DEF After
  <1>6. CASE RecordsBreak(b, h, e.buffer)
    <2>1. PICK r, c : In(b, r, c) /\ h.pos = At(r + 1, 0) /\ e.buffer = Split(b, r, c)
      BY <1>6 DEF RecordsBreak
    <2>2. h.nchars = 1 /\ h.type = "INSERT"
      BY <1>1, <1>2, <1>4, <1>6 DEF RecordsBreak
    <2> QED
      BY <1>1, <1>2, <2>1, <2>2, UndoBreak
  <1>7. CASE RecordsDeletion(b, h, e.buffer)
    <2> DEFINE r == h.pos.row
               c == h.pos.column
               x == h.ch
               After(y, k) == TextOK(y) /\ y.buffer = Typed(e.buffer, r, c, x, k)
    <2>1. In(e.buffer, r, c) /\ b = Typed(e.buffer, r, c, x, h.nchars)
      BY <1>7 DEF RecordsDeletion
    <2>2. x \in TextChar /\ h.type = "DELETE"
      BY <1>2, <1>7, CharProperties DEF RecordsDeletion
    <2>3. h.pos = At(r, c)
      BY <1>1 DEF HistoryEntry, Position, At
    <2> HIDE DEF r, c
    <2>4. After(e0, 0)
      <3> HIDE DEF x
      <3>1. 0 \in Nat
        OBVIOUS
      <3>2. Typed(e.buffer, r, c, x, 0) = e.buffer
        BY <1>2, <2>1, <2>2, <3>1, TypedFacts
      <3> QED
        BY <1>1, <3>2
    <2>5. ASSUME NEW y, NEW k \in Nat, After(y, k) PROVE After(U(y), k + 1)
      <3>1. TextOK(U(y))
        BY <1>3, <2>5
      <3>2. h \in HistoryEntry /\ h.ch = x
        BY <1>1
      <3>3. TextOK(y) /\ y.buffer = Typed(e.buffer, r, c, x, k)
        BY <2>5
      <3> HIDE DEF x
      <3>4. U(y).buffer = Typed(e.buffer, r, c, x, k + 1)
        BY <1>2, <2>1, <2>2, <2>3, <2>5, <3>2, <3>3, UndoDeletionStep
      <3> QED
        BY <3>1, <3>4
    <2> HIDE DEF U, After
    <2>6. After(Undo(e), h.nchars)
      <3>1. CASE h.nchars = 1
        <4>1. After(U(e0), 0 + 1)
          BY <2>4, <2>5
        <4> QED
          BY <1>1, <3>1, <4>1
      <3>2. CASE h.nchars = 4
        <4>1. After(U(e0), 0 + 1)
          BY <2>4, <2>5
        <4>2. After(U(U(e0)), 1 + 1)
          BY <2>5, <4>1
        <4>3. After(U(U(U(e0))), 2 + 1)
          BY <2>5, <4>2
        <4>4. After(U(U(U(U(e0)))), 3 + 1)
          BY <2>5, <4>3
        <4> QED
          BY <1>1, <3>2, <4>4
      <3> QED
        BY <1>1, <3>1, <3>2
    <2> QED
      BY <2>1, <2>6 DEF After
  <1>8. CASE RecordsJoin(b, h, e.buffer)
    <2> DEFINE r == h.pos.row
               c == h.pos.column
    <2>1. In(e.buffer, r, c) /\ b = Split(e.buffer, r, c) /\ h.type = "DELETE" /\ h.ch = Newline
      BY <1>8 DEF RecordsJoin
    <2>2. h.nchars = 1
      BY <1>1, <1>2, <1>4, <2>1
    <2>3. h.pos = At(r, c)
      BY <1>1 DEF HistoryEntry, Position, At
    <2> HIDE DEF r, c
    <2> QED
      BY <1>1, <2>1, <2>2, <2>3, UndoJoin
  <1> QED
    BY <1>5, <1>6, <1>7, <1>8 DEF Recorded

\* An undo of what looks like a tab deletes too much.
LEMMA UndoDeletesTooMuch ==
    ASSUME NEW e, TextOK(e), e.history # <<>>, NEW h, h = Last(e.history),
           NEW b, Recorded(b, h, e.buffer), LooksLikeTab(h, e.buffer)
    PROVE  Undo(e).buffer # b
  <1> DEFINE e0 == [e EXCEPT !.history = Front(@)]
             U(y) == UndoOne(y, h)
  <1>1. /\ h \in HistoryEntry /\ h.nchars \in {1, 4}
        /\ TextOK(e0) /\ e0.buffer = e.buffer
        /\ h.nchars = 1 => Undo(e) = U(e0)
        /\ h.nchars = 4 => Undo(e) = U(U(U(U(e0))))
    BY UndoSteps
  <1>2. b \in Seq(Line) /\ Len(b) \in Nat /\ h.nchars \in Nat
    BY <1>1, LenProperties DEF Recorded
  <1>3. /\ h.type = "INSERT" /\ h.ch = Space /\ HasTab(e.buffer[h.pos.row + 1], h.pos.column)
        /\ h.ch # Newline
    BY DEF LooksLikeTab, Newline, Space, Plain
  <1>4. PICK r, c : In(b, r, c) /\ h.pos = At(r, c + 1) /\ e.buffer = Typed(b, r, c, Space, h.nchars)
    BY <1>3 DEF Recorded, RecordsChars, RecordsBreak, RecordsDeletion, RecordsJoin
  <1> DEFINE l == b[r + 1]
             L == Len(l)
  <1>5. h.pos.row = r /\ h.pos.column = c + 1
    BY <1>4 DEF At
  <1>6. /\ l \in Line /\ L \in Nat /\ c \in 0..L /\ r \in Nat /\ r < Len(b)
        /\ Len(e.buffer) = Len(b) /\ e.buffer[r + 1] = Widened(l, c, Space, h.nchars)
    <2>1. Space \in TextChar
      BY CharProperties
    <2>2. /\ l \in Line /\ L \in Nat
          /\ Len(e.buffer) = Len(b) /\ e.buffer[r + 1] = Widened(l, c, Space, h.nchars)
      BY <1>2, <1>4, <2>1, TypedFacts
    <2> QED
      BY <1>2, <1>4, <2>2 DEF In
  <1> HIDE DEF l
  <1>7. Len(e.buffer[r + 1]) = L + h.nchars
    <2>1. Space \in TextChar
      BY CharProperties
    <2> QED
      BY <1>2, <1>6, <2>1, WidenedFacts
  <1>8. c + 1 >= 4
    BY <1>3, <1>5 DEF HasTab
  <1> HIDE DEF e0, U, L
  <1> DEFINE Short(y) == /\ TextOK(y)
                         /\ Len(y.buffer) <= Len(b)
                         /\ Len(y.buffer) = Len(b) => Len(y.buffer[r + 1]) < L
  <1>9. ASSUME NEW y, TextOK(y)
        PROVE  Len(y.buffer) \in Nat /\ (r < Len(y.buffer) => Len(y.buffer[r + 1]) \in Nat)
    <2>1. y.buffer \in Seq(Line) /\ Len(y.buffer) \in Nat
      BY <1>9, TextFacts
    <2>2. r < Len(y.buffer) => y.buffer[r + 1] \in Line
      BY <1>6, <2>1, ElementOfSeq
    <2> QED
      BY <2>1, <2>2, LenProperties DEF Line
  <1>10. ASSUME NEW y, TextOK(y), r < Len(y.buffer)
         PROVE  /\ TextOK(U(y)) /\ Len(U(y).buffer) <= Len(y.buffer)
                /\ Len(U(y).buffer) = Len(y.buffer) =>
                     /\ Len(U(y).buffer[r + 1]) <= Len(y.buffer[r + 1])
                     /\ Len(y.buffer[r + 1]) > 0 => Len(U(y).buffer[r + 1]) < Len(y.buffer[r + 1])
                     /\ c + 1 <= Len(y.buffer[r + 1]) /\ HasTab(y.buffer[r + 1], c + 1)
                          => Len(U(y).buffer[r + 1]) = Len(y.buffer[r + 1]) - 4
                /\ Len(y.buffer[r + 1]) > 0 => Len(U(y).buffer) = Len(y.buffer)
    <2>1. r = h.pos.row /\ h.pos.column = c + 1 /\ c + 1 > 0
      BY <1>5, <1>6, <1>8
    <2>2. TextOK(y) /\ h \in HistoryEntry /\ h.type = "INSERT" /\ r < Len(y.buffer)
      BY <1>1, <1>3, <1>10
    <2> DEFINE m == UndoOne(y, h)
    <2> HIDE DEF m
    <2>3. m = UndoOne(y, h)
      BY DEF m
    <2>4. /\ TextOK(m) /\ Len(m.buffer) <= Len(y.buffer)
          /\ Len(m.buffer) = Len(y.buffer) =>
               /\ Len(m.buffer[r + 1]) <= Len(y.buffer[r + 1])
               /\ h.pos.column > 0 /\ Len(y.buffer[r + 1]) > 0
                    => Len(m.buffer[r + 1]) < Len(y.buffer[r + 1])
               /\ h.pos.column <= Len(y.buffer[r + 1]) /\ HasTab(y.buffer[r + 1], h.pos.column)
                    => Len(m.buffer[r + 1]) = Len(y.buffer[r + 1]) - 4
          /\ h.pos.column > 0 /\ Len(y.buffer[r + 1]) > 0 => Len(m.buffer) = Len(y.buffer)
      BY ONLY <2>1, <2>2, <2>3, UndoInsertShrinks, ZenonT(30)
    <2>5. U(y) = m
      BY <2>3 DEF U
    <2> QED
      BY ONLY <2>1, <2>4, <2>5
  <1>11. ASSUME NEW y, Short(y) PROVE Short(U(y))
    <2>1. TextOK(U(y)) /\ Len(U(y).buffer) <= Len(y.buffer)
      BY <1>1, <1>3, <1>9, <1>11, UndoInsertFollows DEF U
    <2>2. CASE Len(U(y).buffer) = Len(b)
      <3>1. Len(y.buffer) = Len(b)
        BY <1>2, <1>9, <1>11, <2>1, <2>2
      <3>2. Len(U(y).buffer[r + 1]) <= Len(y.buffer[r + 1]) /\ Len(y.buffer[r + 1]) < L
        BY <1>6, <1>10, <1>11, <2>2, <3>1
      <3>3. Len(y.buffer[r + 1]) \in Nat /\ Len(U(y).buffer[r + 1]) \in Nat
        BY <1>6, <1>9, <1>11, <2>1, <2>2, <3>1
      <3> QED
        BY <1>2, <1>6, <2>1, <2>2, <3>2, <3>3
    <2>3. CASE Len(U(y).buffer) # Len(b)
      <3>1. Len(U(y).buffer) <= Len(b)
        BY <1>2, <1>9, <1>11, <2>1
      <3> QED
        BY <2>1, <2>3, <3>1
    <2> QED
      BY <2>2, <2>3
  <1>12. /\ TextOK(U(e0)) /\ Len(U(e0).buffer) = Len(b)
         /\ Len(U(e0).buffer[r + 1]) = (L + h.nchars) - 4
    <2>1. r < Len(e0.buffer) /\ Len(e0.buffer[r + 1]) = L + h.nchars /\ Len(e0.buffer) = Len(b)
      BY <1>1, <1>6, <1>7
    <2>2. L + h.nchars > 0 /\ c + 1 <= L + h.nchars /\ HasTab(e0.buffer[r + 1], c + 1)
      BY <1>1, <1>3, <1>5, <1>6
    <2>3. Len(e0.buffer[r + 1]) > 0 /\ c + 1 <= Len(e0.buffer[r + 1])
      BY <2>1, <2>2
    <2>4. /\ TextOK(U(e0)) /\ Len(U(e0).buffer) = Len(e0.buffer)
          /\ Len(U(e0).buffer[r + 1]) = Len(e0.buffer[r + 1]) - 4
      BY <1>1, <1>10, <2>1, <2>2, <2>3
    <2>5. Len(U(e0).buffer) = Len(b)
      BY <2>1, <2>4
    <2>6. Len(U(e0).buffer[r + 1]) = (L + h.nchars) - 4
      BY <2>1, <2>4
    <2> QED
      BY <2>4, <2>5, <2>6
  <1>13. Short(Undo(e))
    <2>1. CASE h.nchars = 1
      <3>1. Len(U(e0).buffer[r + 1]) < L
        BY <1>6, <1>12, <2>1
      <3>2. Short(U(e0))
        BY <1>2, <1>12, <3>1
      <3> QED
        BY <1>1, <2>1, <3>2
    <2>2. CASE h.nchars = 4
      <3>1. Len(U(e0).buffer[r + 1]) = L /\ L > 0
        BY <1>6, <1>8, <1>12, <2>2
      <3>2. Short(U(U(e0)))
        <4>1. r < Len(U(e0).buffer)
          BY <1>6, <1>12
        <4>2. TextOK(U(U(e0))) /\ Len(U(U(e0)).buffer) = Len(b) /\ Len(U(U(e0)).buffer[r + 1]) < L
          BY <1>10, <1>12, <3>1, <4>1
        <4> QED
          BY <1>2, <4>2
      <3> HIDE DEF Short
      <3>3. Short(U(U(U(U(e0)))))
        BY <1>11, <3>2
      <3> QED
        BY <1>1, <2>2, <3>3
    <2> QED
      BY <1>1, <2>1, <2>2
  <1> QED
    BY <1>6, <1>13 DEF L, l

-----------------------------------------------------------------------------
(* The history and the texts that it stands for *)

\* A step that keeps the text and its history; a step that records an edit.
Untouched(e, m) == m.buffer = e.buffer /\ m.history = e.history
Extended(e, m) == \E h : m.history = Append(e.history, h) /\ Recorded(e.buffer, h, m.buffer)

\* A step keeps the text and the history, clears both, takes an edit back or
\* records one.
LEMMA StepsOfHistory ==
    ASSUME EditorTypeOK, Next
    PROVE  \/ Untouched(ed, ed')
           \/ ed' = EmptyText
           \/ UndoKey
           \/ Extended(ed, ed')
  <1>0. TextOK(ed) /\ ed \in Text /\ ed.buffer # <<>>
    BY TextFacts DEF EditorTypeOK
  <1>1. ASSUME NEW k \in Keys, MoveKey(k)
        PROVE  Untouched(ed, ed')
    <2>2. PICK row \in Int, column \in Int : ed' = MoveCursor(ed, row, column)
      BY <1>0, <1>1, MoveKeyMoves
    <2> QED
      BY <1>0, <2>2, MoveCursorOK DEF Untouched
  <1>2. ASSUME NEW k \in Keys, InsertKey(k)
        PROVE  Extended(ed, ed')
    <2> DEFINE ch == KeycodeToChar(k)
    <2>1. ch \in Char /\ ed' = InsertChar(ed, ch, TRUE)
      BY <1>2, KeycodeToCharType DEF InsertKey
    <2> HIDE DEF ch
    <2> QED
      BY <1>0, <2>1, InsertCharRecords DEF Extended
  <1>3. CASE DeleteKey
    <2>1. ed' = DeleteChar(ed, TRUE)
      BY <1>3 DEF DeleteKey
    <2>2. ed' = ed => Untouched(ed, ed')
      BY DEF Untouched
    <2> QED
      BY <1>0, <2>1, <2>2, DeleteCharRecords DEF Extended
  <1>4. CASE ed' = ed
    BY <1>4 DEF Untouched
  <1>5. ed' = ed \/ ed' = EmptyText \/ UndoKey \/ (\E k \in Keys : MoveKey(k) \/ InsertKey(k)) \/ DeleteKey
    BY StepsOfText
  <1> QED
    BY <1>1, <1>2, <1>3, <1>4, <1>5

\* The text that came out of the edit that history[i] records.
After(i) == IF i < Len(past) THEN past[i + 1] ELSE ed.buffer

\* As long as no undo went wrong, past holds the texts between the edits.
HistoryIsTrue ==
    ~spoiled => \A i \in 1..Len(past) : Recorded(past[i], ed.history[i], After(i))

UndoInv == UndoTypeOK /\ HistoryIsTrue

\* What an undo does when there is something to undo.
LEMMA UndoOfTheLast ==
    ASSUME EditorTypeOK, UndoInv, ed.history # <<>>, ~spoiled
    PROVE  Undo(ed).buffer = Last(past) <=> ~LooksLikeTab(Last(ed.history), ed.buffer)
  <1>1. TextOK(ed) /\ ed.history \in Seq(HistoryEntry)
    BY TextFacts DEF EditorTypeOK, Text
  <1>2. Len(past) = Len(ed.history) /\ Len(past) \in Nat \ {0}
    BY <1>1, EmptySeq, LenProperties DEF UndoInv, UndoTypeOK
  <1> DEFINE n == Len(past)
             h == Last(ed.history)
             b == Last(past)
  <1>3. h = ed.history[n] /\ b = past[n]
    BY <1>2 DEF Last
  <1>4. Recorded(b, h, ed.buffer)
    <2>1. Recorded(past[n], ed.history[n], After(n))
      BY <1>2 DEF UndoInv, HistoryIsTrue
    <2>2. After(n) = ed.buffer
      BY <1>2 DEF After
    <2> QED
      BY <1>3, <2>1, <2>2
  <1>5. h = Last(ed.history)
    OBVIOUS
  <1> HIDE DEF h, b
  <1>6. LooksLikeTab(h, ed.buffer) => Undo(ed).buffer # b
    BY <1>1, <1>4, <1>5, UndoDeletesTooMuch
  <1>7. ~LooksLikeTab(h, ed.buffer) => Undo(ed).buffer = b
    BY <1>1, <1>4, <1>5, UndoTakesBack
  <1> QED
    BY <1>6, <1>7 DEF h, b

\* Every step keeps the history true.
LEMMA UndoInvStep ==
    ASSUME EditorTypeOK, EditorTypeOK', UndoInv, Next, Follow
    PROVE  UndoInv'
  <1> DEFINE n == Len(ed.history)
             m == Len(ed'.history)
  <1>1. /\ TextOK(ed) /\ ed.history \in Seq(HistoryEntry) /\ n \in Nat
        /\ ed.buffer \in Seq(Line) /\ past \in Seq(Seq(Line)) /\ Len(past) = n
        /\ spoiled \in BOOLEAN
    BY TextFacts, LenProperties DEF EditorTypeOK, Text, UndoInv, UndoTypeOK
  <1>2. /\ past' = IF m > n THEN Append(past, ed.buffer) ELSE SubSeq(past, 1, m)
        /\ spoiled' = (m > 0 /\ (spoiled \/ (m < n /\ ed'.buffer # past[n])))
    BY DEF Follow
  <1>3. spoiled' \in BOOLEAN
    BY <1>2
  <1>4. CASE Untouched(ed, ed')
    <2>1. m = n /\ ed'.history = ed.history /\ ed'.buffer = ed.buffer
      BY <1>4 DEF Untouched
    <2>2. past' = past
      <3>1. past' = SubSeq(past, 1, Len(past))
        BY <1>1, <1>2, <2>1
      <3> QED
        BY <1>1, <3>1, SubSeqFull
    <2>3. ~spoiled' => ~spoiled \/ Len(past') = 0
      BY <1>1, <1>2, <2>1, <2>2
    <2>4. ASSUME ~spoiled' PROVE \A i \in 1..Len(past') : Recorded(past[i], ed.history[i], After(i))
      BY <1>1, <2>2, <2>3, <2>4 DEF UndoInv, HistoryIsTrue
    <2>5. \A i : After(i)' = After(i)
      BY <2>1, <2>2 DEF After
    <2> QED
      BY <1>1, <1>3, <2>1, <2>2, <2>4, <2>5 DEF UndoInv, UndoTypeOK, HistoryIsTrue
  <1>5. CASE ed'.history = <<>>
    <2>1. m = 0
      BY <1>5
    <2>2. past' = <<>> /\ spoiled' = FALSE
      <3>1. past' = SubSeq(past, 1, 0) /\ spoiled' = FALSE
        <4>1. ~(m > n) /\ ~(m > 0)
          BY <1>1, <2>1
        <4>2. past' = SubSeq(past, 1, m)
          BY <1>2, <4>1, Zenon
        <4>3. spoiled' = FALSE
          BY <1>2, <4>1, Zenon
        <4> QED
          BY <2>1, <4>2, <4>3
      <3>2. SubSeq(past, 1, 0) = <<>>
        BY <1>1, SubSeqEmpty
      <3> QED
        BY <3>1, <3>2
    <2>3. <<>> \in Seq(Seq(Line)) /\ Len(<<>>) = 0 /\ 1..0 = {}
      OBVIOUS
    <2>4. UndoTypeOK'
      BY <2>1, <2>2, <2>3 DEF UndoTypeOK
    <2>5. HistoryIsTrue'
      BY <2>2, <2>3 DEF HistoryIsTrue
    <2> QED
      BY <2>4, <2>5 DEF UndoInv
  <1>6. CASE Extended(ed, ed')
    <2>1. PICK h : ed'.history = Append(ed.history, h) /\ Recorded(ed.buffer, h, ed'.buffer)
      BY <1>6 DEF Extended
    <2>2. /\ m = n + 1 /\ ed'.history[n + 1] = h
          /\ \A i \in 1..n : ed'.history[i] = ed.history[i]
      <3>1. h \in HistoryEntry
        BY <2>1 DEF Recorded
      <3> QED
        BY <1>1, <2>1, <3>1, AppendProperties
    <2>3. past' = Append(past, ed.buffer) /\ spoiled' = spoiled
      BY <1>1, <1>2, <2>2
    <2>4. /\ past' \in Seq(Seq(Line)) /\ Len(past') = n + 1 /\ past'[n + 1] = ed.buffer
          /\ \A i \in 1..n : past'[i] = past[i]
      BY <1>1, <2>3, AppendProperties
    <2>5. ASSUME ~spoiled', NEW i \in 1..(n + 1)
          PROVE  Recorded(past'[i], ed'.history[i], After(i)')
      <3>1. CASE i = n + 1
        <4>1. After(i)' = ed'.buffer
          BY <1>1, <2>4, <3>1 DEF After
        <4> QED
          BY <2>1, <2>2, <2>4, <3>1, <4>1
      <3>2. CASE i # n + 1
        <4>1. i \in 1..n
          BY <1>1, <3>2
        <4>2. After(i)' = past'[i + 1]
          BY <1>1, <2>4, <4>1 DEF After
        <4>3. past'[i + 1] = After(i)
          BY <1>1, <2>4, <4>1, SMTT(30) DEF After
        <4>4. Recorded(past[i], ed.history[i], After(i))
          BY <1>1, <2>3, <2>5, <4>1 DEF UndoInv, HistoryIsTrue
        <4> QED
          BY <2>2, <2>4, <4>1, <4>2, <4>3, <4>4
      <3> QED
        BY <3>1, <3>2
    <2> QED
      BY <1>3, <2>2, <2>4, <2>5 DEF UndoInv, UndoTypeOK, HistoryIsTrue
  <1>7. CASE UndoKey
    <2>1. ed' = Undo(ed)
      BY <1>7 DEF UndoKey
    <2>2. CASE ed.history = <<>>
      <3>1. Undo(ed) = ed
        BY <2>2 DEF Undo
      <3> QED
        BY <1>4, <2>1, <3>1 DEF Untouched
    <2>3. CASE ed.history # <<>>
      <3>1. n \in Nat \ {0} /\ ed'.history = Front(ed.history)
        <4>1. Undo(ed).history = Front(ed.history)
          <5> DEFINE h == Last(ed.history)
                     e0 == [ed EXCEPT !.history = Front(@)]
          <5>1. h = Last(ed.history) /\ e0 = [ed EXCEPT !.history = Front(@)]
            OBVIOUS
          <5> HIDE DEF h, e0
          <5> QED
            BY <1>1, <2>3, <5>1, UndoSteps
        <4> QED
          BY <1>1, <2>1, <2>3, <4>1, EmptySeq
      <3>2. m = n - 1 /\ \A i \in 1..(n - 1) : ed'.history[i] = ed.history[i]
        BY <1>1, <3>1, SubSeqProperties DEF Front
      <3>3. /\ past' = SubSeq(past, 1, n - 1)
            /\ spoiled' = (n - 1 > 0 /\ (spoiled \/ ed'.buffer # past[n]))
        BY <1>1, <1>2, <3>1, <3>2
      <3>4. /\ past' \in Seq(Seq(Line)) /\ Len(past') = n - 1
            /\ \A i \in 1..(n - 1) : past'[i] = past[i]
        <4>1. 1 \in Nat /\ n - 1 \in 0..Len(past)
          BY <1>1, <3>1
        <4> QED
          BY <1>1, <3>1, <3>3, <4>1, SubSeqProperties
      <3>5. ASSUME ~spoiled', NEW i \in 1..(n - 1)
            PROVE  Recorded(past'[i], ed'.history[i], After(i)')
        <4>1. n - 1 > 0 /\ i \in 1..n /\ i < n
          BY <3>1, <3>5
        <4>2. ~spoiled /\ ed'.buffer = past[n]
          BY <3>3, <3>5, <4>1
        <4>3. After(i) = past[i + 1]
          BY <1>1, <4>1 DEF After
        <4>4. After(i)' = past[i + 1]
          <5>1. CASE i < n - 1
            <6>1. After(i)' = past'[i + 1] /\ i + 1 \in 1..(n - 1)
              BY <3>1, <3>4, <3>5, <5>1 DEF After
            <6> QED
              BY <3>4, <6>1
          <5>2. CASE ~(i < n - 1)
            <6>1. After(i)' = ed'.buffer /\ i + 1 = n
              BY <3>1, <3>4, <3>5, <5>2 DEF After
            <6> QED
              BY <4>2, <6>1
          <5> QED
            BY <5>1, <5>2
        <4>5. Recorded(past[i], ed.history[i], After(i))
          BY <1>1, <4>1, <4>2 DEF UndoInv, HistoryIsTrue
        <4> QED
          BY <3>2, <3>4, <3>5, <4>3, <4>4, <4>5
      <3> QED
        BY <1>3, <3>2, <3>4, <3>5 DEF UndoInv, UndoTypeOK, HistoryIsTrue
    <2> QED
      BY <2>2, <2>3
  <1>8. ed' = EmptyText => ed'.history = <<>>
    BY DEF EmptyText
  <1> QED
    BY <1>4, <1>5, <1>6, <1>7, <1>8, StepsOfHistory

\* The invariant of the history.
LEMMA UndoSpecHasInv == UndoSpec => [](EditorTypeOK /\ UndoInv)
  <1>1. UndoSpec => []EditorTypeOK
    <2>1. UndoInit => Init
      BY DEF UndoInit
    <2>2. [UndoNext]_undoVars => [Next]_vars
      BY DEF UndoNext, undoVars
    <2> QED
      BY <2>1, <2>2, TypeCorrect, PTL DEF UndoSpec, Spec
  <1>2. UndoInit => UndoInv
    <2> SUFFICES ASSUME UndoInit PROVE UndoInv
      OBVIOUS
    <2>1. past = <<>> /\ spoiled = FALSE /\ ed.history = <<>>
      BY DEF UndoInit, Init, EmptyText
    <2>2. <<>> \in Seq(Seq(Line)) /\ Len(<<>>) = 0 /\ 1..0 = {}
      OBVIOUS
    <2> QED
      BY <2>1, <2>2 DEF UndoInv, UndoTypeOK, HistoryIsTrue
  <1>3. EditorTypeOK /\ EditorTypeOK' /\ UndoInv /\ [UndoNext]_undoVars => UndoInv'
    <2> SUFFICES ASSUME EditorTypeOK, EditorTypeOK', UndoInv, [UndoNext]_undoVars
                 PROVE  UndoInv'
      OBVIOUS
    <2>1. CASE UndoNext
      BY <2>1, UndoInvStep DEF UndoNext
    <2>2. CASE UNCHANGED undoVars
      BY <2>2 DEF undoVars, vars, UndoInv, UndoTypeOK, HistoryIsTrue, After
    <2> QED
      BY <2>1, <2>2
  <1> QED
    BY <1>1, <1>2, <1>3, PTL DEF UndoSpec

\* The copies of the text that the history stands for keep step with it: one
\* for each entry (editor_insert_char, editor_undo).
THEOREM UndoTypeCorrect == UndoSpec => []UndoTypeOK
  <1>1. UndoInv => UndoTypeOK
    BY DEF UndoInv
  <1> QED
    BY <1>1, UndoSpecHasInv, PTL

\* Ctrl+Z takes back exactly the last edit, whatever was typed, deleted and
\* undone before, unless an undo went wrong earlier; it goes wrong when, and
\* only when, the space that it deletes looks like part of a tab
\* (editor_undo, editor_delete_char).
THEOREM UndoRestoresExactly == UndoSpec => UndoRestores
  <1>1. ASSUME EditorTypeOK, UndoInv
        PROVE  [UndoStep /\ ~spoiled
                  => (ed'.buffer = Last(past)
                        <=> ~LooksLikeTab(Last(ed.history), ed.buffer))]_undoVars
    <2> SUFFICES ASSUME UndoStep, ~spoiled
                 PROVE  ed'.buffer = Last(past) <=> ~LooksLikeTab(Last(ed.history), ed.buffer)
      OBVIOUS
    <2>1. ed.history # <<>> /\ ed' = Undo(ed)
      BY DEF UndoStep, UndoKey
    <2> QED
      BY <1>1, <2>1, UndoOfTheLast
  <1> QED
    BY <1>1, UndoSpecHasInv, PTL DEF UndoRestores


-----------------------------------------------------------------------------
(* Where the cursor is in the window *)

\* Not below the window; and in its last row, not right of it.
Low(e)  == e.cursor.row <= e.view.row + Height - 1
Near(e) == /\ Low(e)
           /\ e.cursor.column >= e.view.column + Width => e.cursor.row <= e.view.row + Height - 2

\* After a scroll the row is not below the window; if it was not before, the
\* columns are scrolled unless the row is now the first.
LEMMA ScrollNear ==
    ASSUME NEW v \in Position, NEW e, e.cursor \in Position, e.view = Scroll(v, e.cursor)
    PROVE  /\ Low(e)
           /\ e.cursor.row <= v.row + Height - 1 => Near(e)
  BY SizeAssumption, HeightAssumption DEF Scroll, Position, Low, Near

\* editor_move_cursor.
LEMMA MoveCursorNear ==
    ASSUME NEW e \in Text, e.buffer # <<>>, NEW row \in Int, NEW column \in Int,
           NEW m, m = MoveCursor(e, row, column)
    PROVE  /\ TextOK(m) /\ Low(m)
           /\ e.cursor.row \in Nat /\ Low(e) /\ row <= e.cursor.row => Near(m)
           /\ Near(e) /\ row <= e.cursor.row + 1 /\ column = e.cursor.column => Near(m)
  <1> DEFINE c == Nearest(e.buffer, row, column)
  <1>1. e.buffer \in Seq(Line) /\ e.view \in Position /\ Len(e.buffer) \in Nat \ {0}
        /\ e.cursor \in Position
    BY EmptySeq, LenProperties DEF Text
  <1>2. /\ c \in Position /\ c.row = MAX(0, MIN(row, Len(e.buffer) - 1))
        /\ column >= 0 => c.column <= column
    BY <1>1, NearestFacts
  <1>3. TextOK(m) /\ m.cursor = c /\ m.view = Scroll(e.view, c)
    BY MoveCursorOK, MoveCursorFields
  <1>4. row <= e.cursor.row /\ e.cursor.row \in Nat => c.row <= e.cursor.row
    BY <1>1, <1>2 DEF MAX, MIN
  <1> HIDE DEF c
  <1>5. Low(m) /\ (c.row <= e.view.row + Height - 1 => Near(m))
    BY <1>1, <1>2, <1>3, ScrollNear
  <1>6. ASSUME e.cursor.row \in Nat, Low(e), row <= e.cursor.row PROVE Near(m)
    <2>1. c.row <= e.view.row + Height - 1
      BY <1>1, <1>2, <1>4, <1>6, SizeAssumption DEF Low, Position
    <2> QED
      BY <1>5, <2>1
  <1>7. ASSUME Near(e), row <= e.cursor.row + 1, column = e.cursor.column,
               c.row > e.view.row + Height - 1
        PROVE  Near(m)
    <2>1. /\ e.cursor.row \in Nat /\ e.cursor.column \in Nat /\ c.row \in Nat /\ c.column \in Nat
          /\ e.view.row \in Nat /\ e.view.column \in Nat /\ Height \in Nat /\ Width \in Nat
      BY <1>1, <1>2, SizeAssumption DEF Position
    <2>2. m.view = [e.view EXCEPT !.row = c.row - Height + 1]
      BY <1>3, <1>7, <2>1 DEF Scroll
    <2>3. m.view.row = c.row - Height + 1 /\ m.view.column = e.view.column
      BY <1>1, <2>2 DEF Position
    <2>4. c.row <= e.cursor.row + 1 /\ c.column <= e.cursor.column
      BY <1>1, <1>2, <1>7, <2>1, SMTT(30) DEF MAX, MIN
    <2>5. e.cursor.row > e.view.row + Height - 2
      BY <1>7, <2>1, <2>4, SMTT(30)
    <2>6. e.cursor.column < e.view.column + Width
      <3>1. ~(e.cursor.row <= e.view.row + Height - 2)
        BY ONLY <2>1, <2>5
      <3>2. ~(e.cursor.column >= e.view.column + Width)
        BY ONLY <1>7, <3>1 DEF Near
      <3> QED
        BY ONLY <2>1, <3>2
    <2> QED
      <3>1. ~(m.cursor.column >= m.view.column + Width)
        BY ONLY <1>3, <2>1, <2>3, <2>4, <2>6
      <3> QED
        BY ONLY <1>5, <3>1 DEF Near
  <1>8. c.row <= e.view.row + Height - 1 \/ c.row > e.view.row + Height - 1
    BY <1>1, <1>2, SizeAssumption DEF Position
  <1> QED
    BY <1>3, <1>5, <1>6, <1>7, <1>8

\* One character typed or deleted.
LEMMA InsertOneNear ==
    ASSUME NEW e, TextOK(e), Low(e), NEW ch \in TextChar, NEW m, m = InsertOne(e, ch)
    PROVE  TextOK(m) /\ Low(m) /\ Near(m)
  <1> DEFINE c == At(e.cursor.row, e.cursor.column + 1)
  <1>1. c \in Position /\ c.row = e.cursor.row /\ e.view \in Position
    BY TextFacts DEF At, Position, Text
  <1>2. TextOK(m) /\ m.cursor = c /\ m.view = Scroll(e.view, c)
    BY InsertOneOK, InsertOneFields
  <1>3. c.row <= e.view.row + Height - 1
    BY <1>1 DEF Low
  <1> HIDE DEF c
  <1> QED
    BY <1>1, <1>2, <1>3, ScrollNear

\* One character deleted.
LEMMA DeleteOneNear ==
    ASSUME NEW e, TextOK(e), Low(e), e.cursor.column >= 1, NEW m, m = DeleteOne(e)
    PROVE  /\ TextOK(m) /\ Low(m) /\ Near(m)
           /\ m.cursor.column = e.cursor.column - 1
  <1> DEFINE c == At(e.cursor.row, e.cursor.column - 1)
  <1>1. c \in Position /\ c.row = e.cursor.row /\ e.view \in Position /\ c.column = e.cursor.column - 1
    BY TextFacts DEF At, Position, Text
  <1>2. TextOK(m) /\ m.cursor = c /\ m.view = Scroll(e.view, c)
    BY DeleteOneOK, DeleteOneFields
  <1>3. c.row <= e.view.row + Height - 1
    BY <1>1 DEF Low
  <1> HIDE DEF c
  <1> QED
    BY <1>1, <1>2, <1>3, ScrollNear

\* A text whose cursor is in the first column.
LEMMA FirstColumnNear ==
    ASSUME NEW e, TextOK(e), Low(e), e.cursor.column = 0
    PROVE  Near(e)
  <1>1. e.view.column \in Nat /\ Width \in Nat \ {0}
    BY SizeAssumption DEF TextOK, Position
  <1>2. ~(e.cursor.column >= e.view.column + Width)
    BY ONLY <1>1, e.cursor.column = 0
  <1> QED
    BY <1>2 DEF Near

\* editor_insert_char and editor_insert_linebreak.
LEMMA InsertCharNear ==
    ASSUME NEW e, TextOK(e), Low(e), NEW ch \in Char, NEW add \in BOOLEAN,
           NEW m, m = InsertChar(e, ch, add)
    PROVE  TextOK(m) /\ Near(m)
  <1>1. CASE ch = Newline
    <2>1. m = InsertLinebreak(e, add)
      BY <1>1 DEF InsertChar
    <2>2. TextOK(m) /\ m.cursor.column = 0 /\ RowShown(m)
      BY <2>1, InsertLinebreakFollows DEF Followed
    <2>3. Low(m)
      BY <2>2, SizeAssumption DEF RowShown, Low, TextOK, Position
    <2> QED
      BY <2>2, <2>3, FirstColumnNear
  <1>2. CASE ch # Newline
    <2> DEFINE x == IF ch = Tab THEN Space ELSE ch
               n == IF ch = Tab THEN 4 ELSE 1
               pos == At(e.cursor.row, e.cursor.column + 1)
               e0 == Record(e, add, "INSERT", x, n, pos)
               I(y) == InsertOne(y, x)
               OK(y) == TextOK(y) /\ Low(y)
    <2>1. x \in TextChar /\ x \in Char \ {Tab} /\ n \in {1, 4} /\ (n = 4 => x = Space)
      BY <1>2, CharProperties
    <2>2. pos \in Position
      BY TextFacts DEF At, Position
    <2>3. m = IF n = 1 THEN I(e0) ELSE I(I(I(I(e0))))
      BY <1>2 DEF InsertChar, Repeat
    <2> HIDE DEF x, n, pos
    <2>4. OK(e0)
      BY <2>1, <2>2, RecordFollows DEF Low
    <2> HIDE DEF e0
    <2>5. ASSUME NEW y, OK(y) PROVE OK(I(y)) /\ Near(I(y))
      BY <2>1, <2>5, InsertOneNear
    <2> HIDE DEF I
    <2>6. CASE n = 1
      <3>1. OK(m) /\ Near(m)
        BY <2>3, <2>4, <2>5, <2>6
      <3> QED
        BY <3>1
    <2>7. CASE n = 4
      <3>1. OK(I(e0)) /\ OK(I(I(e0))) /\ OK(I(I(I(e0))))
        BY <2>4, <2>5
      <3>2. OK(m) /\ Near(m)
        BY <2>3, <2>5, <2>7, <3>1
      <3> QED
        BY <3>2
    <2> QED
      BY <2>1, <2>6, <2>7
  <1> QED
    BY <1>1, <1>2

\* editor_join_line goes to the row above without a scroll.
LEMMA JoinLineNear ==
    ASSUME NEW e, TextOK(e), Low(e), e.cursor.column = 0, NEW add \in BOOLEAN,
           NEW m, m = JoinLine(e, add)
    PROVE  TextOK(m) /\ Near(m)
  <1>1. TextOK(m)
    BY JoinLineOK
  <1>2. CASE e.cursor.row = 0
    <2>1. m = e
      BY <1>2 DEF JoinLine
    <2> QED
      BY <1>1, <2>1, FirstColumnNear
  <1>3. CASE e.cursor.row # 0
    <2>1. m.cursor.row = e.cursor.row - 1 /\ m.view = e.view
      BY <1>3, JoinLineShortens
    <2>2. /\ e.cursor.row \in Nat /\ e.view.row \in Nat /\ Height \in Nat
      BY SizeAssumption DEF TextOK, Position
    <2>3. m.cursor.row <= m.view.row + Height - 2 /\ m.cursor.row <= m.view.row + Height - 1
      BY <2>1, <2>2 DEF Low
    <2> QED
      BY <1>1, <2>3 DEF Near, Low
  <1> QED
    BY <1>2, <1>3

\* editor_delete_char.
LEMMA DeleteCharNear ==
    ASSUME NEW e, TextOK(e), Low(e), NEW add \in BOOLEAN, NEW m, m = DeleteChar(e, add)
    PROVE  TextOK(m) /\ Near(m)
  <1>1. CASE e.cursor.column = 0
    BY <1>1, JoinLineNear DEF DeleteChar
  <1>2. CASE e.cursor.column # 0
    <2> DEFINE c  == e.cursor
               l  == CursorLine(e)
               n  == IF HasTab(l, c.column) THEN 4 ELSE 1
               ch == l[c.column - n + 1]
               pos == At(c.row, c.column - n)
               e1 == Record(e, add, "DELETE", ch, n, pos)
               D(y) == DeleteOne(y)
               OK(y, k) == TextOK(y) /\ Low(y) /\ y.cursor.column = e.cursor.column - k
    <2>1. /\ n \in {1, 4} /\ c.column \in Nat /\ c.column >= n
      BY <1>2, TextFacts DEF HasTab
    <2>2. ch \in Char \ {Tab} /\ (n = 4 => ch = Space)
      <3>0. n = 4 => ch = Space
        BY <2>1 DEF HasTab
      <3>1. c.column - n + 1 \in 1..Len(l)
        BY <2>1, TextFacts
      <3> HIDE DEF n, c
      <3> QED
        BY <3>0, <3>1, TextFacts, ElementOfSeq, CharProperties DEF Line
    <2>3. pos \in Position
      BY <2>1, TextFacts DEF At, Position
    <2>4. m = IF n = 1 THEN D(e1) ELSE D(D(D(D(e1))))
      BY <1>2 DEF DeleteChar, Repeat
    <2> HIDE DEF ch, n, pos
    <2>5. OK(e1, 0)
      <3>1. e.cursor.column \in Nat
        BY TextFacts
      <3> QED
        BY <2>1, <2>2, <2>3, <3>1, RecordFollows DEF Low
    <2> HIDE DEF e1
    <2>6. ASSUME NEW y, NEW k \in Nat, k < n, OK(y, k) PROVE OK(D(y), k + 1) /\ Near(D(y))
      <3>1. y.cursor.column >= 1 /\ (e.cursor.column - k) - 1 = e.cursor.column - (k + 1)
        BY <2>1, <2>6
      <3> QED
        BY <2>6, <3>1, DeleteOneNear
    <2> HIDE DEF D, OK
    <2>7. CASE n = 1
      <3>1. OK(D(e1), 0 + 1) /\ Near(D(e1))
        BY <2>5, <2>6, <2>7
      <3> QED
        BY <2>4, <2>7, <3>1 DEF OK
    <2>8. CASE n = 4
      <3>1. OK(D(e1), 0 + 1)
        BY <2>5, <2>6, <2>8
      <3>2. OK(D(D(e1)), 1 + 1)
        BY <2>6, <2>8, <3>1
      <3>3. OK(D(D(D(e1))), 2 + 1)
        BY <2>6, <2>8, <3>2
      <3>4. OK(D(D(D(D(e1)))), 3 + 1) /\ Near(D(D(D(D(e1)))))
        BY <2>6, <2>8, <3>3
      <3> QED
        BY <2>4, <2>8, <3>4 DEF OK
    <2> QED
      BY <2>1, <2>7, <2>8
  <1> QED
    BY <1>1, <1>2

\* editor_undo: the cursor may go anywhere, but an edit follows.
LEMMA UndoOneNear ==
    ASSUME NEW e, TextOK(e), NEW h \in HistoryEntry, NEW m, m = UndoOne(e, h)
    PROVE  TextOK(m) /\ Near(m)
  <1> DEFINE x == MoveCursor(e, h.pos.row, h.pos.column)
  <1>1. h.pos.row \in Int /\ h.pos.column \in Int /\ h.ch \in Char /\ FALSE \in BOOLEAN
    BY DEF HistoryEntry, Position
  <1>2. TextOK(x) /\ Low(x)
    <2>1. e \in Text /\ e.buffer # <<>>
      BY TextFacts
    <2> QED
      BY <1>1, <2>1, MoveCursorNear
  <1>3. m = IF h.type = "DELETE" THEN InsertChar(x, h.ch, FALSE) ELSE DeleteChar(x, FALSE)
    BY DEF UndoOne
  <1> HIDE DEF x
  <1>4. PICK add \in BOOLEAN : add = FALSE
    BY <1>1
  <1> QED
    BY <1>1, <1>2, <1>3, <1>4, InsertCharNear, DeleteCharNear

LEMMA UndoNear ==
    ASSUME NEW e, TextOK(e), Near(e), NEW m, m = Undo(e)
    PROVE  Near(m)
  <1>1. CASE e.history = <<>>
    BY <1>1 DEF Undo
  <1>2. CASE e.history # <<>>
    <2> DEFINE h == Last(e.history)
               e0 == [e EXCEPT !.history = Front(@)]
               U(y) == UndoOne(y, h)
    <2>0. h = Last(e.history) /\ e0 = [e EXCEPT !.history = Front(@)]
      OBVIOUS
    <2> HIDE DEF h, e0
    <2>1. /\ h \in HistoryEntry /\ h.nchars \in {1, 4} /\ TextOK(e0)
          /\ h.nchars = 1 => m = U(e0)
          /\ h.nchars = 4 => m = U(U(U(U(e0))))
      BY <1>2, <2>0, UndoSteps
    <2>2. ASSUME NEW y, TextOK(y) PROVE TextOK(U(y)) /\ Near(U(y))
      BY <2>1, <2>2, UndoOneNear
    <2> HIDE DEF U
    <2> QED
      BY <2>1, <2>2
  <1> QED
    BY <1>1, <1>2

\* Whatever is typed, moved and undone: the cursor is not below the window,
\* and in its last row not right of it.
LEMMA CursorIsNear == Spec => [](EditorTypeOK /\ Near(ed))
  <1>1. Init => Near(ed)
    BY SizeAssumption, HeightAssumption DEF Init, EmptyText, At, Near, Low
  <1>2. EditorTypeOK /\ Near(ed) /\ [Next]_vars => Near(ed)'
    <2> SUFFICES ASSUME EditorTypeOK, Near(ed), [Next]_vars PROVE Near(ed')
      BY DEF Near, Low
    <2>0. TextOK(ed) /\ ed \in Text /\ ed.buffer # <<>> /\ Low(ed)
          /\ ed.cursor.row \in Nat /\ ed.cursor.column \in Nat
      BY TextFacts DEF EditorTypeOK, Near
    <2>1. CASE ed' = ed
      BY <2>1
    <2>2. CASE ed' = EmptyText
      BY <2>2, SizeAssumption, HeightAssumption DEF EmptyText, At, Near, Low
    <2>3. CASE UndoKey
      BY <2>0, <2>3, UndoNear DEF UndoKey
    <2>4. ASSUME NEW k \in Keys, MoveKey(k) PROVE Near(ed')
      <3> DEFINE r == ed.cursor.row
                 c == ed.cursor.column
      <3>1. \/ ed' = MoveCursor(ed, r - 1, c)
            \/ ed' = MoveCursor(ed, r + 1, c)
            \/ ed' = MoveCursor(ed, r, c - 1)
            \/ ed' = MoveCursor(ed, r, c + 1)
        BY <2>4 DEF MoveKey, Moved
      <3>2. /\ r - 1 \in Int /\ r + 1 \in Int /\ r \in Int /\ c \in Int /\ c - 1 \in Int /\ c + 1 \in Int
            /\ r - 1 <= r /\ r <= r /\ r + 1 <= r + 1
        BY <2>0
      <3> HIDE DEF r, c
      <3>3. r = ed.cursor.row /\ c = ed.cursor.column
        BY DEF r, c
      <3>4. ASSUME NEW m, m = MoveCursor(ed, r - 1, c) PROVE Near(m)
        BY <2>0, <3>2, <3>3, <3>4, MoveCursorNear
      <3>5. ASSUME NEW m, m = MoveCursor(ed, r + 1, c) PROVE Near(m)
        BY <2>0, <3>2, <3>3, <3>5, MoveCursorNear
      <3>6. ASSUME NEW m, m = MoveCursor(ed, r, c - 1) PROVE Near(m)
        BY <2>0, <3>2, <3>3, <3>6, MoveCursorNear
      <3>7. ASSUME NEW m, m = MoveCursor(ed, r, c + 1) PROVE Near(m)
        BY <2>0, <3>2, <3>3, <3>7, MoveCursorNear
      <3> QED
        BY <3>1, <3>4, <3>5, <3>6, <3>7
    <2>5. ASSUME NEW k \in Keys, InsertKey(k) PROVE Near(ed')
      <3> DEFINE ch == KeycodeToChar(k)
      <3>1. ch \in Char /\ ed' = InsertChar(ed, ch, TRUE)
        BY <2>5, KeycodeToCharType DEF InsertKey
      <3> HIDE DEF ch
      <3>2. PICK add \in BOOLEAN : add = TRUE
        OBVIOUS
      <3> QED
        BY <2>0, <3>1, <3>2, InsertCharNear
    <2>6. CASE DeleteKey
      <3>1. ed' = DeleteChar(ed, TRUE)
        BY <2>6 DEF DeleteKey
      <3>2. PICK add \in BOOLEAN : add = TRUE
        OBVIOUS
      <3> QED
        BY <2>0, <3>1, <3>2, DeleteCharNear
    <2> QED
      BY <2>1, <2>2, <2>3, <2>4, <2>5, <2>6, StepsOfText
  <1> QED
    BY <1>1, <1>2, TypeCorrect, PTL DEF Spec

-----------------------------------------------------------------------------
(* The frame buffer *)

\* The screen shows the editor and does not drive it.
LEMMA ScreenShowsTheEditor == ScreenSpec => [](EditorTypeOK /\ Near(ed))
  <1>1. ScreenInit => Init
    BY DEF ScreenInit
  <1>2. [ScreenNext]_screenVars => [Next]_vars
    BY DEF ScreenNext, ScreenClear, ScreenKey, ScreenRepaint, Next, screenVars
  <1> QED
    BY <1>1, <1>2, CursorIsNear, PTL DEF ScreenSpec, Spec

\* A cell past the last row, in a row of the window or above it, is more
\* than a row right of the window.
LEMMA PastTheEnd ==
    ASSUME NEW H \in Nat, NEW W \in Nat, NEW r \in Int, NEW c \in Int,
           r <= H - 1, c >= W => r <= H - 2, r * W + c >= H * W
    PROVE  c >= 2 * W
  <1>1. CASE c < W
    <2>1. H - 1 - r \in Nat
      OBVIOUS
    <2>2. (H - 1 - r) * W >= 0
      BY <2>1
    <2>3. (H - 1 - r) * W = H * W - W - r * W
      OBVIOUS
    <2> QED
      BY <1>1, <2>2, <2>3
  <1>2. CASE c >= W
    <2>1. H - 2 - r \in Nat
      BY <1>2
    <2>2. (H - 2 - r) * W >= 0
      BY <2>1
    <2>3. (H - 2 - r) * W = H * W - 2 * W - r * W
      OBVIOUS
    <2> QED
      BY <2>2, <2>3
  <1> QED
    BY <1>1, <1>2

\* The cursor is written past the end of the frame buffer only if it is two
\* windows' widths right of the view: framebuffer_putch, whose index nobody
\* checks, is safe on every text of shorter lines (editor_repaint).
THEOREM OverrunOnlyOnLongLines == ScreenSpec => []OverrunNeedsLongLine
  <1> DEFINE Inv == overrun => CursorCell >= Height * Width
  <1>1. ScreenInit => Inv
    BY DEF ScreenInit
  <1>2. Inv /\ [ScreenNext]_screenVars => Inv'
    <2> SUFFICES ASSUME Inv, [ScreenNext]_screenVars, overrun' PROVE (CursorCell >= Height * Width)'
      OBVIOUS
    <2>1. CASE ScreenRepaint
      BY <2>1 DEF ScreenRepaint, Repaint, CursorCell
    <2>2. CASE UNCHANGED screenVars
      BY <2>2 DEF screenVars, vars, CursorCell
    <2> QED
      BY <2>1, <2>2 DEF ScreenNext, ScreenClear, ScreenKey
  <1>3. EditorTypeOK /\ Near(ed) /\ Inv => OverrunNeedsLongLine
    <2> SUFFICES ASSUME EditorTypeOK, Near(ed), CursorCell >= Height * Width
                 PROVE  ed.cursor.column - ed.view.column >= 2 * Width
      BY DEF OverrunNeedsLongLine
    <2> DEFINE r == ed.cursor.row - ed.view.row
               c == ed.cursor.column - ed.view.column
    <2>1. /\ ed.cursor.row \in Nat /\ ed.cursor.column \in Nat
          /\ ed.view.row \in Nat /\ ed.view.column \in Nat
          /\ Height \in Nat /\ Width \in Nat
      BY SizeAssumption DEF EditorTypeOK, TextOK, Position
    <2>2. r \in Int /\ c \in Int /\ r <= Height - 1 /\ (c >= Width => r <= Height - 2)
      BY <2>1 DEF Near, Low
    <2>3. r * Width + c >= Height * Width
      <3>1. r * Width \in Int /\ r * Width + c = r * Width + ed.cursor.column - ed.view.column
        BY <2>1
      <3> QED
        BY <3>1 DEF CursorCell
    <2> HIDE DEF r, c
    <2>4. c >= 2 * Width
      BY <2>1, <2>2, <2>3, PastTheEnd
    <2> QED
      BY <2>4 DEF c
  <1> QED
    BY <1>1, <1>2, <1>3, ScreenShowsTheEditor, PTL DEF ScreenSpec

-----------------------------------------------------------------------------
(* One frame *)

\* The last glyph of s and what the cell p held before it was written.
Ends(s, p, last, before) ==
    /\ Len(s) \in Nat \ {0} /\ s[Len(s)] = last
    /\ before = IF Len(s) = 1 THEN p.pixels ELSE s[Len(s) - 1]

\* One glyph more, or none.
LEMMA OneMore ==
    ASSUME NEW S, NEW s \in Seq(S), NEW p, NEW l, NEW b, Ends(s, p, l, b),
           NEW x \in S, NEW a \in BOOLEAN, NEW t, t = s \o (IF a THEN <<x>> ELSE <<>>)
    PROVE  t \in Seq(S) /\ Ends(t, p, IF a THEN x ELSE l, IF a THEN l ELSE b)
  <1>1. CASE a
    <2>1. t = Append(s, x)
      BY <1>1, AppendIsConcat
    <2>2. /\ t \in Seq(S) /\ Len(t) = Len(s) + 1 /\ t[Len(s) + 1] = x
          /\ \A k \in 1..Len(s) : t[k] = s[k]
      BY <2>1, AppendProperties
    <2>3. Len(s) \in Nat \ {0} /\ s[Len(s)] = l
      BY DEF Ends
    <2>4. /\ Len(s) + 1 \in Nat \ {0} /\ Len(s) + 1 # 1 /\ (Len(s) + 1) - 1 = Len(s)
          /\ Len(s) \in 1..Len(s)
      BY <2>3
    <2>5. t[Len(s)] = l
      BY <2>2, <2>3, <2>4
    <2>6. Len(t) \in Nat \ {0} /\ t[Len(t)] = x /\ Len(t) # 1 /\ t[Len(t) - 1] = l
      BY ONLY <2>2, <2>4, <2>5
    <2> QED
      BY <1>1, <2>2, <2>6 DEF Ends
  <1>2. CASE ~a
    BY <1>2, ConcatEmptySeq
  <1> QED
    BY <1>1, <1>2

\* framebuffer_putch, as often as there are glyphs.
LEMMA PutchLast ==
    ASSUME NEW s, NEW p, NEW l, NEW b, Ends(s, p, l, b)
    PROVE  Putch(p, s) = [pixels |-> l, dirty |-> b # l]
  BY DEF Putch, Ends

\* What is drawn in a cell besides the text.
CursorGlyph  == Glyph(3, CharOf(CursorLine(ed), ed.cursor.column))
BarAt(i)     == mode = "SEARCH" /\ i \div Width = Height - 1
BarGlyph(i)  == Glyph(2, CharOf(search_content, i % Width))
HitAt(i)     == mode = "SEARCH" /\ ResultsAt(i) # {}
HitGlyph(i, undefined) ==
    Glyph(2, IF ed.view.row + i \div Width < Len(ed.buffer)
             THEN CharOf(LineAt(ed, ed.view.row + i \div Width),
                         ed.view.column + (i % Width))
             ELSE undefined)

\* A character of a sequence of characters, or a blank.
LEMMA CharOfType ==
    ASSUME NEW l \in Seq(DrawnChar), NEW c \in Nat
    PROVE  CharOf(l, c) \in DrawnChar
  <1>1. Space \in DrawnChar /\ Len(l) \in Nat
    BY CharProperties, LenProperties DEF DrawnChar
  <1>2. c < Len(l) => c + 1 \in 1..Len(l)
    BY <1>1
  <1> QED
    BY <1>1, <1>2, ElementOfSeq DEF CharOf

\* The glyphs of the fonts.
LEMMA GlyphType ==
    ASSUME fonts \in [load : BOOLEAN, fit : 0..3], NEW i \in {1, 2, 3}, NEW ch \in DrawnChar
    PROVE  /\ Glyph(i, ch) \in Pixels
           /\ Glyph(i, ch).ch = ch
           /\ Glyph(i, ch).font = "normal" => i = 1 /\ Glyph(i, ch).load = fonts.load
           /\ fonts.fit >= 2 /\ i <= 2 =>
                Glyph(i, ch) = [font |-> IF i = 1 THEN "normal" ELSE "red", load |-> fonts.load, ch |-> ch]
           /\ i = 3 => Glyph(i, ch).font \in {"highlight", "null"}
  BY DEF Glyph, Pixels, FontNames

LEMMA CellNumbers ==
    ASSUME NEW i \in Cells
    PROVE  i \div Width \in Nat /\ i % Width \in Nat
  BY SizeAssumption DEF Cells

LEMMA GlyphsOfACell ==
    ASSUME EditorTypeOK, ScreenTypeOK, NEW i \in Cells, NEW undefined \in TextChar
    PROVE  /\ DrawLine(i) \in Pixels /\ CursorGlyph \in Pixels
           /\ BarGlyph(i) \in Pixels /\ HitGlyph(i, undefined) \in Pixels
           /\ \E ch \in DrawnChar : DrawLine(i) = Glyph(1, ch)
           /\ \E ch \in DrawnChar : CursorGlyph = Glyph(3, ch)
           /\ \E ch \in DrawnChar : BarGlyph(i) = Glyph(2, ch)
           /\ \E ch \in DrawnChar : HitGlyph(i, undefined) = Glyph(2, ch)
  <1> DEFINE row == ed.view.row + i \div Width
             column == ed.view.column + (i % Width)
             text == IF row < Len(ed.buffer) THEN CharOf(LineAt(ed, row), column) ELSE Space
             cursor == CharOf(CursorLine(ed), ed.cursor.column)
             bar == CharOf(search_content, i % Width)
             hit == IF row < Len(ed.buffer) THEN CharOf(LineAt(ed, row), column) ELSE undefined
  <1>1. row \in Nat /\ column \in Nat /\ i % Width \in Nat
    BY CellNumbers DEF EditorTypeOK, TextOK, Position
  <1>2. Space \in DrawnChar /\ undefined \in DrawnChar
    BY CharProperties DEF DrawnChar
  <1>3. \A l \in Line : l \in Seq(DrawnChar)
    BY SeqMonotonic DEF Line, DrawnChar
  <1>4. row < Len(ed.buffer) => LineAt(ed, row) \in Line
    BY <1>1, TextFacts, ElementOfSeq DEF EditorTypeOK, LineAt
  <1> HIDE DEF row, column
  <1>5. text \in DrawnChar /\ hit \in DrawnChar
    BY <1>1, <1>2, <1>3, <1>4, CharOfType
  <1>6. cursor \in DrawnChar
    <2>1. CursorLine(ed) \in Line /\ ed.cursor.column \in Nat
      BY TextFacts DEF EditorTypeOK
    <2> QED
      BY <1>3, <2>1, CharOfType
  <1>7. bar \in DrawnChar
    <2>1. search_content \in Seq(DrawnChar)
      BY CharProperties, SeqMonotonic DEF EditorTypeOK, DrawnChar
    <2> QED
      BY <1>1, <2>1, CharOfType
  <1>8. /\ DrawLine(i) = Glyph(1, text) /\ CursorGlyph = Glyph(3, cursor)
        /\ BarGlyph(i) = Glyph(2, bar) /\ HitGlyph(i, undefined) = Glyph(2, hit)
    BY DEF DrawLine, CursorGlyph, BarGlyph, HitGlyph, row, column
  <1>9. fonts \in [load : BOOLEAN, fit : 0..3] /\ 1 \in {1, 2, 3} /\ 2 \in {1, 2, 3} /\ 3 \in {1, 2, 3}
    BY DEF ScreenTypeOK
  <1> HIDE DEF text, cursor, bar, hit
  <1>10. /\ Glyph(1, text) \in Pixels /\ Glyph(3, cursor) \in Pixels
         /\ Glyph(2, bar) \in Pixels /\ Glyph(2, hit) \in Pixels
    BY ONLY <1>5, <1>6, <1>7, <1>9, GlyphType
  <1> QED
    BY <1>5, <1>6, <1>7, <1>8, <1>10

\* What a frame leaves in a cell, and when the cell is sent to the device.
LEMMA FrameOfACell ==
    ASSUME EditorTypeOK, ScreenTypeOK, NEW i \in Cells, NEW undefined \in TextChar, NEW p,
           NEW m, m = Putch(p, Writes(i, undefined))
    PROVE  /\ m.pixels = (IF HitAt(i) THEN HitGlyph(i, undefined)
                          ELSE IF BarAt(i) THEN BarGlyph(i)
                          ELSE IF i = CursorCell THEN CursorGlyph ELSE DrawLine(i))
           /\ m.dirty <=> m.pixels # (IF HitAt(i) /\ BarAt(i) THEN BarGlyph(i)
                            ELSE IF (HitAt(i) \/ BarAt(i)) /\ i = CursorCell THEN CursorGlyph
                            ELSE IF HitAt(i) \/ BarAt(i) \/ i = CursorCell THEN DrawLine(i)
                            ELSE p.pixels)
           /\ m \in [pixels : Pixels, dirty : BOOLEAN]
  <1> DEFINE t == DrawLine(i)
             c == CursorGlyph
             b == BarGlyph(i)
             r == HitGlyph(i, undefined)
             isC == (i = CursorCell)
             isB == BarAt(i)
             isR == HitAt(i)
             s1 == <<t>>
             s2 == s1 \o (IF isC THEN <<c>> ELSE <<>>)
             s3 == s2 \o (IF isB THEN <<b>> ELSE <<>>)
             s4 == s3 \o (IF isR THEN <<r>> ELSE <<>>)
             l2 == IF isC THEN c ELSE t
             b2 == IF isC THEN t ELSE p.pixels
             l3 == IF isB THEN b ELSE l2
             b3 == IF isB THEN l2 ELSE b2
             l4 == IF isR THEN r ELSE l3
             b4 == IF isR THEN l3 ELSE b3
  <1>1. t \in Pixels /\ c \in Pixels /\ b \in Pixels /\ r \in Pixels
    BY GlyphsOfACell
  <1>2. isC \in BOOLEAN /\ isB \in BOOLEAN /\ isR \in BOOLEAN
    BY DEF BarAt, HitAt
  <1>3. Writes(i, undefined) = s4
    BY DEF Writes, CursorGlyph, BarGlyph, HitGlyph, BarAt, HitAt
  <1> HIDE DEF t, c, b, r, isC, isB, isR
  <1>4. s1 \in Seq(Pixels) /\ Ends(s1, p, t, p.pixels)
    BY <1>1 DEF Ends
  <1> HIDE DEF s1
  <1>5. s2 \in Seq(Pixels) /\ Ends(s2, p, l2, b2)
    BY <1>1, <1>2, <1>4, OneMore, ZenonT(60)
  <1> HIDE DEF s2, l2, b2
  <1>6. s3 \in Seq(Pixels) /\ Ends(s3, p, l3, b3)
    BY <1>1, <1>2, <1>5, OneMore, ZenonT(60)
  <1> HIDE DEF s3, l3, b3
  <1>7. s4 \in Seq(Pixels) /\ Ends(s4, p, l4, b4)
    BY <1>1, <1>2, <1>6, OneMore, ZenonT(60)
  <1> HIDE DEF s4, l4, b4
  <1>8. m = [pixels |-> l4, dirty |-> b4 # l4]
    BY <1>3, <1>7, PutchLast
  <1>9. l4 \in Pixels
    BY <1>1 DEF l4, l3, l2
  <1>10. l4 = (IF isR THEN r ELSE IF isB THEN b ELSE IF isC THEN c ELSE t)
    BY DEF l4, l3, l2
  <1>11. b4 = (IF isR /\ isB THEN b
               ELSE IF (isR \/ isB) /\ isC THEN c
               ELSE IF isR \/ isB \/ isC THEN t ELSE p.pixels)
    BY DEF b4, b3, b2, l3, l2
  <1>12. m.pixels = l4 /\ (m.dirty <=> l4 # b4) /\ m \in [pixels : Pixels, dirty : BOOLEAN]
    <2> DEFINE d == b4 # l4
    <2>1. d \in BOOLEAN /\ (d <=> l4 # b4)
      OBVIOUS
    <2>2. m = [pixels |-> l4, dirty |-> d]
      BY <1>8
    <2> HIDE DEF d
    <2>3. m.pixels = l4 /\ m.dirty = d /\ m \in [pixels : Pixels, dirty : BOOLEAN]
      BY <1>9, <2>1, <2>2
    <2> QED
      BY <2>1, <2>3
  <1> QED
    BY <1>10, <1>11, <1>12 DEF t, c, b, r, isC, isB, isR

-----------------------------------------------------------------------------
(* What the device shows *)

\* What every cell holds after a frame, and what is sent to the device.
LEMMA FrameCells ==
    ASSUME ScreenRepaint
    PROVE  \E undefined \in TextChar :
             /\ fb' = [i \in Cells |-> Putch(fb[i], Writes(i, undefined))]
             /\ display' = [i \in Cells |-> IF fb'[i].dirty THEN Look(fb'[i].pixels)
                                                            ELSE display[i]]
  <1>1. (IF AssertMayFail THEN TextChar ELSE {Space}) \subseteq TextChar
    BY CharProperties
  <1>2. \E undefined \in IF AssertMayFail THEN TextChar ELSE {Space} :
          fb' = [i \in Cells |-> Putch(fb[i], Writes(i, undefined))]
    BY DEF ScreenRepaint
  <1>3. display' = Shown(fb')
    BY DEF ScreenRepaint
  <1> QED
    BY <1>1, <1>2, <1>3 DEF Shown, Fbdraw

\* The fonts on the device.
ShownGlyph == [font : {"normal", "red", "highlight", "black"}, ch : DrawnChar]

LEMMA LookType ==
    ASSUME NEW p \in Pixels
    PROVE  Look(p) \in ShownGlyph
  BY DEF Look, Pixels, ShownGlyph

\* The cells hold glyphs and the device shows pixels of fonts.
THEOREM ScreenTypeCorrect == ScreenSpec => []ScreenTypeOK
  <1>1. ScreenInit => ScreenTypeOK
    <2> SUFFICES ASSUME ScreenInit PROVE ScreenTypeOK
      OBVIOUS
    <2>1. Space \in DrawnChar
      BY CharProperties DEF DrawnChar
    <2>2. NoPixels \in Pixels
      BY <2>1 DEF NoPixels, Pixels
    <2>3. Black \in ShownGlyph
      BY <2>1 DEF Black, ShownGlyph
    <2>4. [pixels |-> NoPixels, dirty |-> TRUE] \in [pixels : Pixels, dirty : BOOLEAN]
      BY <2>2
    <2>5. fonts = [load |-> FALSE, fit |-> 3] /\ undone = FALSE /\ overrun = FALSE
      BY DEF ScreenInit
    <2>6. fonts \in [load : BOOLEAN, fit : 0..3]
      BY <2>5
    <2>7. fb \in [Cells -> [pixels : Pixels, dirty : BOOLEAN]]
      BY <2>4 DEF ScreenInit
    <2>8. display \in [Cells -> ShownGlyph]
      BY <2>3 DEF ScreenInit
    <2> QED
      BY <2>5, <2>6, <2>7, <2>8 DEF ScreenTypeOK, ShownGlyph
  <1>2. EditorTypeOK /\ ScreenTypeOK /\ [ScreenNext]_screenVars => ScreenTypeOK'
    <2> SUFFICES ASSUME EditorTypeOK, ScreenTypeOK, [ScreenNext]_screenVars PROVE ScreenTypeOK'
      OBVIOUS
    <2>1. CASE ScreenClear
      <3>1. fonts' \in [load : BOOLEAN, fit : 0..3] /\ undone' \in BOOLEAN
        <4>0. fonts \in [load : BOOLEAN, fit : 0..3] /\ undone \in BOOLEAN
          BY DEF ScreenTypeOK
        <4>1. (~fonts.load) \in BOOLEAN
          OBVIOUS
        <4>2. \/ \E fit \in 0..3 : fonts' = [load |-> ~fonts.load, fit |-> fit]
              \/ fonts' = fonts
          BY <2>1 DEF ScreenClear
        <4>3. ASSUME NEW load \in BOOLEAN, NEW fit \in 0..3
              PROVE  [load |-> load, fit |-> fit] \in [load : BOOLEAN, fit : 0..3]
          OBVIOUS
        <4>4. undone' = FALSE \/ undone' = undone
          BY <2>1 DEF ScreenClear
        <4> QED
          BY <4>0, <4>1, <4>2, <4>3, <4>4
      <3>2. UNCHANGED <<fb, display, overrun>>
        BY <2>1 DEF ScreenClear
      <3> QED
        BY <3>1, <3>2 DEF ScreenTypeOK
    <2>2. CASE ScreenKey
      <3>1. undone' \in BOOLEAN
        BY <2>2 DEF ScreenKey, ScreenTypeOK
      <3>2. UNCHANGED <<fb, display, fonts, overrun>>
        BY <2>2 DEF ScreenKey
      <3> QED
        BY <3>1, <3>2 DEF ScreenTypeOK
    <2>3. CASE ScreenRepaint
      <3>1. PICK undefined \in TextChar :
             /\ fb' = [i \in Cells |-> Putch(fb[i], Writes(i, undefined))]
             /\ display' = [i \in Cells |-> IF fb'[i].dirty THEN Look(fb'[i].pixels)
                                                            ELSE display[i]]
        BY <2>3, FrameCells
      <3>2. ASSUME NEW i \in Cells
            PROVE  fb'[i] \in [pixels : Pixels, dirty : BOOLEAN]
        <4>1. fb'[i] = Putch(fb[i], Writes(i, undefined))
          BY <3>1
        <4> QED
          BY <4>1, FrameOfACell
      <3>3. ASSUME NEW i \in Cells
            PROVE  display'[i] \in ShownGlyph
        <4>1. display[i] \in ShownGlyph
          BY DEF ScreenTypeOK, ShownGlyph
        <4>2. Look(fb'[i].pixels) \in ShownGlyph
          BY <3>2, LookType
        <4> QED
          BY <3>1, <4>1, <4>2
      <3>4. fb' \in [Cells -> [pixels : Pixels, dirty : BOOLEAN]]
        BY <3>1, <3>2
      <3>5. display' \in [Cells -> ShownGlyph]
        BY <3>1, <3>3
      <3>6. overrun' \in BOOLEAN /\ UNCHANGED <<fonts, undone>>
        BY <2>3 DEF ScreenRepaint
      <3> QED
        BY <3>4, <3>5, <3>6 DEF ScreenTypeOK, ShownGlyph
    <2>4. CASE UNCHANGED screenVars
      BY <2>4 DEF screenVars, ScreenTypeOK
    <2> QED
      BY <2>1, <2>2, <2>3, <2>4 DEF ScreenNext
  <1> QED
    BY <1>1, <1>2, ScreenShowsTheEditor, PTL DEF ScreenSpec

-----------------------------------------------------------------------------
(* The device shows the text *)

\* Two fonts found room, and no undo changed the text under the results.
Trusted == fonts.fit >= 2 /\ ~undone

\* Between two frames all glyphs of the text are of the last load.
FontsAreCurrent ==
    pc = "clear" => \A i \in Cells :
        fb[i].pixels.font = "normal" => fb[i].pixels.load = fonts.load

\* A cell of the text that is not drawn again is on the device already.
TextIsShown ==
    Trusted => \A i \in Cells :
        fb[i].pixels.font = "normal" /\ fb[i].pixels.load = fonts.load
          => display[i] = Look(fb[i].pixels)

\* So is a cell of the search bar that a result writes the same glyph to.
SameInBar(i) == ResultsAt(i) = {} \/ HitGlyph(i, Space) = BarGlyph(i)
BarIsShown ==
    Trusted /\ mode = "SEARCH" /\ (search_results # {} \/ pc \in {"clear", "key"})
      => \A i \in Cells : i \div Width = Height - 1 /\ SameInBar(i)
                            => display[i] = Look(BarGlyph(i))

\* And no result is in a row the text no longer has.
ResultsInText ==
    ~undone => \A r \in search_results : r.row < Len(ed.buffer)

PictureInv == FontsAreCurrent /\ TextIsShown /\ BarIsShown /\ ResultsInText

\* A result that is drawn in a cell has its row.
LEMMA HitIsText ==
    ASSUME EditorTypeOK, ResultsInText, ~undone, NEW i \in Cells, HitAt(i), NEW undefined
    PROVE  HitGlyph(i, undefined) = HitGlyph(i, Space)
  <1>1. PICK r \in search_results : r.row - ed.view.row = i \div Width
    BY DEF HitAt, ResultsAt
  <1>2. r.row < Len(ed.buffer) /\ r.row \in Nat /\ ed.view.row \in Nat /\ i \div Width \in Nat
    BY CellNumbers DEF ResultsInText, EditorTypeOK, SearchResult, TextOK, Position
  <1>3. ed.view.row + i \div Width = r.row
    BY <1>1, <1>2
  <1>4. ed.view.row + i \div Width < Len(ed.buffer)
    BY <1>2, <1>3
  <1> QED
    BY <1>4 DEF HitGlyph

\* Which font a glyph of a cell is of.
LEMMA FontsOfACell ==
    ASSUME EditorTypeOK, ScreenTypeOK, fonts.fit >= 2, NEW i \in Cells, NEW undefined \in TextChar
    PROVE  /\ DrawLine(i).font = "normal" /\ DrawLine(i).load = fonts.load
           /\ BarGlyph(i).font = "red" /\ HitGlyph(i, undefined).font = "red"
           /\ CursorGlyph.font \in {"highlight", "null"}
  <1>1. /\ \E ch \in DrawnChar : DrawLine(i) = Glyph(1, ch)
        /\ \E ch \in DrawnChar : CursorGlyph = Glyph(3, ch)
        /\ \E ch \in DrawnChar : BarGlyph(i) = Glyph(2, ch)
        /\ \E ch \in DrawnChar : HitGlyph(i, undefined) = Glyph(2, ch)
    BY GlyphsOfACell
  <1>2. fonts \in [load : BOOLEAN, fit : 0..3]
    BY DEF ScreenTypeOK
  <1>3. ASSUME NEW ch \in DrawnChar
        PROVE  /\ Glyph(1, ch).font = "normal" /\ Glyph(1, ch).load = fonts.load
               /\ Glyph(2, ch).font = "red"
               /\ Glyph(3, ch).font \in {"highlight", "null"}
    <2>1. Glyph(1, ch) = [font |-> "normal", load |-> fonts.load, ch |-> ch]
      BY <1>2, GlyphType
    <2>2. Glyph(2, ch) = [font |-> "red", load |-> fonts.load, ch |-> ch]
      BY <1>2, GlyphType
    <2>3. Glyph(3, ch).font \in {"highlight", "null"}
      BY <1>2, GlyphType
    <2> QED
      BY <2>1, <2>2, <2>3
  <1> QED
    BY <1>1, <1>3

\* Every cell of a frame is shown, the ones that are not sent to the device
\* because they are on it.
LEMMA FrameIsShown ==
    ASSUME EditorTypeOK, ScreenTypeOK, PictureInv, Trusted, ResultsOnlyInSearch,
           NEW i \in Cells, NEW undefined \in TextChar,
           NEW m, m = Putch(fb[i], Writes(i, undefined))
    PROVE  (IF m.dirty THEN Look(m.pixels) ELSE display[i]) = Look(m.pixels)
  <1> DEFINE t == DrawLine(i)
             c == CursorGlyph
             b == BarGlyph(i)
             r == HitGlyph(i, undefined)
             isC == (i = CursorCell)
             isB == BarAt(i)
             isR == HitAt(i)
             p == fb[i].pixels
  <1>1. m.pixels = (IF isR THEN r ELSE IF isB THEN b ELSE IF isC THEN c ELSE t)
    BY FrameOfACell
  <1>2. m.dirty <=> m.pixels # (IF isR /\ isB THEN b
                               ELSE IF (isR \/ isB) /\ isC THEN c
                               ELSE IF isR \/ isB \/ isC THEN t ELSE p)
    BY FrameOfACell
  <1>3. t.font = "normal" /\ t.load = fonts.load /\ b.font = "red" /\ r.font = "red"
        /\ c.font \in {"highlight", "null"}
    BY FontsOfACell DEF Trusted
  <1>4. t # b /\ t # r /\ c # b /\ c # r /\ c # t
    BY <1>3
  <1>5. CASE isR /\ isB /\ r = b
    <2>1. r = HitGlyph(i, Space)
      BY <1>5, HitIsText DEF PictureInv, Trusted
    <2>2. mode = "SEARCH" /\ i \div Width = Height - 1 /\ search_results # {}
      BY <1>5 DEF BarAt, HitAt, ResultsAt
    <2>3. SameInBar(i)
      BY <1>5, <2>1 DEF SameInBar
    <2>4. display[i] = Look(b)
      BY <2>2, <2>3 DEF PictureInv, BarIsShown
    <2> QED
      BY <1>1, <1>5, <2>4
  <1>6. CASE ~isR /\ ~isB /\ ~isC
    <2>1. p.font = "normal" /\ p.load = fonts.load => display[i] = Look(p)
      BY DEF PictureInv, TextIsShown
    <2>2. m.pixels = t /\ (m.dirty <=> t # p)
      BY <1>1, <1>2, <1>6
    <2> HIDE DEF t, p
    <2>3. CASE t = p
      BY <1>3, <2>1, <2>2, <2>3
    <2>4. CASE t # p
      BY <2>2, <2>4
    <2> QED
      BY <2>3, <2>4
  <1>7. CASE (isR \/ isB \/ isC) /\ ~(isR /\ isB /\ r = b)
    <2> HIDE DEF t, c, b, r, isC, isB, isR, p
    <2>1. m.dirty
      BY <1>1, <1>2, <1>4, <1>7
    <2> QED
      BY <2>1
  <1> QED
    BY <1>5, <1>6, <1>7

\* A step that leaves the text, the search and the fonts alone leaves the
\* search bar and the cells of the results.
LEMMA BarIsLeft ==
    ASSUME UNCHANGED <<ed, mode, search_content, search_results, fonts>>, NEW i \in Cells
    PROVE  BarGlyph(i)' = BarGlyph(i) /\ (SameInBar(i)' <=> SameInBar(i))
  <1>1. /\ ed' = ed /\ mode' = mode /\ search_content' = search_content
        /\ search_results' = search_results /\ fonts' = fonts
    OBVIOUS
  <1>2. BarGlyph(i)' = BarGlyph(i)
    BY <1>1, Zenon DEF BarGlyph, CharOf, Glyph
  <1>3. HitGlyph(i, Space)' = HitGlyph(i, Space)
    BY <1>1, Zenon DEF HitGlyph, LineAt, CharOf, Glyph
  <1>4. \A r : ReadEnd(r)' = ReadEnd(r) /\ (Drawn(r)' <=> Drawn(r))
    BY <1>1 DEF ReadEnd, Drawn
  <1>5. ResultsAt(i)' = ResultsAt(i)
    BY <1>1, <1>4 DEF ResultsAt
  <1> QED
    BY <1>2, <1>3, <1>5 DEF SameInBar

LEMMA PictureAfterFrame ==
    ASSUME EditorTypeOK, ScreenTypeOK, PictureInv, ResultsOnlyInSearch, ScreenRepaint
    PROVE  PictureInv'
  <1>1. PICK undefined \in TextChar :
         /\ fb' = [i \in Cells |-> Putch(fb[i], Writes(i, undefined))]
         /\ display' = [i \in Cells |-> IF fb'[i].dirty THEN Look(fb'[i].pixels)
                                                        ELSE display[i]]
    BY FrameCells
  <1>2. UNCHANGED <<ed, mode, search_content, search_results, fonts, undone>> /\ pc' = "clear"
    BY DEF ScreenRepaint, Repaint
  <1>3. \A i \in Cells : /\ fb'[i] = Putch(fb[i], Writes(i, undefined))
                         /\ display'[i] = IF fb'[i].dirty THEN Look(fb'[i].pixels) ELSE display[i]
    BY <1>1
  <1>4. ASSUME NEW i \in Cells, fb'[i].pixels.font = "normal"
        PROVE  fb'[i].pixels.load = fonts.load
    <2>1. \E k \in {1, 2, 3} : \E ch \in DrawnChar : fb'[i].pixels = Glyph(k, ch)
      <3>1. \/ fb'[i].pixels = HitGlyph(i, undefined) \/ fb'[i].pixels = BarGlyph(i)
            \/ fb'[i].pixels = CursorGlyph \/ fb'[i].pixels = DrawLine(i)
        BY <1>3, FrameOfACell
      <3> QED
        BY <3>1, GlyphsOfACell
    <2> QED
      BY <1>4, <2>1, GlyphType DEF ScreenTypeOK
  <1>5. ASSUME Trusted, NEW i \in Cells PROVE display'[i] = Look(fb'[i].pixels)
    BY <1>3, <1>5, FrameIsShown
  <1>6. FontsAreCurrent'
    BY <1>2, <1>4 DEF FontsAreCurrent
  <1>7. TextIsShown'
    BY <1>2, <1>5 DEF TextIsShown, Trusted
  <1>8. BarIsShown'
    <2> SUFFICES ASSUME Trusted, mode = "SEARCH", NEW i \in Cells, i \div Width = Height - 1,
                        SameInBar(i)
                 PROVE  display'[i] = Look(BarGlyph(i))
      BY <1>2, BarIsLeft DEF BarIsShown, Trusted
    <2>1. BarAt(i)
      BY DEF BarAt
    <2>2. HitAt(i) => HitGlyph(i, undefined) = BarGlyph(i)
      BY HitIsText DEF HitAt, SameInBar, PictureInv, Trusted
    <2>3. fb'[i].pixels = IF HitAt(i) THEN HitGlyph(i, undefined) ELSE BarGlyph(i)
      BY <1>3, <2>1, FrameOfACell
    <2> QED
      BY <1>5, <2>2, <2>3
  <1>9. ResultsInText'
    BY <1>2 DEF PictureInv, ResultsInText
  <1> QED
    BY <1>6, <1>7, <1>8, <1>9 DEF PictureInv

\* A key leaves what is shown, and starts and ends a search.
LEMMA PictureAfterKey ==
    ASSUME EditorTypeOK, ScreenTypeOK, PictureInv, ResultsOnlyInSearch, ScreenKey
    PROVE  PictureInv'
  <1>1. UNCHANGED <<fb, display, fonts>> /\ undone' = (undone \/ (search_results # {} /\ ed' # ed))
    BY DEF ScreenKey
  <1>2. pc' \in {"repaint", "exit", "halted"}
    BY DEF ScreenKey, HandleKey, RepaintHalts, IgnoreKey, HoldModifier, ReleaseModifier,
           ToggleCapslock, UndoKey, ExitKey, StartSearch, LeaveSearch, MoveKey, InsertKey,
           EditSearch, DeleteKey, SearchKey, Command, KeyDown
  <1>3. FontsAreCurrent'
    BY <1>2 DEF FontsAreCurrent
  <1>4. TextIsShown'
    BY <1>1 DEF PictureInv, TextIsShown, Trusted
  <1>5. \/ UNCHANGED <<ed, search_content, search_results, mode>>
        \/ search_results = {} /\ search_results' = {}
        \/ search_results' = {} /\ mode' = "INSERT"
        \/ SearchKey
        \/ UndoKey
    BY DEF ScreenKey, HandleKey, RepaintHalts, IgnoreKey, HoldModifier, ReleaseModifier,
           ToggleCapslock, ExitKey, StartSearch, LeaveSearch, MoveKey, InsertKey,
           EditSearch, DeleteKey, Command, ResultsOnlyInSearch
  <1>6. CASE UNCHANGED <<ed, search_content, search_results, mode>>
    <2>1. BarIsShown'
      <3> SUFFICES ASSUME Trusted, mode = "SEARCH", search_results # {},
                          NEW i \in Cells, i \div Width = Height - 1, SameInBar(i)
                   PROVE  display[i] = Look(BarGlyph(i))
        BY <1>1, <1>2, <1>6, BarIsLeft DEF BarIsShown, Trusted
      <3> QED
        BY DEF PictureInv, BarIsShown
    <2>2. ResultsInText'
      BY <1>1, <1>6 DEF PictureInv, ResultsInText
    <2> QED
      BY <1>3, <1>4, <2>1, <2>2 DEF PictureInv
  <1>7. CASE search_results' = {}
    <2>1. BarIsShown'
      BY <1>2, <1>7 DEF BarIsShown
    <2>2. ResultsInText'
      BY <1>7 DEF ResultsInText
    <2> QED
      BY <1>3, <1>4, <2>1, <2>2 DEF PictureInv
  <1>8. CASE SearchKey
    <2>1. /\ UNCHANGED <<ed, search_content, mode>> /\ mode = "SEARCH" /\ pc = "key"
          /\ search_results = {} /\ search_results' = DoSearch(ed.buffer, search_content)
      BY <1>8 DEF SearchKey, Command, KeyDown
    <2>6. undone' <=> undone
      BY <1>1, <2>1
    <2>2. \A i : ResultsAt(i) = {}
      BY <2>1 DEF ResultsAt
    <2>3. ASSUME NEW i \in Cells PROVE BarGlyph(i)' = BarGlyph(i)
      BY <1>1, <2>1, Zenon DEF BarGlyph, CharOf, Glyph
    <2>4. BarIsShown'
      <3>1. Trusted => \A i \in Cells : i \div Width = Height - 1 => display[i] = Look(BarGlyph(i))
        BY <2>1, <2>2 DEF PictureInv, BarIsShown, SameInBar
      <3>2. Trusted' => Trusted
        BY <1>1, <2>6 DEF Trusted
      <3> QED
        BY <1>1, <2>3, <3>1, <3>2 DEF BarIsShown
    <2>5. ResultsInText'
      <3>1. ASSUME NEW r \in search_results' PROVE r.row < Len(ed.buffer)
        <4>1. ed.buffer \in Seq(Line) /\ Len(ed.buffer) \in Nat /\ DOMAIN ed.buffer = 1..Len(ed.buffer)
          BY TextFacts, LenProperties DEF EditorTypeOK
        <4>2. PICK j \in DOMAIN ed.buffer : \E k \in Matches(ed.buffer[j], search_content) :
                r = [row |-> j - 1, begin |-> k, end |-> k + Len(search_content)]
          BY <2>1, <3>1 DEF DoSearch
        <4>3. r.row = j - 1
          BY <4>2
        <4> QED
          BY <4>1, <4>3
      <3> QED
        BY <2>1, <3>1 DEF ResultsInText
    <2> QED
      BY <1>3, <1>4, <2>4, <2>5 DEF PictureInv
  <1>9. CASE UndoKey
    <2>1. UNCHANGED <<mode, search_content, search_results>>
      BY <1>9 DEF UndoKey
    <2>2. CASE ed' = ed
      BY <1>6, <2>1, <2>2
    <2>3. CASE search_results = {}
      BY <1>7, <2>1, <2>3
    <2>4. CASE ed' # ed /\ search_results # {}
      <3>1. undone'
        BY <1>1, <2>4
      <3>2. BarIsShown' /\ ResultsInText'
        BY <3>1 DEF BarIsShown, ResultsInText, Trusted
      <3> QED
        BY <1>3, <1>4, <3>2 DEF PictureInv
    <2> QED
      BY <2>2, <2>3, <2>4
  <1> QED
    BY <1>5, <1>6, <1>7, <1>8, <1>9

\* editor_maybe_clear_screen: after new fonts nothing on the device counts.
LEMMA PictureAfterClear ==
    ASSUME EditorTypeOK, ScreenTypeOK, PictureInv, ResultsOnlyInSearch, ScreenClear
    PROVE  PictureInv'
  <1>1. UNCHANGED <<fb, display, mode>> /\ pc = "clear" /\ pc' = "key"
    BY DEF ScreenClear, MaybeClearScreen
  <1>2. FontsAreCurrent'
    BY <1>1 DEF FontsAreCurrent
  <1>3. CASE mode = "INSERT" /\ overdue
    <2>1. search_results' = {} /\ fonts'.load = ~fonts.load
      BY <1>3 DEF ScreenClear, MaybeClearScreen
    <2>2. \A i \in Cells : ~(fb[i].pixels.font = "normal" /\ fb[i].pixels.load = fonts'.load)
      BY <1>1, <2>1 DEF PictureInv, FontsAreCurrent
    <2>3. TextIsShown'
      BY <1>1, <2>2 DEF TextIsShown
    <2>4. BarIsShown' /\ ResultsInText'
      BY <1>1, <1>3, <2>1 DEF BarIsShown, ResultsInText
    <2> QED
      BY <1>2, <2>3, <2>4 DEF PictureInv
  <1>4. CASE ~(mode = "INSERT" /\ overdue)
    <2>1. UNCHANGED <<ed, search_content, search_results, fonts, undone>>
      BY <1>4 DEF ScreenClear, MaybeClearScreen
    <2>2. TextIsShown' /\ ResultsInText'
      BY <1>1, <2>1 DEF PictureInv, TextIsShown, ResultsInText, Trusted
    <2>3. BarIsShown'
      <3> SUFFICES ASSUME Trusted, mode = "SEARCH",
                          NEW i \in Cells, i \div Width = Height - 1, SameInBar(i)
                   PROVE  display[i] = Look(BarGlyph(i))
        BY <1>1, <2>1, BarIsLeft DEF BarIsShown, Trusted
      <3> QED
        BY <1>1 DEF PictureInv, BarIsShown
    <2> QED
      BY <1>2, <2>2, <2>3 DEF PictureInv
  <1> QED
    BY <1>3, <1>4

\* After every frame the device shows the glyph each cell was given last:
\* the bit that saves drawing a cell again (framebuffer_putch) never leaves
\* an old picture behind, whatever was typed, searched, cleared and, results
\* apart, undone.
THEOREM ScreenShowsTheText == ScreenSpec => ScreenShowsText
  <1> DEFINE Inv == EditorTypeOK /\ ScreenTypeOK /\ ResultsOnlyInSearch /\ PictureInv
  <1>1. ScreenInit => PictureInv
    <2> SUFFICES ASSUME ScreenInit PROVE PictureInv
      OBVIOUS
    <2>1. \A i \in Cells : fb[i].pixels.font # "normal"
      BY DEF ScreenInit, NoPixels
    <2>2. search_results = {} /\ mode = "INSERT"
      BY DEF ScreenInit, Init
    <2> QED
      BY <2>1, <2>2 DEF PictureInv, FontsAreCurrent, TextIsShown, BarIsShown, ResultsInText
  <1>2. Inv /\ [ScreenNext]_screenVars => PictureInv'
    <2> SUFFICES ASSUME Inv, [ScreenNext]_screenVars PROVE PictureInv'
      OBVIOUS
    <2>1. CASE UNCHANGED screenVars
      <3>1. UNCHANGED <<ed, mode, search_content, search_results, pc, fb, display, fonts, undone>>
        BY <2>1 DEF screenVars, vars
      <3>2. FontsAreCurrent' /\ TextIsShown' /\ ResultsInText'
        BY <3>1 DEF PictureInv, FontsAreCurrent, TextIsShown, ResultsInText, Trusted
      <3>3. BarIsShown'
        BY <3>1, BarIsLeft DEF PictureInv, BarIsShown, Trusted
      <3> QED
        BY <3>2, <3>3 DEF PictureInv
    <2> QED
      BY <2>1, PictureAfterFrame, PictureAfterKey, PictureAfterClear DEF ScreenNext
  <1>3. Inv /\ [ScreenNext]_screenVars
          => [ScreenRepaint /\ fonts.fit >= 2 /\ ~undone'
                => \A i \in Cells : display'[i] = Look(fb'[i].pixels)]_screenVars
    <2> SUFFICES ASSUME Inv, ScreenRepaint, fonts.fit >= 2, ~undone', NEW i \in Cells
                 PROVE  display'[i] = Look(fb'[i].pixels)
      OBVIOUS
    <2>1. Trusted
      BY DEF ScreenRepaint, Trusted
    <2>2. PICK undefined \in TextChar :
           /\ fb' = [j \in Cells |-> Putch(fb[j], Writes(j, undefined))]
           /\ display' = [j \in Cells |-> IF fb'[j].dirty THEN Look(fb'[j].pixels)
                                                          ELSE display[j]]
      BY FrameCells
    <2>3. /\ fb'[i] = Putch(fb[i], Writes(i, undefined))
          /\ display'[i] = IF fb'[i].dirty THEN Look(fb'[i].pixels) ELSE display[i]
      BY <2>2
    <2> QED
      BY <2>1, <2>3, FrameIsShown
  <1>4. ScreenSpec => []ResultsOnlyInSearch
    <2>1. ScreenInit => Init
      BY DEF ScreenInit
    <2>2. [ScreenNext]_screenVars => [Next]_vars
      BY DEF ScreenNext, ScreenClear, ScreenKey, ScreenRepaint, Next, screenVars
    <2> QED
      BY <2>1, <2>2, ResultsOnlyInSearchInvariant, PTL DEF ScreenSpec, Spec
  <1> QED
    BY <1>1, <1>2, <1>3, <1>4, ScreenShowsTheEditor, ScreenTypeCorrect, PTL
       DEF ScreenSpec, ScreenShowsText
=============================================================================
