----------------------------- MODULE EditorUndo -----------------------------
(***************************************************************************)
(* What the undo history of the editor promises: Ctrl+Z brings back the    *)
(* text as it was before the last edit that is still recorded.  The        *)
(* editor keeps no copies of the text, only one HistoryEntry per edit      *)
(* (editor.c, editor_undo); this module keeps the copies beside it and     *)
(* compares.                                                               *)
(***************************************************************************)
EXTENDS Editor

VARIABLES
    past,     \* past[i]: the buffer before the edit that history[i] records
    spoiled   \* an undo did not bring back past[i] and older entries remain

undoVars == <<vars, past, spoiled>>

\* Undoing an inserted space runs the deletion of editor_delete_char, which
\* takes four spaces for a tab: an entry in this position deletes too much.
LooksLikeTab(entry, buffer) ==
    /\ entry.type = "INSERT"
    /\ entry.ch = Space
    /\ HasTab(buffer[entry.pos.row + 1], entry.pos.column)

UndoInit == Init /\ past = <<>> /\ spoiled = FALSE

Follow ==
    LET n == Len(ed.history)
        m == Len(ed'.history)
    IN /\ past' = IF m > n THEN Append(past, ed.buffer) ELSE SubSeq(past, 1, m)
       /\ spoiled' = (m > 0 /\ (spoiled \/ (m < n /\ ed'.buffer # past[n])))

UndoNext == Next /\ Follow

UndoSpec == UndoInit /\ [][UndoNext]_undoVars

UndoStep == UndoKey /\ ed.history # <<>>

-----------------------------------------------------------------------------

UndoTypeOK ==
    /\ past \in Seq(Seq(Line))
    /\ Len(past) = Len(ed.history)
    /\ spoiled \in BOOLEAN

\* Undo restores the text before the edit it takes back, as long as no
\* earlier undo went wrong, except in one position, where it never does: the
\* inserted space looks like a part of a tab (editor_undo, editor_delete_char).
UndoRestores ==
    [][UndoStep /\ ~spoiled
         => (ed'.buffer = Last(past) <=> ~LooksLikeTab(Last(ed.history), ed.buffer))]_undoVars

=============================================================================
