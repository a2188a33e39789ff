------------------------------- MODULE Screen -------------------------------
(***************************************************************************)
(* The editor and what its user sees: editor_repaint writes every cell of  *)
(* the frame buffer (framebuffer.c), some of them twice or three times,    *)
(* and framebuffer_repaint sends the cells marked dirty to the device,     *)
(* which keeps showing what it was last sent.  A cell holds a pointer to a *)
(* glyph: the glyphs of a character in the same font differ between two    *)
(* loads of the fonts, and fonts that do not fit into the heap are all     *)
(* written to address 0 (module KVector), where the last one stays.        *)
(***************************************************************************)
EXTENDS Editor

\* The smallest display has more than one row of characters.
ASSUME HeightAssumption == Height >= 2

VARIABLES
    fb,       \* the cells, row by row: [pixels, dirty]
    display,  \* what the device shows in each cell
    fonts,    \* [load, fit]: a bit that tells the last two loads of the
              \* fonts apart, and how many of the last three had room
    undone,   \* since the fonts were loaded, an undo has changed the text
              \* while results were shown
    overrun   \* the cursor was written past the last cell: what follows is
              \* undefined and not modelled

screenVars == <<vars, fb, display, fonts, undone, overrun>>

Cells == 0..Height * Width - 1

FontNames == <<"normal", "red", "highlight">>
DrawnChar == TextChar \cup {Tab}

\* font->textures[ch]; all fonts that found no room are the one at address 0.
Glyph(i, ch) ==
    IF i <= fonts.fit THEN [font |-> FontNames[i], load |-> fonts.load, ch |-> ch]
                      ELSE [font |-> "null", load |-> FALSE, ch |-> ch]

\* Mutant: a font without room keeps pixels of its own.
MutantLookNull(pixels) == [font |-> pixels.font, ch |-> pixels.ch]

\* The pixels found there: editor_init loads the highlight font last.
Look(pixels) ==
    [font |-> IF pixels.font = "null" THEN "highlight" ELSE pixels.font, ch |-> pixels.ch]

Black == [font |-> "black", ch |-> Space]
NoPixels == [font |-> "black", load |-> FALSE, ch |-> Space]

-----------------------------------------------------------------------------
(* One frame *)

\* Line_at(l, column), a blank past its end.
CharOf(l, column) == IF column < Len(l) THEN l[column + 1] ELSE Space

\* editor_draw_line: the cells of a row of the text; blank below the text.
DrawLine(i) ==
    LET row == ed.view.row + i \div Width
        column == ed.view.column + (i % Width)
    IN Glyph(1, IF row < Len(ed.buffer) THEN CharOf(LineAt(ed, row), column) ELSE Space)

\* Mutant: the row of the cursor is not taken relative to the view.
MutantCursorCellRow == ed.cursor.row * Width + ed.cursor.column - ed.view.column

\* The cell the cursor is highlighted in.  framebuffer_putch does not test
\* its coordinates: left of the window is the row above, right of it the row
\* below.  Before the first cell is the gap between program and heap (the
\* frame buffer is allocated first): what is written there shows nowhere.
CursorCell == (ed.cursor.row - ed.view.row) * Width + ed.cursor.column - ed.view.column

ResultsAt(i) == {r \in search_results :
    /\ Drawn(r)
    /\ r.row - ed.view.row = i \div Width
    /\ ed.view.column + (i % Width) \in r.begin..(ReadEnd(r) - 1)}

\* The glyphs editor_repaint writes to cell i, in order; undefined is the
\* character read from a row that the text no longer has.
Writes(i, undefined) ==
    LET row == ed.view.row + i \div Width
        search(glyphs) == IF mode = "SEARCH" THEN glyphs ELSE <<>>
    IN <<DrawLine(i)>>
       \o (IF i = CursorCell THEN <<Glyph(3, CharOf(CursorLine(ed), ed.cursor.column))>>
                             ELSE <<>>)
       \o search(IF i \div Width = Height - 1
                 THEN <<Glyph(2, CharOf(search_content, i % Width))>> ELSE <<>>)
       \o search(IF ResultsAt(i) = {} THEN <<>>
                 ELSE <<Glyph(2, IF row < Len(ed.buffer)
                                 THEN CharOf(LineAt(ed, row), ed.view.column + (i % Width))
                                 ELSE undefined)>>)

\* Mutant: only the first glyph written in a frame decides about the bit.
MutantPutchFirst(cell, glyphs) ==
    [pixels |-> Last(glyphs), dirty |-> cell.pixels # glyphs[1]]

\* framebuffer_putch, once for each glyph: only the last two count.
Putch(cell, glyphs) ==
    LET n == Len(glyphs)
        before == IF n = 1 THEN cell.pixels ELSE glyphs[n - 1]
    IN [pixels |-> glyphs[n], dirty |-> before # glyphs[n]]

\* gpu_fbdraw: as framebuffer_init rounds the size of the display down to
\* whole cells, the rectangle of a cell is neither cut off nor skipped.
Fbdraw(pixels) == Look(pixels)

\* framebuffer_repaint: the dirty cells are drawn; the bit stays until the
\* next frame.
Shown(cells) ==
    [i \in Cells |-> IF cells[i].dirty THEN Fbdraw(cells[i].pixels) ELSE display[i]]

-----------------------------------------------------------------------------

ScreenInit ==
    /\ Init
    /\ fb = [i \in Cells |-> [pixels |-> NoPixels, dirty |-> TRUE]]
    /\ display = [i \in Cells |-> Black]
    /\ fonts = [load |-> FALSE, fit |-> 3]
    /\ undone = FALSE
    /\ overrun = FALSE

\* editor_init loads the fonts again; after one did not fit none does.
ScreenClear ==
    /\ MaybeClearScreen
    /\ IF mode = "INSERT" /\ overdue
       THEN /\ \E fit \in 0..3 :
                 /\ fit > 0 => fonts.fit = 3
                 /\ fonts' = [load |-> ~fonts.load, fit |-> fit]
            /\ undone' = FALSE
       ELSE UNCHANGED <<fonts, undone>>
    /\ UNCHANGED <<fb, display, overrun>>

ScreenRepaint ==
    /\ Repaint
    /\ \E undefined \in IF AssertMayFail THEN TextChar ELSE {Space} :
         fb' = [i \in Cells |-> Putch(fb[i], Writes(i, undefined))]
    /\ display' = Shown(fb')
    /\ overrun' = (CursorCell >= Height * Width)
    /\ UNCHANGED <<fonts, undone>>

ScreenKey ==
    /\ HandleKey \/ RepaintHalts
    /\ undone' = (undone \/ (search_results # {} /\ ed' # ed))
    /\ UNCHANGED <<fb, display, fonts, overrun>>

ScreenNext == ~overrun /\ (ScreenClear \/ ScreenKey \/ ScreenRepaint)

ScreenSpec == ScreenInit /\ [][ScreenNext]_screenVars

-----------------------------------------------------------------------------
(* Properties *)

Pixels == [font : {"normal", "red", "highlight", "null", "black"}, load : BOOLEAN, ch : DrawnChar]

ScreenTypeOK ==
    /\ fb \in [Cells -> [pixels : Pixels, dirty : BOOLEAN]]
    /\ display \in [Cells -> [font : {"normal", "red", "highlight", "black"}, ch : DrawnChar]]
    /\ fonts \in [load : BOOLEAN, fit : 0..3]
    /\ undone \in BOOLEAN
    /\ overrun \in BOOLEAN

\* After every frame the device shows the glyph each cell was given last,
\* although a cell written twice with the same glyph is not redrawn
\* (framebuffer.c:67), as long as two fonts found room and no undo changed
\* the text under the results.
ScreenShowsText ==
    [][ScreenRepaint /\ fonts.fit >= 2 /\ ~undone'
         => \A i \in Cells : display'[i] = Look(fb'[i].pixels)]_screenVars

\* The cursor is written past the end of the frame buffer
\* (editor_repaint, framebuffer_putch) only if it is two windows' widths
\* right of the view, which takes a line joined to one at least that long.
OverrunNeedsLongLine ==
    overrun => ed.cursor.column - ed.view.column >= 2 * Width

=============================================================================
