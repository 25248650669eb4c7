------------------------------- MODULE Editor -------------------------------
(***************************************************************************)
(* The entry editor of the boot menu (common/menu.c, config_entry_editor): *)
(* a buffer, a cursor, a window that scrolls by lines, and a refresh pass  *)
(* that draws the window, notes which offset each cell shows, and starts   *)
(* over with the window moved when the cursor was not drawn.               *)
(*                                                                         *)
(* Characters are "x" (any printable), "n" (newline) and "t" (tab).        *)
(* Offsets count from 0 as in the code; the terminating 0 is offset        *)
(* Len(buffer).  Columns count from 1, the border being column 0.          *)
(***************************************************************************)
EXTENDS Integers, Sequences, FiniteSets, FiniteSetsExt

CONSTANTS EDITOR_MAX_BUFFER_SIZE,
          line_size,          \* columns inside the borders
          _window_size,       \* rows inside the borders
          TabStop,            \* 8
          EntryTexts,            \* texts an editor may be opened on
          Typed,              \* characters the user types
          MaxKeys             \* keys of a behaviour

EditorChar == {"x", "n", "t"}

ASSUME EditorAssumption ==
  /\ EDITOR_MAX_BUFFER_SIZE \in Nat \ {0} /\ line_size \in Nat \ {0}
  /\ _window_size \in Nat /\ TabStop \in Nat \ {0} /\ MaxKeys \in Nat
  /\ EntryTexts \subseteq Seq(EditorChar) /\ Typed \subseteq EditorChar

VARIABLES buffer, cursor_offset, window_offset,
          draw,               \* the refresh pass under way, or what it drew
          edpc,               \* "draw", "input", "booted", "discarded"
          keys

edvars == <<buffer, cursor_offset, window_offset, draw, edpc, keys>>

buflen == Len(buffer)
At(b, i) == IF i < Len(b) THEN b[i + 1] ELSE "0"

-----------------------------------------------------------------------------
(* Lines. *)
LineStarts(b) == {0} \cup {i \in 1 .. Len(b) : b[i] = "n"}
get_line_offset(i, b) == Max({s \in LineStarts(b) : s <= i})
get_line_length(i, b) == Min({j \in i .. Len(b) : At(b, j) \in {"n", "0"}}) - i

get_next_line(i, b) ==
  LET disp == i - get_line_offset(i, b)
      next == i + get_line_length(i, b) + 1
  IN IF next > Len(b) THEN next - 1
     ELSE next + Min({disp, get_line_length(next, b)})

(* mutant: the column is not clipped to the shorter line *)
get_prev_line_Unclipped(i, b) ==
  LET off == get_line_offset(i, b)
      prev == get_line_offset(off - 1, b)
  IN IF off = 0 THEN 0 ELSE prev + (i - off)

get_prev_line(i, b) ==
  LET off == get_line_offset(i, b)
      prev == get_line_offset(off - 1, b)
  IN IF off = 0 THEN 0 ELSE prev + Min({i - off, get_line_length(prev, b)})

-----------------------------------------------------------------------------
(* The refresh pass, a step per cell.  draw holds its variables: i, the     *)
(* line, line_offset, the rows left, the pending spaces of a tab, whether  *)
(* the character was printed early, whether and where the cursor was       *)
(* drawn, the position and the cell map.                                   *)
Fresh == [i |-> 0, line |-> 0, lo |-> 0, rows |-> _window_size, tab |-> 0, early |-> FALSE,
          shown |-> FALSE, cx |-> 0, cy |-> 0, x |-> 1, y |-> 0, cells |-> <<>>]

Visible(s) == s.line >= window_offset /\ s.line < window_offset + s.rows
MapCell(s) == [s EXCEPT !.cells = Append(@, [x |-> s.x, y |-> s.y, i |-> s.i])]
MarkCursor(s) ==
  IF s.i = cursor_offset /\ ~s.shown
  THEN [s EXCEPT !.shown = TRUE, !.cx = s.x, !.cy = s.y] ELSE s
NextRow(s) == [s EXCEPT !.x = 1, !.y = @ + 1]
LineDone(s) == [s EXCEPT !.line = @ + 1, !.lo = 0, !.i = @ + 1]
OneLess(n) == IF n > 0 THEN n - 1 ELSE 0

(* The last column: the character is printed early, the row is wrapped and *)
(* costs the window a row.                                                 *)
Wrapped(s) ==
  LET t == IF Visible(s)
           THEN NextRow([MapCell(MarkCursor(s)) EXCEPT !.early = TRUE, !.tab = OneLess(@)])
           ELSE s
  IN IF At(buffer, s.i) # "0" /\ s.lo % line_size = line_size - 1
     THEN [t EXCEPT !.rows = OneLess(@)] ELSE s

Printed(s) == IF s.early THEN s ELSE [MapCell(s) EXCEPT !.x = @ + 1, !.tab = OneLess(@)]

(* A character of a line above the window advances nothing but i. *)
Passed(s) ==
  LET p == IF s.line >= window_offset
           THEN [Printed([s EXCEPT !.lo = @ + 1]) EXCEPT !.early = FALSE] ELSE s
  IN IF p.tab = 0 THEN [p EXCEPT !.i = @ + 1] ELSE p

AtTab(s) == IF s.tab = 0 /\ At(buffer, s.i) = "t"
            THEN [s EXCEPT !.tab = TabStop - (s.lo % TabStop)] ELSE s
AtCell(s) == LET w == Wrapped(AtTab(s)) IN IF Visible(w) THEN MarkCursor(w) ELSE w
AtNewline(s) == s.tab = 0 /\ At(buffer, s.i) = "n" /\ Visible(s)
AtEnd(s) == At(buffer, s.i) = "0" \/ s.line >= window_offset + s.rows

DrawNewline ==
  /\ edpc = "draw" /\ AtNewline(draw)
  /\ draw' = LineDone(NextRow(MapCell(MarkCursor(draw))))
  /\ UNCHANGED <<buffer, cursor_offset, window_offset, edpc, keys>>

DrawCell ==
  /\ edpc = "draw" /\ ~AtNewline(draw)
  /\ LET s == AtCell(draw)
     IN ~AtEnd(s) /\ draw' = IF At(buffer, s.i) = "n" THEN LineDone(s) ELSE Passed(s)
  /\ UNCHANGED <<buffer, cursor_offset, window_offset, edpc, keys>>

(* The window, once past every line, is pushed on for ever: it stops here. *)
MaxWindow == EDITOR_MAX_BUFFER_SIZE

(* mutant: the window is moved the same way wherever the cursor is *)
Moved_Down(s) == window_offset + 1
Moved(s) == IF s.i <= cursor_offset THEN window_offset + 1 ELSE window_offset - 1

(* The end of the buffer or of the window: done, or once more with the     *)
(* window moved towards the cursor.                                        *)
DrawEnd ==
  /\ edpc = "draw" /\ ~AtNewline(draw) /\ window_offset <= MaxWindow
  /\ LET s == AtCell(draw)
     IN /\ AtEnd(s)
        /\ IF s.shown
           THEN /\ draw' = IF At(buffer, s.i) = "0" /\ Visible(s) THEN MapCell(s) ELSE s
                /\ edpc' = "input" /\ UNCHANGED window_offset
           ELSE draw' = Fresh /\ window_offset' = Moved(s) /\ UNCHANGED edpc
  /\ UNCHANGED <<buffer, cursor_offset, keys>>

DrawEditor == DrawNewline \/ DrawCell \/ DrawEnd

-----------------------------------------------------------------------------
Key == edpc = "input" /\ keys < MaxKeys /\ keys' = keys + 1
Redraw == edpc' = "draw" /\ draw' = Fresh /\ UNCHANGED window_offset
MoveTo(i) == Key /\ cursor_offset' = i /\ Redraw /\ UNCHANGED buffer

CursorDown == MoveTo(get_next_line(cursor_offset, buffer))
CursorUp == MoveTo(get_prev_line(cursor_offset, buffer))
CursorLeft == MoveTo(IF cursor_offset > 0 THEN cursor_offset - 1 ELSE 0)
CursorRight == MoveTo(IF cursor_offset < buflen THEN cursor_offset + 1 ELSE cursor_offset)
Home == MoveTo(get_line_offset(cursor_offset, buffer))
End == MoveTo(cursor_offset + get_line_length(cursor_offset, buffer))

(* A click takes the cursor to the nearest mapped cell to the left. *)
editor_cell_to_offset(x, y) ==
  LET left == {k \in DOMAIN draw.cells : draw.cells[k].y = y /\ draw.cells[k].x <= x}
      near == Max({draw.cells[k].x : k \in left})
  IN IF left = {} THEN -1 ELSE draw.cells[Max({k \in left : draw.cells[k].x = near})].i

Click(x, y) ==
  /\ editor_cell_to_offset(x, y) # -1
  /\ MoveTo(editor_cell_to_offset(x, y))

Without(i) == [k \in 1 .. buflen - 1 |-> IF k <= i THEN buffer[k] ELSE buffer[k + 1]]

Backspace ==
  /\ Key /\ Redraw
  /\ IF cursor_offset = 0 THEN UNCHANGED <<buffer, cursor_offset>>
     ELSE cursor_offset' = cursor_offset - 1 /\ buffer' = Without(cursor_offset - 1)

Delete ==
  /\ Key /\ Redraw /\ UNCHANGED cursor_offset
  /\ buffer' = IF cursor_offset < buflen THEN Without(cursor_offset) ELSE buffer

Room == buflen < EDITOR_MAX_BUFFER_SIZE - 1

Insert(c) ==
  /\ Key /\ Redraw
  /\ IF Room
     THEN /\ buffer' = SubSeq(buffer, 1, cursor_offset) \o <<c>> \o SubSeq(buffer, cursor_offset + 1, buflen)
          /\ cursor_offset' = cursor_offset + 1
     ELSE UNCHANGED <<buffer, cursor_offset>>

F10 == Key /\ edpc' = "booted" /\ UNCHANGED <<buffer, cursor_offset, window_offset, draw>>
Escape == Key /\ edpc' = "discarded" /\ UNCHANGED <<buffer, cursor_offset, window_offset, draw>>

(* Leading newlines are skipped; a text that does not fit is refused. *)
EdInit ==
  /\ \E t \in EntryTexts :
       LET skip == Min({i \in 0 .. Len(t) : At(t, i) # "n"})
       IN buffer = SubSeq(t, skip + 1, Len(t)) /\ Len(t) - skip < EDITOR_MAX_BUFFER_SIZE
  /\ cursor_offset = 0 /\ window_offset = 0 /\ draw = Fresh /\ edpc = "draw" /\ keys = 0

EdNext ==
  \/ DrawEditor \/ CursorDown \/ CursorUp \/ CursorLeft \/ CursorRight \/ Home \/ End
  \/ Backspace \/ Delete \/ F10 \/ Escape
  \/ \E c \in Typed : Insert(c)
  \/ \E x \in 0 .. line_size + 1, y \in 0 .. _window_size - 1 : Click(x, y)

EdSpec == EdInit /\ [][EdNext]_edvars
EdFairSpec == EdSpec /\ WF_edvars(DrawEditor)

-----------------------------------------------------------------------------
(* The cursor never leaves the text, and the text never outgrows the       *)
(* buffer with its terminator: inserting shifts characters down from the   *)
(* end until it meets the cursor.                                          *)
CursorInBuffer == cursor_offset <= buflen /\ buflen < EDITOR_MAX_BUFFER_SIZE

LineOf(i) == Cardinality({s \in LineStarts(buffer) : s <= i}) - 1

(* Up and Down move by exactly one line where there is one, whatever the   *)
(* lengths of the lines, and going down and up again comes back unless the *)
(* line below was too short for the column.                                *)
OneLineMoves ==
  \A i \in 0 .. buflen :
    LET d == get_next_line(i, buffer)
    IN /\ LineOf(d) = Min({LineOf(i) + 1, LineOf(buflen)})
       /\ LineOf(get_prev_line(i, buffer)) = Max({LineOf(i) - 1, 0})
       /\ d - get_line_offset(d, buffer) = i - get_line_offset(i, buffer) /\ d > i =>
            get_prev_line(d, buffer) = i

(* When the editor waits for a key, the cursor stands on a cell that shows *)
(* the offset it is at, and a click on any cell goes to what the cell      *)
(* shows.                                                                  *)
ScreenTrue ==
  edpc = "input" =>
    /\ \E k \in DOMAIN draw.cells :
         draw.cells[k] = [x |-> draw.cx, y |-> draw.cy, i |-> cursor_offset]
    /\ \A k \in DOMAIN draw.cells :
         editor_cell_to_offset(draw.cells[k].x, draw.cells[k].y) = draw.cells[k].i

Tame ==
  /\ \A k \in DOMAIN buffer : buffer[k] # "t"
  /\ \A i \in LineStarts(buffer) : get_line_length(i, buffer) < line_size * _window_size
  /\ cursor_offset = buflen => window_offset < Cardinality(LineStarts(buffer))

(* The refresh comes to an end, so that after every key the editor waits   *)
(* for the next one, when the text has no tab and no line of more rows     *)
(* than the window has, and the cursor at the end of the text is not above *)
(* the window.                                                             *)
TameRefreshEnds == (edpc = "draw" /\ Tame) ~> edpc = "input"

(* Text, cursor and screen agree after any sequence of keys and clicks:    *)
(* the cursor is in the text and on the cell that shows its character, and *)
(* moves by whole lines (config_entry_editor, menu.c).                     *)
EditorTrue == CursorInBuffer /\ OneLineMoves /\ ScreenTrue
=============================================================================
