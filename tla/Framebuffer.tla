----------------------------- MODULE Framebuffer -----------------------------
(***************************************************************************)
(* The text screen of code/text/framebuffer.c: cells, and the row and      *)
(* column where the next character goes.  Each function is an operator     *)
(* from one state of the screen to the next.  Colours are left out, but    *)
(* for what they tell apart: a cell that was erased holds the character 0  *)
(* in a colour, a cell that was cleared holds 0 altogether.                *)
(***************************************************************************)
EXTENDS Integers

CONSTANTS
  BUFFER_WIDTH, BUFFER_HEIGHT,
  BOTTOM,         \* the row at which text is scrolled, 20
  CLOCK_ROW,      \* the row of the clock, 21
  CLOCK_COLUMNS   \* the columns of the clock, 68 to 75

(* As many bytes are cleared as there are cells of two bytes, and four.    *)
ClearedCells == (BUFFER_WIDTH * BUFFER_HEIGHT + 4) \div 2

ASSUME FramebufferAssumption ==
  /\ BUFFER_WIDTH \in Nat \ {0} /\ BUFFER_HEIGHT \in Nat
  /\ BOTTOM \in Nat \ {0} /\ CLOCK_ROW \in Nat
  /\ BOTTOM < CLOCK_ROW /\ CLOCK_ROW < BUFFER_HEIGHT - 1
  /\ (CLOCK_ROW + 1) * BUFFER_WIDTH <= ClearedCells
  /\ CLOCK_COLUMNS \subseteq 0 .. BUFFER_WIDTH - 1

VARIABLE screen   \* its row, col and cell[row][col]

Rows    == 0 .. BUFFER_HEIGHT - 1
Columns == 0 .. BUFFER_WIDTH - 1

Cleared   == "cleared"
Erased    == "erased"
ClockCell == "clock"
ClearedRow == [c \in Columns |-> Cleared]

(* The rows of text move; the one below them keeps what it has, and the    *)
(* cursor stays where it is.                                               *)
framebuffer_scroll_up(s) ==
  [s EXCEPT !.cell = [r \in Rows |-> IF r < BOTTOM THEN s.cell[r + 1]
                                     ELSE IF r = BUFFER_HEIGHT - 1 THEN ClearedRow
                                     ELSE s.cell[r]]]

(* All rows move, the clock's among them, and the cursor with them.        *)
framebuffer_scroll_down(s) ==
  [s EXCEPT !.cell = [r \in Rows |-> IF r = 0 THEN ClearedRow ELSE s.cell[r - 1]],
            !.row  = IF @ = BUFFER_HEIGHT - 1 THEN @ ELSE @ + 1]

framebuffer_write(s, row, col, c) == [s EXCEPT !.cell[row][col] = c]

FirstColumn(s, row) == 0
(* Whether the cell before col 0 of a row is that of the last column is    *)
(* read from the screen: the last cell of the row that is not cleared.     *)
LastColumn(s, row) ==
  LET filled == {c \in Columns : c = 0 \/ s.cell[row][c] # Cleared}
  IN CHOOSE c \in filled : \A d \in filled : d <= c
framebuffer_clear_delete(s) ==
  IF s.col > 0 THEN [framebuffer_write(s, s.row, s.col - 1, Erased) EXCEPT !.col = @ - 1]
  ELSE IF s.row > 0
  THEN LET col == LastColumn(s, s.row - 1)
       IN [framebuffer_write(s, s.row - 1, col, Erased) EXCEPT !.row = @ - 1, !.col = col]
  ELSE s

ScrolledBelowBottom(s) ==
  IF s.row = BOTTOM + 1 THEN [framebuffer_scroll_up(s) EXCEPT !.row = @ - 1] ELSE s
ScrolledAtBottom(s) ==
  IF s.row = BOTTOM THEN [framebuffer_scroll_up(s) EXCEPT !.row = @ - 1] ELSE s

NextRow(row) == IF row + 1 = BUFFER_HEIGHT THEN 0 ELSE row + 1

framebuffer_newline(s) ==
  LET t == ScrolledAtBottom(s) IN [t EXCEPT !.row = NextRow(@), !.col = 0]

framebuffer_put(s, c) ==
  LET t == ScrolledAtBottom(s)
      u == framebuffer_write(t, t.row, t.col, c)
  IN IF t.col + 1 = BUFFER_WIDTH THEN [u EXCEPT !.row = NextRow(@), !.col = 0]
                                 ELSE [u EXCEPT !.col = @ + 1]

framebuffer_clear(s) ==
  [row |-> 0, col |-> 0,
   cell |-> [r \in Rows |-> [c \in Columns |->
               IF r * BUFFER_WIDTH + c < ClearedCells THEN Cleared ELSE s.cell[r][c]]]]

FramebufferInit ==
  screen = [row |-> 0, col |-> 0, cell |-> [r \in Rows |-> ClearedRow]]
=============================================================================
