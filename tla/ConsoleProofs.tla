---------------------------- MODULE ConsoleProofs ----------------------------
(***************************************************************************)
(* Keyboard, prompt and screen for every width and height of the screen,   *)
(* every length of the line and every number of arrow keys: types, the     *)
(* clock's rows kept free of text, the echo kept in step with the line,    *)
(* the line that is given being the line that was typed, and the commands  *)
(* getting the words of it.                                                *)
(*                                                                         *)
(* First what each operator of Framebuffer returns; then one lemma per     *)
(* invariant and operator; the actions of Console only combine them.       *)
(***************************************************************************)
EXTENDS Console, TLAPS, FiniteSetTheorems, WellFoundedInduction

Cells == {Cleared, Erased, Typed, Printed, ClockCell}
ScreenType == [row : Rows, col : Columns, cell : [Rows -> [Columns -> Cells]]]

LEMMA SizeFacts ==
  /\ BUFFER_WIDTH \in Nat \ {0} /\ BUFFER_HEIGHT \in Nat \ {0}
  /\ BOTTOM \in Nat \ {0} /\ CLOCK_ROW \in Nat
  /\ BOTTOM < CLOCK_ROW /\ CLOCK_ROW < BUFFER_HEIGHT - 1
  /\ 0 \in Rows /\ 0 \in Columns /\ BOTTOM \in Rows /\ CLOCK_ROW \in Rows
  /\ \A r \in Rows : r \in Int /\ 0 <= r /\ r <= BUFFER_HEIGHT - 1
  /\ \A c \in Columns : c \in Int /\ 0 <= c /\ c <= BUFFER_WIDTH - 1
  /\ CLOCK_COLUMNS \subseteq Columns
  /\ Cleared # Erased /\ Cleared # Typed /\ Cleared # Printed /\ Cleared # ClockCell
BY FramebufferAssumption
   DEF Rows, Columns, Cleared, Erased, Typed, Printed, ClockCell

(* A finite set of integers has a greatest element.                        *)
LEMMA Greatest ==
  ASSUME NEW S, S \subseteq Int, IsFiniteSet(S), S # {}
  PROVE  \E m \in S : \A n \in S : n <= m
<1> DEFINE Above(m) == {n \in S : n > m}
           T == {Above(m) : m \in S}
<1>1. T \subseteq SUBSET S /\ T # {}
  OBVIOUS
<1>2. \E A \in T : \A B \in T : ~(<<B, A>> \in StrictSubsetOrdering(S))
  <2>1. IsWellFoundedOn(StrictSubsetOrdering(S), SUBSET S)
    BY FS_StrictSubsetOrderingWellFounded, FS_FiniteSubsetsOfFinite
  <2> HIDE DEF T
  <2>2. QED
    BY <1>1, <2>1, WFMin
<1>3. PICK m \in S : \A B \in T : ~(<<B, Above(m)>> \in StrictSubsetOrdering(S))
  BY <1>2
<1>4. ASSUME NEW n \in S, n > m
      PROVE  FALSE
  <2>1. n \in Above(m) /\ n \notin Above(n)
    BY <1>4
  <2>2. ASSUME NEW k \in Above(n)
        PROVE  k \in Above(m)
    BY <1>4, <2>2
  <2>3. Above(n) \in T /\ Above(n) \subseteq S /\ Above(m) \subseteq S
    OBVIOUS
  <2>4. <<Above(n), Above(m)>> \in StrictSubsetOrdering(S)
    <3> HIDE DEF Above
    <3> QED
      BY <2>1, <2>2, <2>3 DEF StrictSubsetOrdering
  <2>5. QED
    BY <1>3, <2>3, <2>4
<1>5. QED
  BY <1>4

-----------------------------------------------------------------------------
(* What the operators of the screen return.                                *)

LEMMA ScreenParts ==
  ASSUME NEW s \in ScreenType
  PROVE  /\ s.row \in Rows /\ s.col \in Columns
         /\ s.cell \in [Rows -> [Columns -> Cells]]
         /\ s = [row |-> s.row, col |-> s.col, cell |-> s.cell]
BY DEF ScreenType

LEMMA WriteFacts ==
  ASSUME NEW s \in ScreenType, NEW r \in Rows, NEW c \in Columns, NEW v \in Cells
  PROVE  /\ framebuffer_write(s, r, c, v) \in ScreenType
         /\ framebuffer_write(s, r, c, v).row = s.row
         /\ framebuffer_write(s, r, c, v).col = s.col
         /\ framebuffer_write(s, r, c, v).cell[r][c] = v
         /\ \A q \in Rows, d \in Columns :
              <<q, d>> # <<r, c>> =>
                framebuffer_write(s, r, c, v).cell[q][d] = s.cell[q][d]
<1> DEFINE w == framebuffer_write(s, r, c, v)
<1>1. w = [s EXCEPT !.cell = [s.cell EXCEPT ![r] = [s.cell[r] EXCEPT ![c] = v]]]
  BY DEF framebuffer_write, ScreenType
<1>2. /\ s.cell[r] \in [Columns -> Cells]
      /\ [s.cell EXCEPT ![r] = [s.cell[r] EXCEPT ![c] = v]]
           \in [Rows -> [Columns -> Cells]]
  BY ScreenParts
<1>3. w \in ScreenType /\ w.row = s.row /\ w.col = s.col
  BY <1>1, <1>2 DEF ScreenType
<1>4. w.cell = [s.cell EXCEPT ![r] = [s.cell[r] EXCEPT ![c] = v]]
  BY <1>1, <1>2 DEF ScreenType
<1> HIDE DEF w
<1>5. /\ w.cell[r][c] = v
      /\ \A q \in Rows, d \in Columns : <<q, d>> # <<r, c>> => w.cell[q][d] = s.cell[q][d]
  BY <1>2, <1>4, ScreenParts
<1>6. QED
  BY <1>3, <1>5 DEF w

LEMMA ScrollUpFacts ==
  ASSUME NEW s \in ScreenType
  PROVE  /\ framebuffer_scroll_up(s) \in ScreenType
         /\ framebuffer_scroll_up(s).row = s.row
         /\ framebuffer_scroll_up(s).col = s.col
         /\ \A r \in Rows, c \in Columns :
              framebuffer_scroll_up(s).cell[r][c] =
                IF r < BOTTOM THEN s.cell[r + 1][c]
                ELSE IF r = BUFFER_HEIGHT - 1 THEN Cleared ELSE s.cell[r][c]
<1> DEFINE new == [r \in Rows |-> IF r < BOTTOM THEN s.cell[r + 1]
                                  ELSE IF r = BUFFER_HEIGHT - 1 THEN ClearedRow
                                  ELSE s.cell[r]]
<1>1. \A r \in Rows : r < BOTTOM => r + 1 \in Rows
  BY SizeFacts DEF Rows
<1>2. ClearedRow \in [Columns -> Cells]
  BY DEF ClearedRow, Cells
<1>3. new \in [Rows -> [Columns -> Cells]]
  BY <1>1, <1>2, ScreenParts
<1>4. framebuffer_scroll_up(s) = [s EXCEPT !.cell = new]
  BY DEF framebuffer_scroll_up
<1>5. \A r \in Rows, c \in Columns :
        new[r][c] = IF r < BOTTOM THEN s.cell[r + 1][c]
                    ELSE IF r = BUFFER_HEIGHT - 1 THEN Cleared ELSE s.cell[r][c]
  BY DEF ClearedRow
<1> HIDE DEF new
<1>6. QED
  BY <1>3, <1>4, <1>5 DEF ScreenType

LEMMA ScrollDownFacts ==
  ASSUME NEW s \in ScreenType
  PROVE  /\ framebuffer_scroll_down(s) \in ScreenType
         /\ framebuffer_scroll_down(s).row =
              IF s.row = BUFFER_HEIGHT - 1 THEN s.row ELSE s.row + 1
         /\ framebuffer_scroll_down(s).col = s.col
         /\ \A r \in Rows, c \in Columns :
              framebuffer_scroll_down(s).cell[r][c] =
                IF r = 0 THEN Cleared ELSE s.cell[r - 1][c]
<1> DEFINE new == [r \in Rows |-> IF r = 0 THEN ClearedRow ELSE s.cell[r - 1]]
           row == IF s.row = BUFFER_HEIGHT - 1 THEN s.row ELSE s.row + 1
<1>1. \A r \in Rows : r # 0 => r - 1 \in Rows
  BY SizeFacts DEF Rows
<1>2. ClearedRow \in [Columns -> Cells]
  BY DEF ClearedRow, Cells
<1>3. new \in [Rows -> [Columns -> Cells]] /\ row \in Rows
  BY <1>1, <1>2, ScreenParts, SizeFacts DEF Rows
<1>4. framebuffer_scroll_down(s) = [s EXCEPT !.cell = new, !.row = row]
  BY DEF framebuffer_scroll_down, ScreenType
<1>5. \A r \in Rows, c \in Columns :
        new[r][c] = IF r = 0 THEN Cleared ELSE s.cell[r - 1][c]
  BY DEF ClearedRow
<1> HIDE DEF new, row
<1>6. framebuffer_scroll_down(s) \in ScreenType
  BY <1>3, <1>4 DEF ScreenType
<1>7. /\ framebuffer_scroll_down(s).row = row
      /\ framebuffer_scroll_down(s).col = s.col
      /\ framebuffer_scroll_down(s).cell = new
  BY <1>3, <1>4 DEF ScreenType
<1>8. QED
  BY <1>5, <1>6, <1>7 DEF row

(* The last cell of a row that is not cleared, or its first.               *)
LEMMA LastColumnFacts ==
  ASSUME NEW s \in ScreenType, NEW r \in Rows
  PROVE  /\ LastColumn(s, r) \in Columns
         /\ \A d \in Columns : s.cell[r][d] # Cleared => d <= LastColumn(s, r)
<1> DEFINE filled == {c \in Columns : c = 0 \/ s.cell[r][c] # Cleared}
<1>1. filled \subseteq Columns /\ 0 \in filled /\ filled \subseteq Int
  BY SizeFacts
<1>2. IsFiniteSet(filled)
  <2>1. 0 \in Int /\ BUFFER_WIDTH - 1 \in Int
    BY SizeFacts
  <2>2. IsFiniteSet(Columns)
    BY <2>1, FS_Interval DEF Columns
  <2> HIDE DEF filled
  <2>3. QED
    BY <1>1, <2>2, FS_Subset
<1>3. \E c \in filled : \A d \in filled : d <= c
  <2> HIDE DEF filled
  <2> QED
    BY <1>1, <1>2, Greatest
<1>4. LastColumn(s, r) \in filled /\ \A d \in filled : d <= LastColumn(s, r)
  BY <1>3 DEF LastColumn
<1>5. QED
  BY <1>1, <1>4

(* The cell that is erased, which the cursor goes back to.                 *)
BackRow(s)    == IF s.col > 0 THEN s.row ELSE s.row - 1
BackColumn(s) == IF s.col > 0 THEN s.col - 1 ELSE LastColumn(s, s.row - 1)

LEMMA DeleteFacts ==
  ASSUME NEW s \in ScreenType
  PROVE  /\ framebuffer_clear_delete(s) \in ScreenType
         /\ s.row = 0 /\ s.col = 0 => framebuffer_clear_delete(s) = s
         /\ s.row > 0 \/ s.col > 0 =>
              /\ BackRow(s) \in Rows /\ BackColumn(s) \in Columns
              /\ framebuffer_clear_delete(s).row = BackRow(s)
              /\ framebuffer_clear_delete(s).col = BackColumn(s)
              /\ framebuffer_clear_delete(s).cell[BackRow(s)][BackColumn(s)] = Erased
              /\ \A q \in Rows, d \in Columns :
                   <<q, d>> # <<BackRow(s), BackColumn(s)>> =>
                     framebuffer_clear_delete(s).cell[q][d] = s.cell[q][d]
<1>1. s.row \in Rows /\ s.col \in Columns
  BY ScreenParts
<1>2. CASE s.row = 0 /\ s.col = 0
  <2>1. framebuffer_clear_delete(s) = s /\ ~(s.row > 0 \/ s.col > 0)
    BY <1>2 DEF framebuffer_clear_delete
  <2>2. QED
    BY <2>1
<1>3. CASE s.row > 0 \/ s.col > 0
  <2> DEFINE r == IF s.col > 0 THEN s.row ELSE s.row - 1
             c == IF s.col > 0 THEN s.col - 1 ELSE LastColumn(s, s.row - 1)
             w == framebuffer_write(s, r, c, Erased)
  <2>1. r \in Rows /\ c \in Columns
    BY <1>1, <1>3, SizeFacts, LastColumnFacts DEF Rows, Columns
  <2>2. framebuffer_clear_delete(s) = [w EXCEPT !.row = r, !.col = c]
    <3>1. CASE s.col > 0
      <4>1. w \in ScreenType /\ w.row = s.row /\ w.col = s.col
        BY <2>1, WriteFacts, SMTT(30) DEF Cells
      <4>2. framebuffer_clear_delete(s) = [w EXCEPT !.col = s.col - 1]
        BY <3>1, <4>1 DEF framebuffer_clear_delete, ScreenType
      <4> HIDE DEF w
      <4>3. QED
        BY <3>1, <4>1, <4>2 DEF ScreenType
    <3>2. CASE ~(s.col > 0)
      <4>1. w \in ScreenType /\ w.row = s.row /\ w.col = s.col
        BY <2>1, WriteFacts, SMTT(30) DEF Cells
      <4>2. s.row > 0
        BY <1>3, <3>2
      <4>3. framebuffer_clear_delete(s) =
              [framebuffer_write(s, s.row - 1, LastColumn(s, s.row - 1), Erased)
                 EXCEPT !.row = @ - 1, !.col = LastColumn(s, s.row - 1)]
        BY <3>2, <4>2 DEF framebuffer_clear_delete
      <4>4. w = framebuffer_write(s, s.row - 1, LastColumn(s, s.row - 1), Erased)
            /\ r = s.row - 1 /\ c = LastColumn(s, s.row - 1)
        BY <3>2
      <4> HIDE DEF w, r, c
      <4>5. QED
        BY <4>1, <4>3, <4>4 DEF ScreenType
    <3>3. QED
      BY <3>1, <3>2
  <2>3. /\ w \in ScreenType /\ w.cell[r][c] = Erased
        /\ \A q \in Rows, d \in Columns : <<q, d>> # <<r, c>> => w.cell[q][d] = s.cell[q][d]
    <3>1. Erased \in Cells
      BY DEF Cells
    <3> HIDE DEF r, c
    <3>2. QED
      BY <2>1, <3>1, WriteFacts
  <2> HIDE DEF r, c, w
  <2>4. [w EXCEPT !.row = r, !.col = c] \in ScreenType
        /\ [w EXCEPT !.row = r, !.col = c].row = r
        /\ [w EXCEPT !.row = r, !.col = c].col = c
        /\ [w EXCEPT !.row = r, !.col = c].cell = w.cell
    BY <2>1, <2>3 DEF ScreenType
  <2>5. /\ framebuffer_clear_delete(s) \in ScreenType
        /\ r \in Rows /\ c \in Columns
        /\ framebuffer_clear_delete(s).row = r
        /\ framebuffer_clear_delete(s).col = c
        /\ framebuffer_clear_delete(s).cell[r][c] = Erased
        /\ \A q \in Rows, d \in Columns :
             <<q, d>> # <<r, c>> => framebuffer_clear_delete(s).cell[q][d] = s.cell[q][d]
    BY <2>1, <2>2, <2>3, <2>4
  <2>6. ~(s.row = 0 /\ s.col = 0)
    BY <1>1, <1>3, SizeFacts
  <2>7. QED
    BY <2>5, <2>6 DEF r, c, BackRow, BackColumn
<1>4. (s.row = 0 /\ s.col = 0) \/ (s.row > 0 \/ s.col > 0)
  <2>1. s.row \in Nat /\ s.col \in Nat
    BY <1>1 DEF Rows, Columns
  <2>2. QED
    BY <2>1
<1>5. QED
  BY <1>2, <1>3, <1>4

LEMMA ScrolledFacts ==
  ASSUME NEW s \in ScreenType
  PROVE  /\ ScrolledAtBottom(s) \in ScreenType
         /\ ScrolledAtBottom(s).row = IF s.row = BOTTOM THEN BOTTOM - 1 ELSE s.row
         /\ ScrolledAtBottom(s).col = s.col
         /\ ScrolledAtBottom(s).cell =
              IF s.row = BOTTOM THEN framebuffer_scroll_up(s).cell ELSE s.cell
<1>1. CASE s.row = BOTTOM
  <2> DEFINE u == framebuffer_scroll_up(s)
  <2>1. ScrolledAtBottom(s) = [u EXCEPT !.row = @ - 1]
    BY <1>1 DEF ScrolledAtBottom
  <2>2. u \in ScreenType /\ u.row = BOTTOM /\ u.col = s.col
    BY <1>1, ScrollUpFacts
  <2>3. BOTTOM - 1 \in Rows
    BY SizeFacts DEF Rows
  <2> HIDE DEF u
  <2>4. ScrolledAtBottom(s) = [u EXCEPT !.row = BOTTOM - 1]
    BY <2>1, <2>2 DEF ScreenType
  <2>5. QED
    BY <1>1, <2>2, <2>3, <2>4 DEF ScreenType, u
<1>2. CASE s.row # BOTTOM
  BY <1>2 DEF ScrolledAtBottom
<1>3. QED
  BY <1>1, <1>2

LEMMA NextRowType ==
  ASSUME NEW r \in Rows
  PROVE  NextRow(r) \in Rows
BY SizeFacts DEF NextRow, Rows

LEMMA NewlineFacts ==
  ASSUME NEW s \in ScreenType
  PROVE  /\ framebuffer_newline(s) \in ScreenType
         /\ framebuffer_newline(s).row = NextRow(ScrolledAtBottom(s).row)
         /\ framebuffer_newline(s).col = 0
         /\ framebuffer_newline(s).cell = ScrolledAtBottom(s).cell
<1> DEFINE t == ScrolledAtBottom(s)
<1>1. t \in ScreenType /\ NextRow(t.row) \in Rows /\ 0 \in Columns
  BY ScrolledFacts, ScreenParts, NextRowType, SizeFacts
<1>2. framebuffer_newline(s) = [t EXCEPT !.row = NextRow(@), !.col = 0]
  BY DEF framebuffer_newline
<1> HIDE DEF t
<1>3. framebuffer_newline(s) = [t EXCEPT !.row = NextRow(t.row), !.col = 0]
  BY <1>1, <1>2 DEF ScreenType
<1>4. QED
  BY <1>1, <1>3 DEF ScreenType, t

LEMMA PutFacts ==
  ASSUME NEW s \in ScreenType, NEW v \in Cells
  PROVE  LET t == ScrolledAtBottom(s) IN
         /\ framebuffer_put(s, v) \in ScreenType
         /\ framebuffer_put(s, v).row =
              IF t.col + 1 = BUFFER_WIDTH THEN NextRow(t.row) ELSE t.row
         /\ framebuffer_put(s, v).col =
              IF t.col + 1 = BUFFER_WIDTH THEN 0 ELSE t.col + 1
         /\ framebuffer_put(s, v).cell[t.row][t.col] = v
         /\ \A q \in Rows, d \in Columns :
              <<q, d>> # <<t.row, t.col>> =>
                framebuffer_put(s, v).cell[q][d] = t.cell[q][d]
<1> DEFINE t == ScrolledAtBottom(s)
           u == framebuffer_write(t, t.row, t.col, v)
           row == IF t.col + 1 = BUFFER_WIDTH THEN NextRow(t.row) ELSE t.row
           col == IF t.col + 1 = BUFFER_WIDTH THEN 0 ELSE t.col + 1
<1>1. t \in ScreenType /\ t.row \in Rows /\ t.col \in Columns
  BY ScrolledFacts, ScreenParts
<1>2. framebuffer_put(s, v) =
        IF t.col + 1 = BUFFER_WIDTH THEN [u EXCEPT !.row = NextRow(@), !.col = 0]
                                    ELSE [u EXCEPT !.col = @ + 1]
  BY DEF framebuffer_put
<1> HIDE DEF t
<1>3. row \in Rows /\ col \in Columns
  <2>1. row \in Rows
    BY <1>1, NextRowType
  <2>2. t.col \in 0 .. BUFFER_WIDTH - 1 /\ BUFFER_WIDTH \in Nat \ {0}
    BY <1>1, SizeFacts DEF Columns
  <2>3. col \in 0 .. BUFFER_WIDTH - 1
    BY <2>2
  <2>4. QED
    BY <2>1, <2>3 DEF Columns
<1>4. /\ u \in ScreenType /\ u.row = t.row /\ u.col = t.col /\ u.cell[t.row][t.col] = v
      /\ \A q \in Rows, d \in Columns :
           <<q, d>> # <<t.row, t.col>> => u.cell[q][d] = t.cell[q][d]
  BY <1>1, WriteFacts
<1> HIDE DEF u
<1>5. framebuffer_put(s, v) = [u EXCEPT !.row = row, !.col = col]
  BY <1>2, <1>4 DEF ScreenType
<1> HIDE DEF row, col
<1>6. /\ framebuffer_put(s, v) \in ScreenType
      /\ framebuffer_put(s, v).row = row /\ framebuffer_put(s, v).col = col
      /\ framebuffer_put(s, v).cell = u.cell
  BY <1>3, <1>4, <1>5 DEF ScreenType
<1>7. QED
  BY <1>4, <1>6 DEF row, col, t

LEMMA ClearFacts ==
  ASSUME NEW s \in ScreenType
  PROVE  /\ framebuffer_clear(s) \in ScreenType
         /\ framebuffer_clear(s).row = 0 /\ framebuffer_clear(s).col = 0
         /\ \A r \in Rows, c \in Columns :
              framebuffer_clear(s).cell[r][c] =
                IF r * BUFFER_WIDTH + c < ClearedCells THEN Cleared ELSE s.cell[r][c]
BY SizeFacts DEF framebuffer_clear, ScreenType, Cells

-----------------------------------------------------------------------------
(* Types.                                                                  *)

Modes == {"boot", "cleared", "polling", "got", "given", "running"}
Lines == [0 .. MAX_PROMPT - 1 -> Chars]

TypeInv ==
  /\ KeyboardTypeOK
  /\ screen \in ScreenType
  /\ prompt_val \in Lines /\ prompt_size \in 0 .. MAX_PROMPT - 1
  /\ char \in Chars
  /\ mode \in Modes
  /\ ups \in Nat /\ downs \in Nat /\ ups + downs <= ArrowBound
  /\ intact \in BOOLEAN

LEMMA TypeInvGivesTypeOK == TypeInv => ConsoleTypeOK
<1> SUFFICES ASSUME TypeInv
             PROVE  ConsoleTypeOK
  OBVIOUS
<1>1. /\ screen.row \in Rows /\ screen.col \in Columns
      /\ \A r \in Rows, c \in Columns : screen.cell[r][c] \in Cells
  BY ScreenParts DEF TypeInv
<1>2. ups + downs \in 0 .. ArrowBound
  BY ConsoleAssumption DEF TypeInv
<1>3. QED
  BY <1>1, <1>2 DEF TypeInv, ConsoleTypeOK, Cells, Lines, Modes

LEMMA CharacterType ==
  ASSUME NEW key \in Keys
  PROVE  Character(key) \in Chars
<1>1. ascii_map[key] \in Chars
  BY DEF ascii_map, Keys, Chars, Text
<1>2. ascii_map_shift_pressed[key] \in Chars
  <2>1. ascii_map_shift_pressed[key] = IF key = "space" THEN NUL ELSE ascii_map[key]
    <3>1. DOMAIN ascii_map = Keys
      BY DEF ascii_map
    <3>2. QED
      BY <3>1 DEF ascii_map_shift_pressed
  <2>2. QED
    BY <1>1, <2>1 DEF Chars
<1>3. QED
  BY <1>1, <1>2 DEF Character, ascii_map_caps

LEMMA KeyboardSteps ==
  ASSUME KeyboardTypeOK
  PROVE  /\ \A key \in Keys : PressKey(key) => KeyboardTypeOK'
         /\ PressShift \/ ReleaseShift \/ PressCapsLock => KeyboardTypeOK'
         /\ keyboard_state_activate \/ get_keyboard_buffer => KeyboardTypeOK'
         /\ keyboard_state.keyboard_buffer \in Chars
<1>1. \A key \in Keys : PressKey(key) => KeyboardTypeOK'
  BY CharacterType DEF KeyboardTypeOK, PressKey
<1>2. PressShift \/ ReleaseShift \/ PressCapsLock => KeyboardTypeOK'
  BY DEF KeyboardTypeOK, PressShift, ReleaseShift, PressCapsLock
<1>3. keyboard_state_activate \/ get_keyboard_buffer => KeyboardTypeOK'
  BY DEF KeyboardTypeOK, keyboard_state_activate, get_keyboard_buffer, Chars
<1>4. QED
  BY <1>1, <1>2, <1>3 DEF KeyboardTypeOK

LEMMA PutType ==
  ASSUME NEW s \in ScreenType
  PROVE  /\ framebuffer_put(s, Printed) \in ScreenType
         /\ framebuffer_put(s, Typed) \in ScreenType
         /\ \A c \in {Newline, Typed, Printed} : fputc(s, c) \in ScreenType
<1>1. Printed \in Cells /\ Typed \in Cells
  BY DEF Cells
<1>2. framebuffer_put(s, Printed) \in ScreenType /\ framebuffer_put(s, Typed) \in ScreenType
  BY <1>1, PutFacts
<1>3. QED
  BY <1>2, NewlineFacts DEF fputc

LEMMA InitTypes == ConsoleInit => TypeInv
<1> SUFFICES ASSUME ConsoleInit
             PROVE  TypeInv
  OBVIOUS
<1>1. KeyboardTypeOK
  BY DEF ConsoleInit, KeyboardInit, KeyboardTypeOK, Chars
<1>2. screen \in ScreenType
  BY SizeFacts DEF ConsoleInit, FramebufferInit, ScreenType, ClearedRow, Cells
<1>3. prompt_val \in Lines /\ prompt_size \in 0 .. MAX_PROMPT - 1 /\ char \in Chars
  BY ConsoleAssumption DEF ConsoleInit, NoLine, Lines, Chars
<1>4. mode \in Modes /\ intact \in BOOLEAN
  BY DEF ConsoleInit, Modes
<1>5. ups \in Nat /\ downs \in Nat /\ ups + downs <= ArrowBound
  BY ConsoleAssumption DEF ConsoleInit
<1>6. QED
  BY <1>1, <1>2, <1>3, <1>4, <1>5 DEF TypeInv

LEMMA StepTypes == TypeInv /\ [ConsoleNext]_consoleVars => TypeInv'
<1> SUFFICES ASSUME TypeInv, [ConsoleNext]_consoleVars
             PROVE  TypeInv'
  OBVIOUS
<1>1. CASE KeyboardInterrupt
  BY <1>1, KeyboardSteps
     DEF KeyboardInterrupt, KeysNow, Keys, TypeInv, Quiet, shell, arrows
<1>2. CASE PressUp
  <2>1. screen' \in ScreenType
    BY <1>2, ScrollUpFacts DEF PressUp, TypeInv
  <2>2. ups' \in Nat /\ downs' \in Nat /\ ups' + downs' <= ArrowBound
    BY <1>2, ConsoleAssumption DEF PressUp, ArrowMayCome, TypeInv
  <2>3. QED
    BY <1>2, <2>1, <2>2 DEF PressUp, TypeInv, KeyboardTypeOK, shell
<1>3. CASE PressDown
  <2>1. screen' \in ScreenType
    BY <1>3, ScrollDownFacts DEF PressDown, Show, TypeInv
  <2>2. ups' \in Nat /\ downs' \in Nat /\ ups' + downs' <= ArrowBound
    BY <1>3, ConsoleAssumption DEF PressDown, ArrowMayCome, TypeInv
  <2>3. QED
    BY <1>3, <2>1, <2>2 DEF PressDown, Show, TypeInv, KeyboardTypeOK, shell
<1>4. CASE ClockWrites
  <2>1. screen' \in ScreenType
    BY <1>4, WriteFacts, SizeFacts DEF ClockWrites, Show, TypeInv, Cells
  <2>2. QED
    BY <1>4, <2>1 DEF ClockWrites, Show, TypeInv, KeyboardTypeOK, shell, arrows
<1>5. CASE Activate
  BY <1>5, KeyboardSteps DEF Activate, TypeInv, Quiet, Modes, arrows
<1>6. CASE PrintPrompt
  <2>1. screen' \in ScreenType
    BY <1>6, PutType DEF PrintPrompt, TypeInv
  <2>2. intact' \in BOOLEAN
    BY <1>6 DEF PrintPrompt
  <2>3. QED
    BY <1>6, <2>1, <2>2 DEF PrintPrompt, TypeInv, KeyboardTypeOK, Modes, arrows
<1>7. CASE GetPrompt
  BY <1>7, KeyboardSteps DEF GetPrompt, TypeInv, Quiet, Modes, arrows
<1>8. CASE Erase
  <2>1. /\ screen' \in ScreenType /\ prompt_val' \in Lines
        /\ prompt_size' \in 0 .. MAX_PROMPT - 1 /\ intact' \in BOOLEAN
    <3>1. CASE prompt_size > 0
      <4>1. screen' \in ScreenType /\ intact' \in BOOLEAN
        BY <1>8, <3>1, DeleteFacts DEF Erase, Show, TypeInv
      <4>2. prompt_val' \in Lines /\ prompt_size' \in 0 .. MAX_PROMPT - 1
        BY <1>8, <3>1, ConsoleAssumption DEF Erase, TypeInv, Lines, Chars
      <4>3. QED
        BY <4>1, <4>2
    <3>2. CASE ~(prompt_size > 0)
      BY <1>8, <3>2 DEF Erase, Quiet, TypeInv
    <3>3. QED
      BY <3>1, <3>2
  <2>2. QED
    BY <1>8, <2>1 DEF Erase, TypeInv, KeyboardTypeOK, Modes, arrows, Chars
<1>9. CASE Echo
  <2>1. screen' \in ScreenType /\ intact' \in BOOLEAN
    BY <1>9, PutType DEF Echo, Show, TypeInv
  <2>2. /\ prompt_val' \in Lines /\ prompt_size' \in 0 .. MAX_PROMPT - 1
        /\ mode' \in Modes
    BY <1>9, ConsoleAssumption
       DEF Echo, IsOver, Terminated, TypeInv, Lines, Chars, Modes
  <2>3. QED
    BY <1>9, <2>1, <2>2 DEF Echo, TypeInv, KeyboardTypeOK, arrows, Chars
<1>10. CASE RunPrompt
  BY <1>10, ConsoleAssumption
     DEF RunPrompt, TypeInv, KeyboardTypeOK, NoLine, Lines, Chars, Modes, Quiet, arrows
<1>11. CASE CommandPrints
  <2>1. screen' \in ScreenType /\ intact' \in BOOLEAN
    BY <1>11, PutType, ClearFacts DEF CommandPrints, Show, TypeInv
  <2>2. QED
    BY <1>11, <2>1 DEF CommandPrints, TypeInv, KeyboardTypeOK, shell, arrows
<1>12. CASE CommandClears
  <2>1. screen' \in ScreenType /\ intact' \in BOOLEAN
    BY <1>12, ClearFacts DEF CommandClears, Show, TypeInv
  <2>2. QED
    BY <1>12, <2>1 DEF CommandClears, TypeInv, KeyboardTypeOK, Modes, arrows
<1>13. CASE UNCHANGED consoleVars
  BY <1>13 DEF consoleVars, shell, TypeInv, KeyboardTypeOK
<1>14. QED
  BY <1>1, <1>2, <1>3, <1>4, <1>5, <1>6, <1>7, <1>8, <1>9, <1>10, <1>11, <1>12, <1>13
     DEF ConsoleNext

LEMMA TypesAlways == ConsoleSpec => []TypeInv
BY InitTypes, StepTypes, PTL DEF ConsoleSpec

(* Keyboard, line and screen keep their types: in particular the cursor    *)
(* does not leave the screen (framebuffer.c counts it up and down without  *)
(* a check) and the line does not outgrow its array.                       *)
THEOREM ConsoleTypes == ConsoleSpec => []ConsoleTypeOK
BY TypesAlways, TypeInvGivesTypeOK, PTL

-----------------------------------------------------------------------------
(* The rows of the clock.  Without a Down key the cursor gets to the       *)
(* bottom row only at its first column, and text is scrolled before        *)
(* anything is written there.                                              *)

LowRows == BOTTOM .. CLOCK_ROW
OnlyTheClock(s) ==
  \A r \in LowRows, c \in Columns : s.cell[r][c] \in {Cleared, ClockCell}
AboveTheClock(s) ==
  /\ s.row <= BOTTOM /\ (s.row = BOTTOM => s.col = 0)
  /\ OnlyTheClock(s)

LEMMA LowRowFacts ==
  \A r \in LowRows : r \in Rows /\ r >= BOTTOM /\ r < BUFFER_HEIGHT - 1
                     /\ r <= CLOCK_ROW
BY SizeFacts DEF LowRows, Rows

LEMMA ScrolledIsAbove ==
  ASSUME NEW s \in ScreenType, AboveTheClock(s)
  PROVE  /\ OnlyTheClock(ScrolledAtBottom(s))
         /\ ScrolledAtBottom(s).row \in Rows /\ ScrolledAtBottom(s).row < BOTTOM
<1>1. s.row \in Nat
  BY ScreenParts DEF Rows
<1>2. CASE s.row = BOTTOM
  <2>1. ScrolledAtBottom(s).cell = framebuffer_scroll_up(s).cell
    BY <1>2, ScrolledFacts
  <2>2. \A r \in LowRows, c \in Columns : framebuffer_scroll_up(s).cell[r][c] = s.cell[r][c]
    <3> SUFFICES ASSUME NEW r \in LowRows, NEW c \in Columns
                 PROVE  framebuffer_scroll_up(s).cell[r][c] = s.cell[r][c]
      OBVIOUS
    <3>1. r \in Rows /\ ~(r < BOTTOM) /\ r # BUFFER_HEIGHT - 1
      BY LowRowFacts, SizeFacts DEF Rows
    <3>2. QED
      BY <3>1, ScrollUpFacts
  <2>3. ScrolledAtBottom(s).row = BOTTOM - 1
    BY <1>2, ScrolledFacts
  <2>4. QED
    BY <2>1, <2>2, <2>3, SizeFacts DEF AboveTheClock, OnlyTheClock, Rows
<1>3. CASE s.row # BOTTOM
  <2>1. ScrolledAtBottom(s) = s
    BY <1>3 DEF ScrolledAtBottom
  <2>2. s.row <= BOTTOM /\ BOTTOM \in Nat /\ OnlyTheClock(s)
    BY SizeFacts DEF AboveTheClock
  <2>3. s.row < BOTTOM
    BY <1>1, <1>3, <2>2
  <2>4. QED
    BY <2>1, <2>2, <2>3, ScreenParts
<1>4. QED
  BY <1>2, <1>3

LEMMA PutStaysAbove ==
  ASSUME NEW s \in ScreenType, NEW v \in Cells, AboveTheClock(s)
  PROVE  AboveTheClock(framebuffer_put(s, v))
<1> DEFINE t == ScrolledAtBottom(s)
           u == framebuffer_put(s, v)
<1>1. t \in ScreenType /\ OnlyTheClock(t) /\ t.row \in Rows /\ t.row < BOTTOM
      /\ t.col \in Columns
  BY ScrolledFacts, ScrolledIsAbove, ScreenParts
<1>2. /\ u.row = IF t.col + 1 = BUFFER_WIDTH THEN NextRow(t.row) ELSE t.row
      /\ u.col = IF t.col + 1 = BUFFER_WIDTH THEN 0 ELSE t.col + 1
      /\ \A q \in Rows, d \in Columns :
           <<q, d>> # <<t.row, t.col>> => u.cell[q][d] = t.cell[q][d]
  BY PutFacts
<1> HIDE DEF t, u
<1>3. NextRow(t.row) = t.row + 1
  BY <1>1, SizeFacts DEF NextRow, Rows
<1>4. u.row <= BOTTOM /\ (u.row = BOTTOM => u.col = 0)
  BY <1>1, <1>2, <1>3, SizeFacts DEF Rows
<1>5. OnlyTheClock(u)
  <2> SUFFICES ASSUME NEW r \in LowRows, NEW c \in Columns
               PROVE  u.cell[r][c] \in {Cleared, ClockCell}
    BY DEF OnlyTheClock
  <2>1. r \in Rows /\ r # t.row
    BY <1>1, LowRowFacts, SizeFacts DEF Rows
  <2>2. u.cell[r][c] = t.cell[r][c]
    BY <1>2, <2>1
  <2>3. QED
    BY <1>1, <2>2 DEF OnlyTheClock
<1>6. QED
  BY <1>4, <1>5 DEF AboveTheClock, u

LEMMA NewlineStaysAbove ==
  ASSUME NEW s \in ScreenType, AboveTheClock(s)
  PROVE  AboveTheClock(framebuffer_newline(s))
<1> DEFINE t == ScrolledAtBottom(s)
<1>1. OnlyTheClock(t) /\ t.row \in Rows /\ t.row < BOTTOM
  BY ScrolledIsAbove
<1>2. /\ framebuffer_newline(s).row = NextRow(t.row)
      /\ framebuffer_newline(s).col = 0
      /\ framebuffer_newline(s).cell = t.cell
  BY NewlineFacts
<1> HIDE DEF t
<1>3. NextRow(t.row) <= BOTTOM
  BY <1>1, SizeFacts DEF NextRow, Rows
<1>4. QED
  BY <1>1, <1>2, <1>3 DEF AboveTheClock, OnlyTheClock

LEMMA DeleteStaysAbove ==
  ASSUME NEW s \in ScreenType, AboveTheClock(s)
  PROVE  AboveTheClock(framebuffer_clear_delete(s))
<1> DEFINE u == framebuffer_clear_delete(s)
<1>1. s.row \in Nat /\ s.col \in Nat /\ s.row <= BOTTOM /\ (s.row = BOTTOM => s.col = 0)
  BY ScreenParts DEF Rows, Columns, AboveTheClock
<1>2. CASE s.row = 0 /\ s.col = 0
  BY <1>2, DeleteFacts
<1>3. CASE s.row > 0 \/ s.col > 0
  <2>1. /\ u.row = BackRow(s)
        /\ \A q \in Rows, d \in Columns :
             <<q, d>> # <<BackRow(s), BackColumn(s)>> => u.cell[q][d] = s.cell[q][d]
    BY <1>3, DeleteFacts
  <2> HIDE DEF u
  <2>2. BackRow(s) < BOTTOM
    BY <1>1, SizeFacts DEF BackRow
  <2>3. OnlyTheClock(u)
    <3> SUFFICES ASSUME NEW r \in LowRows, NEW c \in Columns
                 PROVE  u.cell[r][c] \in {Cleared, ClockCell}
      BY DEF OnlyTheClock
    <3>1. BackRow(s) \in Int
      BY <1>1 DEF BackRow
    <3>2. r \in Rows /\ r # BackRow(s)
      BY <2>2, <3>1, LowRowFacts, SizeFacts
    <3>3. u.cell[r][c] = s.cell[r][c]
      BY <2>1, <3>2
    <3>4. QED
      BY <3>3 DEF AboveTheClock, OnlyTheClock
  <2>4. u.row <= BOTTOM /\ u.row # BOTTOM
    BY <1>1, <2>1, <2>2, SizeFacts DEF BackRow
  <2>5. QED
    BY <2>3, <2>4 DEF AboveTheClock, u
<1>4. QED
  BY <1>1, <1>2, <1>3

LEMMA ScrollUpStaysAbove ==
  ASSUME NEW s \in ScreenType, AboveTheClock(s)
  PROVE  AboveTheClock(framebuffer_scroll_up(s))
<1> DEFINE u == framebuffer_scroll_up(s)
<1>1. /\ u.row = s.row /\ u.col = s.col
      /\ \A r \in Rows, c \in Columns :
           u.cell[r][c] = IF r < BOTTOM THEN s.cell[r + 1][c]
                          ELSE IF r = BUFFER_HEIGHT - 1 THEN Cleared ELSE s.cell[r][c]
  BY ScrollUpFacts
<1> HIDE DEF u
<1>2. \A r \in LowRows, c \in Columns : u.cell[r][c] = s.cell[r][c]
  <2> SUFFICES ASSUME NEW r \in LowRows, NEW c \in Columns
               PROVE  u.cell[r][c] = s.cell[r][c]
    OBVIOUS
  <2>1. r \in Rows /\ ~(r < BOTTOM) /\ r # BUFFER_HEIGHT - 1
    BY LowRowFacts, SizeFacts DEF Rows
  <2>2. QED
    BY <1>1, <2>1
<1>3. QED
  BY <1>1, <1>2 DEF AboveTheClock, OnlyTheClock, u

LEMMA ClockStaysAbove ==
  ASSUME NEW s \in ScreenType, AboveTheClock(s), NEW c \in CLOCK_COLUMNS
  PROVE  AboveTheClock(framebuffer_write(s, CLOCK_ROW, c, ClockCell))
<1> DEFINE u == framebuffer_write(s, CLOCK_ROW, c, ClockCell)
<1>1. /\ u.row = s.row /\ u.col = s.col
      /\ u.cell[CLOCK_ROW][c] = ClockCell
      /\ \A q \in Rows, d \in Columns :
           <<q, d>> # <<CLOCK_ROW, c>> => u.cell[q][d] = s.cell[q][d]
  <2>1. CLOCK_ROW \in Rows /\ c \in Columns /\ ClockCell \in Cells
    BY SizeFacts DEF Cells
  <2>2. QED
    BY <2>1, WriteFacts
<1> HIDE DEF u
<1>2. OnlyTheClock(u)
  <2> SUFFICES ASSUME NEW r \in LowRows, NEW d \in Columns
               PROVE  u.cell[r][d] \in {Cleared, ClockCell}
    BY DEF OnlyTheClock
  <2>1. CASE <<r, d>> = <<CLOCK_ROW, c>>
    BY <1>1, <2>1
  <2>2. CASE <<r, d>> # <<CLOCK_ROW, c>>
    BY <1>1, <2>2, LowRowFacts DEF AboveTheClock, OnlyTheClock
  <2>3. QED
    BY <2>1, <2>2
<1>3. QED
  BY <1>1, <1>2 DEF AboveTheClock, u

LEMMA ProductsAreOrdered ==
  ASSUME NEW a \in Nat, NEW b \in Nat, NEW w \in Nat, a <= b
  PROVE  a * w <= b * w
OBVIOUS

(* Clearing reaches the clock's row, although it counts bytes as cells.    *)
LEMMA ClearStaysAbove ==
  ASSUME NEW s \in ScreenType
  PROVE  AboveTheClock(framebuffer_clear(s))
<1> DEFINE u == framebuffer_clear(s)
<1>1. u.row = 0 /\ u.col = 0
  BY ClearFacts
<1>2. \A r \in LowRows, c \in Columns : u.cell[r][c] = Cleared
  <2> SUFFICES ASSUME NEW r \in LowRows, NEW c \in Columns
               PROVE  u.cell[r][c] = Cleared
    OBVIOUS
  <2>1. r \in Nat /\ r \in Rows /\ r <= CLOCK_ROW /\ CLOCK_ROW \in Nat
        /\ BUFFER_WIDTH \in Nat /\ c \in Int /\ c < BUFFER_WIDTH
    BY LowRowFacts, SizeFacts DEF Rows, Columns
  <2>2. r * BUFFER_WIDTH <= CLOCK_ROW * BUFFER_WIDTH
    BY <2>1, ProductsAreOrdered
  <2>3. (CLOCK_ROW + 1) * BUFFER_WIDTH = CLOCK_ROW * BUFFER_WIDTH + BUFFER_WIDTH
        /\ CLOCK_ROW * BUFFER_WIDTH \in Int /\ r * BUFFER_WIDTH \in Int
    BY <2>1
  <2>4. ClearedCells \in Int
    BY SizeFacts DEF ClearedCells
  <2>5. r * BUFFER_WIDTH + c < ClearedCells
    BY <2>1, <2>2, <2>3, <2>4, FramebufferAssumption
  <2>6. QED
    BY <2>1, <2>5, ClearFacts
<1> HIDE DEF u
<1>3. QED
  BY <1>1, <1>2, SizeFacts DEF AboveTheClock, OnlyTheClock, u

LEMMA FputcStaysAbove ==
  ASSUME NEW s \in ScreenType, AboveTheClock(s), NEW c \in {Newline, Typed, Printed}
  PROVE  AboveTheClock(fputc(s, c))
BY NewlineStaysAbove, PutStaysAbove DEF fputc, Cells

UpperInv == downs = 0 => AboveTheClock(screen)

LEMMA InitUpper == ConsoleInit => UpperInv
BY SizeFacts, LowRowFacts
   DEF ConsoleInit, FramebufferInit, UpperInv, AboveTheClock, OnlyTheClock, ClearedRow

LEMMA StepUpper == TypeInv /\ UpperInv /\ [ConsoleNext]_consoleVars => UpperInv'
<1> SUFFICES ASSUME TypeInv, UpperInv, [ConsoleNext]_consoleVars, downs' = 0
             PROVE  AboveTheClock(screen')
  BY DEF UpperInv
<1>1. screen \in ScreenType
  BY DEF TypeInv
<1>2. CASE PressDown
  <2>1. downs \in Nat /\ downs' = downs + 1
    BY <1>2 DEF PressDown, TypeInv
  <2>2. QED
    BY <2>1
<1>3. ASSUME ~PressDown
      PROVE  downs = 0
  BY <1>3 DEF ConsoleNext, KeyboardInterrupt, PressUp, ClockWrites, Activate,
     PrintPrompt, GetPrompt, Erase, Echo, RunPrompt, CommandPrints, CommandClears,
     consoleVars, arrows
<1>4. ASSUME downs = 0
      PROVE  AboveTheClock(screen)
  BY <1>4 DEF UpperInv
<1>5. CASE screen' = screen
  BY <1>2, <1>3, <1>4, <1>5
<1>6. CASE PressUp
  BY <1>1, <1>4, <1>6, ScrollUpStaysAbove DEF PressUp
<1>7. CASE ClockWrites
  BY <1>1, <1>4, <1>7, ClockStaysAbove DEF ClockWrites, Show, arrows
<1>8. CASE PrintPrompt
  <2>1. Printed \in Cells /\ downs = 0
    BY <1>8 DEF Cells, PrintPrompt, arrows
  <2>2. QED
    BY <1>1, <1>4, <1>8, <2>1, PutStaysAbove DEF PrintPrompt
<1>9. CASE Erase
  BY <1>1, <1>4, <1>5, <1>9, DeleteStaysAbove DEF Erase, Show, Quiet, arrows
<1>10. CASE Echo
  <2>1. screen' = fputc(screen, Newline) \/ screen' = fputc(screen, Typed)
    BY <1>10 DEF Echo, Show
  <2>2. QED
    BY <1>1, <1>4, <1>10, <2>1, FputcStaysAbove DEF Echo, arrows
<1>11. CASE CommandPrints
  BY <1>1, <1>4, <1>11, FputcStaysAbove, ClearStaysAbove DEF CommandPrints, Show, arrows
<1>12. CASE CommandClears
  BY <1>1, <1>4, <1>12, ClearStaysAbove DEF CommandClears, Show
<1>13. CASE KeyboardInterrupt \/ Activate \/ GetPrompt \/ RunPrompt \/ UNCHANGED consoleVars
  BY <1>5, <1>13 DEF KeyboardInterrupt, Activate, GetPrompt, RunPrompt, Quiet, consoleVars
<1>14. QED
  BY <1>2, <1>6, <1>7, <1>8, <1>9, <1>10, <1>11, <1>12, <1>13 DEF ConsoleNext

(* Text never gets into the clock's rows, whatever is typed, printed,      *)
(* erased or scrolled up, for as long as nobody pressed Down.              *)
THEOREM TextAboveTheClock == ConsoleSpec => []TextStaysAboveTheClock
<1>1. UpperInv => TextStaysAboveTheClock
  BY DEF UpperInv, AboveTheClock, OnlyTheClock, LowRows, TextStaysAboveTheClock
<1>2. ConsoleSpec => []UpperInv
  BY InitUpper, StepUpper, TypesAlways, PTL DEF ConsoleSpec
<1>3. QED
  BY <1>1, <1>2, PTL

-----------------------------------------------------------------------------
(* Places: the cells of the screen counted through, row by row, as the     *)
(* line runs over them.                                                    *)

Place(s) == s.row * BUFFER_WIDTH + s.col
CellAt(s, p) == s.cell[p \div BUFFER_WIDTH][p % BUFFER_WIDTH]

LEMMA DivisionGivesBack ==
  ASSUME NEW p \in Int, NEW w \in Int, w > 0,
         NEW q \in Int, q = p \div w, NEW d \in Int, d = p % w
  PROVE  p = q * w + d
OBVIOUS

LEMMA PlaceIsUnique ==
  ASSUME NEW r \in Nat, NEW c \in Columns
  PROVE  /\ (r * BUFFER_WIDTH + c) \div BUFFER_WIDTH = r
         /\ (r * BUFFER_WIDTH + c) % BUFFER_WIDTH = c
<1>1. BUFFER_WIDTH \in Nat \ {0} /\ c \in 0 .. BUFFER_WIDTH - 1
  BY SizeFacts DEF Columns
<1>2. QED
  BY <1>1

LEMMA CellAtPlace ==
  ASSUME NEW s, NEW r \in Nat, NEW c \in Columns
  PROVE  CellAt(s, r * BUFFER_WIDTH + c) = s.cell[r][c]
BY PlaceIsUnique DEF CellAt

LEMMA PlaceType ==
  ASSUME NEW s \in ScreenType
  PROVE  /\ s.row \in Nat /\ s.col \in Nat /\ s.col < BUFFER_WIDTH
         /\ s.row * BUFFER_WIDTH \in Nat /\ Place(s) \in Nat
<1>1. s.row \in Nat /\ s.col \in Nat /\ s.col < BUFFER_WIDTH
  BY ScreenParts, SizeFacts DEF Rows, Columns
<1>2. s.row * BUFFER_WIDTH \in Nat
  BY <1>1, SizeFacts
<1>3. QED
  BY <1>1, <1>2 DEF Place

(* A place before the cursor is a cell in its row or in one above it.      *)
LEMMA PlaceBefore ==
  ASSUME NEW s \in ScreenType, NEW p \in Nat, p < Place(s)
  PROVE  /\ p \div BUFFER_WIDTH \in Rows /\ p \div BUFFER_WIDTH \in Nat
         /\ p % BUFFER_WIDTH \in Columns
         /\ p \div BUFFER_WIDTH <= s.row
         /\ p = (p \div BUFFER_WIDTH) * BUFFER_WIDTH + (p % BUFFER_WIDTH)
         /\ <<p \div BUFFER_WIDTH, p % BUFFER_WIDTH>> # <<s.row, s.col>>
<1> DEFINE q == p \div BUFFER_WIDTH
           d == p % BUFFER_WIDTH
<1>1. BUFFER_WIDTH \in Nat \ {0}
  BY SizeFacts
<1>2. q \in Int /\ d \in 0 .. BUFFER_WIDTH - 1
  BY <1>1
<1>3. q \in Nat
  BY <1>1
<1>4. p = q * BUFFER_WIDTH + d
  <2>1. BUFFER_WIDTH \in Int /\ BUFFER_WIDTH > 0 /\ d \in Int /\ p \in Int
    BY <1>1, <1>2
  <2>2. QED
    BY <1>2, <2>1, DivisionGivesBack
<1> HIDE DEF q, d
<1>5. q <= s.row
  <2> SUFFICES ASSUME q > s.row
               PROVE  FALSE
    BY <1>3, PlaceType
  <2>1. s.row \in Nat /\ s.row + 1 <= q /\ s.row * BUFFER_WIDTH \in Nat
        /\ s.col \in Nat /\ s.col < BUFFER_WIDTH
    BY <1>3, PlaceType
  <2>2. (s.row + 1) * BUFFER_WIDTH <= q * BUFFER_WIDTH
    BY <1>1, <1>3, <2>1, ProductsAreOrdered
  <2>3. (s.row + 1) * BUFFER_WIDTH = s.row * BUFFER_WIDTH + BUFFER_WIDTH
    BY <1>1, <2>1
  <2>4. q * BUFFER_WIDTH \in Nat
    BY <1>1, <1>3
  <2>5. QED
    BY <1>1, <1>2, <1>4, <2>1, <2>2, <2>3, <2>4 DEF Place
<1>6. q \in Rows /\ d \in Columns
  <2>1. s.row \in 0 .. BUFFER_HEIGHT - 1 /\ BUFFER_HEIGHT \in Nat
    BY ScreenParts, SizeFacts DEF Rows
  <2>2. q \in 0 .. BUFFER_HEIGHT - 1
    BY <1>3, <1>5, <2>1
  <2>3. QED
    BY <1>2, <2>2 DEF Rows, Columns
<1>7. <<q, d>> # <<s.row, s.col>>
  <2>1. ASSUME q = s.row, d = s.col
        PROVE  FALSE
    BY <1>4, <2>1, PlaceType DEF Place
  <2>2. QED
    BY <2>1
<1>8. QED
  BY <1>3, <1>4, <1>5, <1>6, <1>7 DEF q, d

(* One row further.                                                        *)
LEMMA NextRowPlace ==
  ASSUME NEW r \in Nat, NEW c \in Columns
  PROVE  (r + 1) * BUFFER_WIDTH + c = (r * BUFFER_WIDTH + c) + BUFFER_WIDTH
<1>1. BUFFER_WIDTH \in Nat /\ c \in Nat
  BY SizeFacts DEF Columns
<1>2. r * BUFFER_WIDTH \in Nat /\ (r + 1) * BUFFER_WIDTH = r * BUFFER_WIDTH + BUFFER_WIDTH
  BY <1>1
<1>3. QED
  BY <1>1, <1>2

-----------------------------------------------------------------------------
(* The line on the screen: n characters before the cursor, and before them *)
(* the prompt.                                                             *)

Echoed(s, n) ==
  /\ s.row <= BOTTOM /\ n < Place(s)
  /\ \A k \in 1 .. n : CellAt(s, Place(s) - k) = Typed
  /\ CellAt(s, Place(s) - (n + 1)) = Printed

LEMMA EchoedIsExact ==
  ASSUME screen \in ScreenType, NEW n \in Nat, Echoed(screen, n)
  PROVE  /\ n < screen.row * BUFFER_WIDTH + screen.col
         /\ \A k \in 1 .. n : CellBack(k) = Typed
         /\ CellBack(n + 1) = Printed
<1>1. \A k \in Nat : CellBack(k) = CellAt(screen, Place(screen) - k)
  <2> SUFFICES ASSUME NEW k \in Nat
               PROVE  CellBack(k) = CellAt(screen, Place(screen) - k)
    OBVIOUS
  <2>1. CellBack(k) = CellAt(screen, screen.row * BUFFER_WIDTH + screen.col - k)
    BY Zenon DEF CellBack, CellAt
  <2>2. screen.row * BUFFER_WIDTH + screen.col - k = Place(screen) - k
    BY PlaceType DEF Place
  <2>3. QED
    BY <2>1, <2>2, Zenon
<1>2. QED
  BY <1>1 DEF Echoed, Place

(* A screen whose cells are those of another, moved by so many places.     *)
LEMMA EchoedMoves ==
  ASSUME NEW s \in ScreenType, NEW t \in ScreenType, NEW by \in Int, NEW n \in Nat,
         Echoed(s, n), Place(t) = Place(s) + by, t.row <= BOTTOM, n < Place(t),
         \A p \in Nat : p < Place(t) /\ p - by >= 0 => CellAt(t, p) = CellAt(s, p - by)
  PROVE  Echoed(t, n)
<1>1. Place(s) \in Nat /\ Place(t) \in Nat
  BY PlaceType
<1>2. ASSUME NEW k \in 1 .. n + 1
      PROVE  CellAt(t, Place(t) - k) = CellAt(s, Place(s) - k)
  <2>1. /\ Place(t) - k \in Nat /\ Place(t) - k < Place(t)
        /\ (Place(t) - k) - by = Place(s) - k /\ Place(s) - k >= 0
    BY <1>1 DEF Echoed
  <2>2. QED
    BY <2>1
<1>3. \A k \in 1 .. n : CellAt(t, Place(t) - k) = Typed
  <2> SUFFICES ASSUME NEW k \in 1 .. n
               PROVE  CellAt(t, Place(t) - k) = Typed
    OBVIOUS
  <2>1. k \in 1 .. n + 1
    OBVIOUS
  <2>2. QED
    BY <1>2, <2>1 DEF Echoed
<1>4. CellAt(t, Place(t) - (n + 1)) = Printed
  <2>1. n + 1 \in 1 .. n + 1
    OBVIOUS
  <2>2. QED
    BY <1>2, <2>1 DEF Echoed
<1>5. QED
  BY <1>3, <1>4 DEF Echoed

(* Scrolling takes line and cursor up together; the prompt stays on the    *)
(* screen because the line is not full yet.                                *)
LEMMA ScrolledKeepsEcho ==
  ASSUME NEW s \in ScreenType, NEW n \in Nat, Echoed(s, n), n + 1 < MAX_PROMPT
  PROVE  Echoed(ScrolledAtBottom(s), n) /\ ScrolledAtBottom(s).row < BOTTOM
<1> DEFINE t == ScrolledAtBottom(s)
<1>1. CASE s.row # BOTTOM
  <2>1. t = s
    BY <1>1 DEF ScrolledAtBottom
  <2>2. s.row <= BOTTOM /\ BOTTOM \in Nat /\ s.row \in Nat
    BY PlaceType, SizeFacts DEF Echoed
  <2>3. s.row < BOTTOM
    BY <1>1, <2>2
  <2>4. QED
    BY <2>1, <2>3
<1>2. CASE s.row = BOTTOM
  <2>1. /\ t \in ScreenType /\ t.row = BOTTOM - 1 /\ t.col = s.col
        /\ t.cell = framebuffer_scroll_up(s).cell
    BY <1>2, ScrolledFacts
  <2> HIDE DEF t
  <2>2. BOTTOM \in Nat /\ BOTTOM - 1 \in Nat /\ BUFFER_WIDTH \in Nat
    BY SizeFacts
  <2>3. s.col \in Columns
    BY ScreenParts
  <2>4. Place(s) = Place(t) + BUFFER_WIDTH
    <3>1. (BOTTOM - 1) + 1 = BOTTOM
      BY <2>2
    <3>2. ((BOTTOM - 1) + 1) * BUFFER_WIDTH + s.col
            = ((BOTTOM - 1) * BUFFER_WIDTH + s.col) + BUFFER_WIDTH
      BY <2>2, <2>3, NextRowPlace
    <3>3. Place(s) = BOTTOM * BUFFER_WIDTH + s.col
          /\ Place(t) = (BOTTOM - 1) * BUFFER_WIDTH + s.col
      BY <1>2, <2>1 DEF Place
    <3>4. QED
      BY <3>1, <3>2, <3>3
  <2>5. n < Place(t)
    <3>1. (BOTTOM - 1) * BUFFER_WIDTH \in Nat /\ s.col \in Nat
      BY <2>2, PlaceType
    <3>2. n + 1 < (BOTTOM - 1) * BUFFER_WIDTH + 1
      BY <3>1, ConsoleAssumption
    <3>3. QED
      BY <2>1, <3>1, <3>2 DEF Place
  <2>6. ASSUME NEW p \in Nat, p < Place(t)
        PROVE  CellAt(t, p) = CellAt(s, p + BUFFER_WIDTH)
    <3> DEFINE q == p \div BUFFER_WIDTH
               d == p % BUFFER_WIDTH
    <3>1. /\ q \in Rows /\ q \in Nat /\ d \in Columns /\ q <= BOTTOM - 1
          /\ p = q * BUFFER_WIDTH + d
      BY <2>1, <2>6, PlaceBefore
    <3>2. CellAt(t, p) = t.cell[q][d]
      BY DEF CellAt
    <3> HIDE DEF q, d
    <3>3. q < BOTTOM
      BY <2>2, <3>1
    <3>4. t.cell[q][d] = s.cell[q + 1][d]
      BY <2>1, <3>1, <3>3, ScrollUpFacts
    <3>5. p + BUFFER_WIDTH = (q + 1) * BUFFER_WIDTH + d
      BY <3>1, NextRowPlace
    <3>6. q + 1 \in Nat
      BY <3>1
    <3>7. CellAt(s, (q + 1) * BUFFER_WIDTH + d) = s.cell[q + 1][d]
      BY <3>1, <3>6, CellAtPlace
    <3>8. QED
      BY <3>2, <3>4, <3>5, <3>7
  <2>7. Echoed(t, n)
    <3> DEFINE by == 0 - BUFFER_WIDTH
    <3>1. by \in Int /\ Place(t) = Place(s) + by /\ t.row <= BOTTOM
          /\ \A p \in Nat : p - by = p + BUFFER_WIDTH
      BY <2>1, <2>2, <2>4, PlaceType
    <3>2. \A p \in Nat : p < Place(t) /\ p - by >= 0 => CellAt(t, p) = CellAt(s, p - by)
      BY <2>6, <3>1
    <3> HIDE DEF by
    <3>3. QED
      BY <2>1, <2>5, <3>1, <3>2, EchoedMoves
  <2>8. QED
    BY <2>1, <2>2, <2>7 DEF t
<1>3. QED
  BY <1>1, <1>2

(* A character goes to the cursor's place and the cursor to the next one,  *)
(* over the end of the row.                                                *)
LEMMA PutPlaces ==
  ASSUME NEW s \in ScreenType, NEW v \in Cells, ScrolledAtBottom(s).row < BOTTOM
  PROVE  /\ framebuffer_put(s, v).row <= BOTTOM
         /\ Place(framebuffer_put(s, v)) = Place(ScrolledAtBottom(s)) + 1
         /\ CellAt(framebuffer_put(s, v), Place(ScrolledAtBottom(s))) = v
         /\ \A p \in Nat : p < Place(ScrolledAtBottom(s)) =>
              CellAt(framebuffer_put(s, v), p) = CellAt(ScrolledAtBottom(s), p)
<1> DEFINE t == ScrolledAtBottom(s)
           u == framebuffer_put(s, v)
<1>1. t \in ScreenType /\ t.row < BOTTOM
  BY ScrolledFacts
<1>2. /\ u.row = IF t.col + 1 = BUFFER_WIDTH THEN NextRow(t.row) ELSE t.row
      /\ u.col = IF t.col + 1 = BUFFER_WIDTH THEN 0 ELSE t.col + 1
      /\ u.cell[t.row][t.col] = v
      /\ \A q \in Rows, d \in Columns :
           <<q, d>> # <<t.row, t.col>> => u.cell[q][d] = t.cell[q][d]
  BY PutFacts
<1> HIDE DEF t, u
<1>3. t.row \in Nat /\ t.col \in Columns /\ t.col \in Nat /\ BUFFER_WIDTH \in Nat
      /\ t.row * BUFFER_WIDTH \in Nat /\ BOTTOM \in Nat
  BY <1>1, PlaceType, ScreenParts, SizeFacts
<1>4. NextRow(t.row) = t.row + 1
  BY <1>1, <1>3, SizeFacts DEF NextRow
<1>5. u.row <= BOTTOM
  BY <1>1, <1>2, <1>3, <1>4
<1>6. Place(u) = Place(t) + 1
  <2>1. CASE t.col + 1 = BUFFER_WIDTH
    <3>1. (t.row + 1) * BUFFER_WIDTH = t.row * BUFFER_WIDTH + BUFFER_WIDTH
      BY <1>3
    <3>2. QED
      BY <1>2, <1>3, <1>4, <2>1, <3>1 DEF Place
  <2>2. CASE t.col + 1 # BUFFER_WIDTH
    BY <1>2, <1>3, <2>2 DEF Place
  <2>3. QED
    BY <2>1, <2>2
<1>7. CellAt(u, Place(t)) = v
  BY <1>2, <1>3, CellAtPlace DEF Place
<1>8. \A p \in Nat : p < Place(t) => CellAt(u, p) = CellAt(t, p)
  BY <1>1, <1>2, PlaceBefore DEF CellAt
<1>9. QED
  BY <1>5, <1>6, <1>7, <1>8 DEF t, u

(* A character more, echoed.                                               *)
LEMMA PutIsEchoed ==
  ASSUME NEW s \in ScreenType, NEW n \in Nat, Echoed(s, n), n + 1 < MAX_PROMPT
  PROVE  Echoed(framebuffer_put(s, Typed), n + 1)
<1> DEFINE t == ScrolledAtBottom(s)
           u == framebuffer_put(s, Typed)
<1>1. t \in ScreenType /\ Echoed(t, n) /\ t.row < BOTTOM /\ Place(t) \in Nat
  BY ScrolledFacts, ScrolledKeepsEcho, PlaceType
<1>2. /\ u.row <= BOTTOM
      /\ Place(u) = Place(t) + 1
      /\ CellAt(u, Place(t)) = Typed
      /\ \A p \in Nat : p < Place(t) => CellAt(u, p) = CellAt(t, p)
  BY <1>1, PutPlaces DEF Cells
<1> HIDE DEF t, u
<1>3. n < Place(t)
  BY <1>1 DEF Echoed
<1>4. ASSUME NEW k \in 2 .. n + 2
      PROVE  CellAt(u, Place(u) - k) = CellAt(t, Place(t) - (k - 1))
  <2>1. /\ Place(t) - (k - 1) \in Nat /\ Place(t) - (k - 1) < Place(t)
        /\ Place(u) - k = Place(t) - (k - 1)
    BY <1>1, <1>2, <1>3
  <2>2. QED
    BY <1>2, <2>1
<1>5. \A k \in 1 .. n + 1 : CellAt(u, Place(u) - k) = Typed
  <2> SUFFICES ASSUME NEW k \in 1 .. n + 1
               PROVE  CellAt(u, Place(u) - k) = Typed
    OBVIOUS
  <2>1. CASE k = 1
    <3>1. Place(u) - k = Place(t)
      BY <1>1, <1>2, <2>1
    <3>2. QED
      BY <1>2, <3>1
  <2>2. CASE k # 1
    <3>1. k \in 2 .. n + 2 /\ k - 1 \in 1 .. n
      BY <2>2
    <3>2. CellAt(t, Place(t) - (k - 1)) = Typed
      BY <1>1, <3>1 DEF Echoed
    <3>3. QED
      BY <1>4, <3>1, <3>2
  <2>3. QED
    BY <2>1, <2>2
<1>6. CellAt(u, Place(u) - ((n + 1) + 1)) = Printed
  <2>1. (n + 1) + 1 \in 2 .. n + 2 /\ ((n + 1) + 1) - 1 = n + 1
    OBVIOUS
  <2>2. CellAt(t, Place(t) - (n + 1)) = Printed
    BY <1>1 DEF Echoed
  <2>3. QED
    BY <1>4, <2>1, <2>2
<1>7. n + 1 < Place(u)
  BY <1>1, <1>2, <1>3
<1>8. QED
  BY <1>2, <1>5, <1>6, <1>7 DEF Echoed, u

(* The prompt: nothing is typed yet.                                       *)
LEMMA PromptIsEchoed ==
  ASSUME NEW s \in ScreenType, s.row <= BOTTOM
  PROVE  Echoed(framebuffer_put(s, Printed), 0)
<1> DEFINE t == ScrolledAtBottom(s)
           u == framebuffer_put(s, Printed)
<1>1. s.row \in Nat /\ BOTTOM \in Nat
  BY PlaceType, SizeFacts
<1>2. t \in ScreenType /\ t.row = IF s.row = BOTTOM THEN BOTTOM - 1 ELSE s.row
  BY ScrolledFacts
<1>3. t.row < BOTTOM /\ Place(t) \in Nat
  BY <1>1, <1>2, PlaceType
<1>4. u.row <= BOTTOM /\ Place(u) = Place(t) + 1 /\ CellAt(u, Place(t)) = Printed
  BY <1>3, PutPlaces DEF Cells
<1> HIDE DEF t, u
<1>5. 0 < Place(u) /\ Place(u) - (0 + 1) = Place(t)
  BY <1>3, <1>4
<1>6. QED
  BY <1>4, <1>5 DEF Echoed, u

(* The last character of a line is where framebuffer_clear_delete goes     *)
(* back to, at the start of a row too: the row before ends with it.        *)
LEMMA BackOnePlace ==
  ASSUME NEW s \in ScreenType, NEW n \in Nat, Echoed(s, n), n > 0
  PROVE  /\ s.row > 0 \/ s.col > 0
         /\ BackRow(s) \in Nat /\ BackRow(s) <= BOTTOM /\ BackColumn(s) \in Columns
         /\ BackRow(s) * BUFFER_WIDTH + BackColumn(s) = Place(s) - 1
<1>1. /\ s.row \in Nat /\ s.row <= BOTTOM /\ BOTTOM \in Nat
      /\ s.col \in Nat /\ s.col < BUFFER_WIDTH /\ BUFFER_WIDTH \in Nat \ {0}
      /\ s.row * BUFFER_WIDTH \in Nat /\ Place(s) \in Nat
      /\ Place(s) = s.row * BUFFER_WIDTH + s.col
  BY PlaceType, SizeFacts DEF Echoed, Place
<1>2. CASE s.col > 0
  <2>1. BackRow(s) = s.row /\ BackColumn(s) = s.col - 1
    BY <1>2 DEF BackRow, BackColumn
  <2>2. QED
    BY <1>1, <1>2, <2>1 DEF Columns
<1>3. CASE s.col = 0
  <2>1. s.row > 0
    <3>1. CASE s.row = 0
      <4>1. s.row * BUFFER_WIDTH = 0
        BY <1>1, <3>1
      <4>2. Place(s) = 0
        BY <1>1, <1>3, <4>1
      <4>3. QED
        BY <4>2 DEF Echoed
    <3>2. QED
      BY <1>1, <3>1
  <2>2. PICK r \in Nat : r = s.row - 1
    BY <1>1, <2>1
  <2>3. r \in Rows /\ BUFFER_WIDTH - 1 \in Columns
    BY <1>1, <2>1, <2>2, SizeFacts DEF Rows, Columns
  <2>4. r * BUFFER_WIDTH + (BUFFER_WIDTH - 1) = Place(s) - 1
    <3>1. r + 1 = s.row
      BY <1>1, <2>2
    <3>2. (r + 1) * BUFFER_WIDTH = r * BUFFER_WIDTH + BUFFER_WIDTH
          /\ r * BUFFER_WIDTH \in Nat
      BY <1>1
    <3>3. s.row * BUFFER_WIDTH = r * BUFFER_WIDTH + BUFFER_WIDTH
      BY <3>1, <3>2
    <3>4. QED
      BY <1>1, <1>3, <3>2, <3>3
  <2>5. s.cell[r][BUFFER_WIDTH - 1] = Typed
    <3>1. CellAt(s, Place(s) - 1) = Typed
      BY DEF Echoed
    <3>2. QED
      BY <2>3, <2>4, <3>1, CellAtPlace
  <2>6. LastColumn(s, r) = BUFFER_WIDTH - 1
    <3>1. LastColumn(s, r) \in 0 .. BUFFER_WIDTH - 1
          /\ BUFFER_WIDTH - 1 <= LastColumn(s, r)
      BY <2>3, <2>5, LastColumnFacts, SizeFacts DEF Columns
    <3>2. QED
      BY <1>1, <3>1
  <2>7. BackRow(s) = r /\ BackColumn(s) = BUFFER_WIDTH - 1
    BY <1>3, <2>2, <2>6 DEF BackRow, BackColumn
  <2>8. r <= BOTTOM
    BY <1>1, <2>2
  <2>9. QED
    BY <2>1, <2>3, <2>4, <2>7, <2>8
<1>4. QED
  BY <1>1, <1>2, <1>3

LEMMA DeleteIsEchoed ==
  ASSUME NEW s \in ScreenType, NEW n \in Nat, Echoed(s, n), n > 0
  PROVE  Echoed(framebuffer_clear_delete(s), n - 1)
<1> DEFINE u == framebuffer_clear_delete(s)
<1>1. /\ BackRow(s) \in Nat /\ BackRow(s) <= BOTTOM /\ BackColumn(s) \in Columns
      /\ BackRow(s) * BUFFER_WIDTH + BackColumn(s) = Place(s) - 1
  BY BackOnePlace
<1>2. /\ u \in ScreenType /\ u.row = BackRow(s) /\ u.col = BackColumn(s)
      /\ \A q \in Rows, d \in Columns :
           <<q, d>> # <<BackRow(s), BackColumn(s)>> => u.cell[q][d] = s.cell[q][d]
  BY BackOnePlace, DeleteFacts
<1> HIDE DEF u
<1>3. Place(u) = Place(s) - 1 /\ Place(s) \in Nat /\ Place(u) \in Nat
  BY <1>1, <1>2, PlaceType DEF Place
<1>4. ASSUME NEW p \in Nat, p < Place(u)
      PROVE  CellAt(u, p) = CellAt(s, p)
  BY <1>2, <1>4, PlaceBefore DEF CellAt
<1>5. n < Place(s)
  BY DEF Echoed
<1>6. ASSUME NEW k \in 1 .. n
      PROVE  CellAt(u, Place(u) - k) = CellAt(s, Place(s) - (k + 1))
  <2>1. /\ Place(u) - k \in Nat /\ Place(u) - k < Place(u)
        /\ Place(u) - k = Place(s) - (k + 1)
    BY <1>3, <1>5
  <2>2. QED
    BY <1>4, <2>1
<1>7. \A k \in 1 .. n - 1 : CellAt(u, Place(u) - k) = Typed
  <2> SUFFICES ASSUME NEW k \in 1 .. n - 1
               PROVE  CellAt(u, Place(u) - k) = Typed
    OBVIOUS
  <2>1. k \in 1 .. n /\ k + 1 \in 1 .. n
    OBVIOUS
  <2>2. CellAt(s, Place(s) - (k + 1)) = Typed
    BY <2>1 DEF Echoed
  <2>3. QED
    BY <1>6, <2>1, <2>2
<1>8. CellAt(u, Place(u) - ((n - 1) + 1)) = Printed
  <2>1. n \in 1 .. n /\ (n - 1) + 1 = n
    OBVIOUS
  <2>2. CellAt(s, Place(s) - (n + 1)) = Printed
    BY DEF Echoed
  <2>3. QED
    BY <1>6, <2>1, <2>2
<1>9. n - 1 < Place(u)
  BY <1>3, <1>5
<1>10. QED
  BY <1>1, <1>2, <1>7, <1>8, <1>9 DEF Echoed, u

LEMMA ScrollDownKeepsEcho ==
  ASSUME NEW s \in ScreenType, NEW n \in Nat, Echoed(s, n),
         framebuffer_scroll_down(s).row <= BOTTOM
  PROVE  Echoed(framebuffer_scroll_down(s), n)
<1> DEFINE u == framebuffer_scroll_down(s)
<1>1. s.row \in Nat /\ s.row <= BOTTOM /\ BOTTOM \in Nat /\ BOTTOM < BUFFER_HEIGHT - 1
      /\ BUFFER_HEIGHT \in Nat /\ s.col \in Columns /\ BUFFER_WIDTH \in Nat
  BY PlaceType, ScreenParts, SizeFacts DEF Echoed
<1>2. s.row # BUFFER_HEIGHT - 1
  BY <1>1
<1>3. /\ u \in ScreenType /\ u.row = s.row + 1 /\ u.col = s.col
      /\ \A r \in Rows, c \in Columns :
           u.cell[r][c] = IF r = 0 THEN Cleared ELSE s.cell[r - 1][c]
  BY <1>2, ScrollDownFacts
<1> HIDE DEF u
<1>4. Place(u) = Place(s) + BUFFER_WIDTH
  BY <1>1, <1>3, NextRowPlace DEF Place
<1>5. ASSUME NEW p \in Nat, p < Place(u), p - BUFFER_WIDTH >= 0
      PROVE  CellAt(u, p) = CellAt(s, p - BUFFER_WIDTH)
  <2> DEFINE q == p \div BUFFER_WIDTH
             d == p % BUFFER_WIDTH
  <2>1. /\ q \in Rows /\ q \in Nat /\ d \in Columns
        /\ p = q * BUFFER_WIDTH + d
    BY <1>3, <1>5, PlaceBefore
  <2>2. CellAt(u, p) = u.cell[q][d]
    BY DEF CellAt
  <2> HIDE DEF q, d
  <2>3. q # 0
    <3>1. CASE q = 0
      <4>1. q * BUFFER_WIDTH = 0 /\ d \in Nat /\ d < BUFFER_WIDTH
        BY <1>1, <2>1, <3>1, SizeFacts
      <4>2. QED
        BY <1>1, <1>5, <2>1, <4>1
    <3>2. QED
      BY <3>1
  <2>4. q - 1 \in Nat /\ (q - 1) + 1 = q
    BY <2>1, <2>3
  <2>5. q * BUFFER_WIDTH + d = ((q - 1) * BUFFER_WIDTH + d) + BUFFER_WIDTH
    <3>1. ((q - 1) + 1) * BUFFER_WIDTH + d = ((q - 1) * BUFFER_WIDTH + d) + BUFFER_WIDTH
      BY <2>1, <2>4, NextRowPlace
    <3>2. QED
      BY <2>4, <3>1
  <2>6. p - BUFFER_WIDTH = (q - 1) * BUFFER_WIDTH + d
    <3>1. (q - 1) * BUFFER_WIDTH \in Nat /\ d \in Nat
      BY <1>1, <2>1, <2>4 DEF Columns
    <3>2. QED
      BY <1>1, <2>1, <2>5, <3>1
  <2>7. CellAt(s, (q - 1) * BUFFER_WIDTH + d) = s.cell[q - 1][d]
    BY <2>1, <2>4, CellAtPlace
  <2>8. QED
    BY <1>3, <2>1, <2>2, <2>3, <2>6, <2>7
<1>6. n < Place(u) /\ BUFFER_WIDTH \in Int
  BY <1>1, <1>4, PlaceType DEF Echoed
<1>7. QED
  BY <1>3, <1>4, <1>5, <1>6, EchoedMoves DEF u

LEMMA ClockKeepsEcho ==
  ASSUME NEW s \in ScreenType, NEW n \in Nat, Echoed(s, n), NEW c \in CLOCK_COLUMNS
  PROVE  Echoed(framebuffer_write(s, CLOCK_ROW, c, ClockCell), n)
<1> DEFINE u == framebuffer_write(s, CLOCK_ROW, c, ClockCell)
<1>1. /\ u \in ScreenType /\ u.row = s.row /\ u.col = s.col
      /\ \A q \in Rows, d \in Columns :
           <<q, d>> # <<CLOCK_ROW, c>> => u.cell[q][d] = s.cell[q][d]
  <2>1. CLOCK_ROW \in Rows /\ c \in Columns /\ ClockCell \in Cells
    BY SizeFacts DEF Cells
  <2>2. QED
    BY <2>1, WriteFacts
<1> HIDE DEF u
<1>2. Place(u) = Place(s) /\ Place(s) \in Nat
  BY <1>1, PlaceType DEF Place
<1>3. ASSUME NEW p \in Nat, p < Place(s)
      PROVE  CellAt(u, p) = CellAt(s, p)
  <2>1. /\ p \div BUFFER_WIDTH \in Rows /\ p % BUFFER_WIDTH \in Columns
        /\ p \div BUFFER_WIDTH \in Nat /\ p \div BUFFER_WIDTH <= s.row
    BY <1>3, PlaceBefore
  <2>2. p \div BUFFER_WIDTH # CLOCK_ROW
    BY <2>1, PlaceType, SizeFacts DEF Echoed
  <2>3. QED
    BY <1>1, <2>1, <2>2 DEF CellAt
<1>4. u.row <= BOTTOM /\ n < Place(u) /\ Place(u) = Place(s) + 0
  BY <1>1, <1>2 DEF Echoed
<1>5. \A p \in Nat : p < Place(u) /\ p - 0 >= 0 => CellAt(u, p) = CellAt(s, p - 0)
  BY <1>2, <1>3
<1>6. QED
  BY <1>1, <1>4, <1>5, EchoedMoves DEF u

(* Between two lines the shell's line is empty; while it is edited, the    *)
(* screen shows it.                                                        *)
EchoInv ==
  /\ mode \in {"boot", "cleared", "running"} => prompt_size = 0 /\ prompt_val = NoLine
  /\ Editing /\ intact => Echoed(screen, prompt_size)

LEMMA InitEcho == ConsoleInit => EchoInv
BY DEF ConsoleInit, EchoInv, Editing

LEMMA StepEcho == TypeInv /\ EchoInv /\ [ConsoleNext]_consoleVars => EchoInv'
<1> SUFFICES ASSUME TypeInv, EchoInv, [ConsoleNext]_consoleVars
             PROVE  EchoInv'
  OBVIOUS
<1>1. screen \in ScreenType /\ prompt_size \in 0 .. MAX_PROMPT - 1 /\ prompt_size \in Nat
      /\ MAX_PROMPT \in Nat
  BY ConsoleAssumption DEF TypeInv
<1>2. CASE UNCHANGED shell
  <2> SUFFICES ASSUME Editing, intact'
               PROVE  Echoed(screen', prompt_size)
    BY <1>2 DEF shell, EchoInv, Editing
  <2>1. CASE UNCHANGED <<screen, intact>>
    BY <2>1 DEF EchoInv
  <2>2. CASE PressDown
    <3>1. /\ screen' = framebuffer_scroll_down(screen) /\ intact /\ screen'.row <= BOTTOM
      BY <2>2 DEF PressDown, Show
    <3>2. QED
      BY <1>1, <3>1, ScrollDownKeepsEcho DEF EchoInv
  <2>3. CASE ClockWrites
    <3>1. PICK c \in CLOCK_COLUMNS :
            screen' = framebuffer_write(screen, CLOCK_ROW, c, ClockCell)
      BY <2>3 DEF ClockWrites, Show
    <3>2. intact
      BY <2>3 DEF ClockWrites, Show
    <3>3. QED
      BY <1>1, <3>1, <3>2, ClockKeepsEcho DEF EchoInv
  <2>4. CASE PressUp
    BY <2>4 DEF PressUp
  <2>5. CASE CommandPrints
    BY <2>5 DEF CommandPrints, Editing
  <2>6. CASE KeyboardInterrupt \/ UNCHANGED consoleVars
    BY <2>1, <2>6 DEF KeyboardInterrupt, Quiet, consoleVars
  <2>7. CASE \/ Activate \/ PrintPrompt \/ GetPrompt \/ Erase \/ Echo
             \/ RunPrompt \/ CommandClears
    BY <1>2, <2>1, <2>7
       DEF Activate, PrintPrompt, GetPrompt, Erase, Echo, RunPrompt, CommandClears,
           Quiet, Editing, shell
  <2>8. QED
    BY <2>2, <2>3, <2>4, <2>5, <2>6, <2>7 DEF ConsoleNext
<1>3. CASE Activate
  BY <1>3 DEF Activate, EchoInv, Editing
<1>4. CASE PrintPrompt
  <2>1. prompt_size = 0
    BY <1>4 DEF PrintPrompt, EchoInv
  <2>2. intact' => screen.row <= BOTTOM
    BY <1>4 DEF PrintPrompt
  <2>3. intact' => Echoed(screen', prompt_size')
    BY <1>1, <1>4, <2>1, <2>2, PromptIsEchoed DEF PrintPrompt
  <2>4. mode' = "polling"
    BY <1>4 DEF PrintPrompt
  <2>5. QED
    BY <2>3, <2>4 DEF EchoInv
<1>5. CASE GetPrompt
  BY <1>5 DEF GetPrompt, EchoInv, Editing, Quiet
<1>6. CASE Erase
  <2>1. mode = "got" /\ mode' = "polling"
    BY <1>6 DEF Erase
  <2>2. CASE prompt_size > 0
    <3>1. /\ prompt_size' = prompt_size - 1
          /\ screen' = framebuffer_clear_delete(screen) /\ (intact' => intact)
      BY <1>6, <2>2 DEF Erase, Show
    <3>2. ASSUME intact
          PROVE  Echoed(framebuffer_clear_delete(screen), prompt_size - 1)
      <4>1. Echoed(screen, prompt_size)
        BY <2>1, <3>2 DEF EchoInv, Editing
      <4>2. QED
        BY <1>1, <2>2, <4>1, DeleteIsEchoed
    <3>3. QED
      BY <2>1, <3>1, <3>2 DEF EchoInv
  <2>3. CASE ~(prompt_size > 0)
    BY <1>6, <2>1, <2>3 DEF Erase, Quiet, EchoInv, Editing
  <2>4. QED
    BY <2>2, <2>3
<1>7. CASE Echo
  <2>1. mode = "got" /\ mode' \in {"given", "polling"}
    BY <1>7 DEF Echo
  <2>2. CASE mode' = "given"
    BY <2>2 DEF EchoInv, Editing
  <2>3. CASE mode' = "polling"
    <3>1. /\ ~IsOver /\ prompt_size' = prompt_size + 1
          /\ (intact' => intact)
      BY <1>7, <2>3 DEF Echo, Show
    <3>2. char # Newline /\ prompt_size # MAX_PROMPT - 1
      BY <3>1 DEF IsOver
    <3>3. screen' = framebuffer_put(screen, Typed)
      <4>1. Typed # Newline
        BY DEF Typed, Newline
      <4>2. QED
        BY <1>7, <3>2, <4>1 DEF Echo, Show, fputc
    <3>4. prompt_size + 1 < MAX_PROMPT
      BY <1>1, <3>2
    <3>5. ASSUME intact
          PROVE  Echoed(framebuffer_put(screen, Typed), prompt_size + 1)
      <4>1. Echoed(screen, prompt_size)
        BY <2>1, <3>5 DEF EchoInv, Editing
      <4>2. QED
        BY <1>1, <3>4, <4>1, PutIsEchoed
    <3>6. QED
      BY <2>3, <3>1, <3>3, <3>5 DEF EchoInv
  <2>4. QED
    BY <2>1, <2>2, <2>3
<1>8. CASE RunPrompt
  BY <1>8 DEF RunPrompt, EchoInv, Editing
<1>9. CASE CommandClears
  BY <1>9 DEF CommandClears, EchoInv, Editing
<1>10. CASE KeyboardInterrupt \/ PressUp \/ PressDown \/ ClockWrites \/ CommandPrints
            \/ UNCHANGED consoleVars
  BY <1>2, <1>10
     DEF KeyboardInterrupt, PressUp, PressDown, ClockWrites, CommandPrints, consoleVars
<1>11. QED
  BY <1>3, <1>4, <1>5, <1>6, <1>7, <1>8, <1>9, <1>10 DEF ConsoleNext

LEMMA EchoAlways == ConsoleSpec => []EchoInv
BY InitEcho, StepEcho, TypesAlways, PTL DEF ConsoleSpec

(* Whatever is typed and erased, the cells before the cursor show the line *)
(* and the prompt before it, over the ends of rows and while the screen    *)
(* scrolls; backspace never reaches the prompt.                            *)
THEOREM EchoFollowsTheLine == ConsoleSpec => []EchoIsExact
<1>1. TypeInv /\ EchoInv => EchoIsExact
  <2> SUFFICES ASSUME TypeInv, EchoInv, Editing, intact
               PROVE  /\ prompt_size < screen.row * BUFFER_WIDTH + screen.col
                      /\ \A k \in 1 .. prompt_size : CellBack(k) = Typed
                      /\ CellBack(prompt_size + 1) = Printed
    BY DEF EchoIsExact, Editing
  <2>1. screen \in ScreenType /\ prompt_size \in Nat /\ Echoed(screen, prompt_size)
    BY ConsoleAssumption DEF TypeInv, EchoInv
  <2>2. QED
    BY <2>1, EchoedIsExact
<1>2. QED
  BY <1>1, EchoAlways, TypesAlways, PTL

-----------------------------------------------------------------------------
(* Keyboard and prompt keep what LineEditor promises.                      *)

(* A line has no byte zero in it, and the one that is given has one behind *)
(* it, whatever is left there of what was erased.                          *)
LineInv ==
  /\ Editing \/ mode = "given" => \A i \in 0 .. prompt_size - 1 : prompt_val[i] \in Text
  /\ mode = "given" => prompt_val[prompt_size] = NUL
  /\ mode = "got" => char # NUL

LEMMA CharsDiffer ==
  /\ NUL \notin Text /\ Backspace \notin Text /\ Newline \notin Text
  /\ NUL # Backspace /\ NUL # Newline /\ Backspace # Newline
BY DEF NUL, Text, Letter, Space, Backspace, Newline

(* What the shell's line is when a character is echoed.                    *)
LEMMA EchoCases ==
  ASSUME TypeInv, LineInv, Echo
  PROVE  /\ mode = "got" /\ char \in Text \cup {Newline}
         /\ prompt_size \in Nat /\ prompt_size <= MAX_PROMPT - 1
         /\ prompt_size \in DOMAIN prompt_val
         /\ DOMAIN prompt_val = 0 .. MAX_PROMPT - 1
         /\ \/ /\ mode' = "given" /\ prompt_size' = prompt_size
               /\ char = Newline \/ prompt_size = MAX_PROMPT - 1
               /\ prompt_val' = [prompt_val EXCEPT ![prompt_size] = NUL]
            \/ /\ mode' = "polling" /\ prompt_size' = prompt_size + 1
               /\ char \in Text /\ prompt_size < MAX_PROMPT - 1
               /\ prompt_val' = [prompt_val EXCEPT ![prompt_size] = char]
<1>1. mode = "got" /\ char \in Text \cup {Newline}
  BY DEF Echo, TypeInv, LineInv, Chars
<1>2. prompt_size \in Nat /\ prompt_size <= MAX_PROMPT - 1 /\ MAX_PROMPT \in Nat
  BY ConsoleAssumption DEF TypeInv
<1>3. DOMAIN prompt_val = 0 .. MAX_PROMPT - 1
  BY DEF TypeInv, Lines
<1>4. CASE IsOver
  BY <1>1, <1>2, <1>3, <1>4 DEF Echo, IsOver, Terminated
<1>5. CASE ~IsOver
  BY <1>1, <1>2, <1>3, <1>5 DEF Echo, IsOver
<1>6. QED
  BY <1>4, <1>5

LEMMA InitLine == ConsoleInit => LineInv
BY DEF ConsoleInit, LineInv, Editing

LEMMA StepLine == TypeInv /\ EchoInv /\ LineInv /\ [ConsoleNext]_consoleVars => LineInv'
<1> SUFFICES ASSUME TypeInv, EchoInv, LineInv, [ConsoleNext]_consoleVars
             PROVE  LineInv'
  OBVIOUS
<1>1. CASE UNCHANGED shell
  BY <1>1 DEF shell, LineInv, Editing
<1>2. CASE Activate
  BY <1>2 DEF Activate, LineInv, Editing
<1>3. CASE PrintPrompt
  <2>1. prompt_size' = 0 /\ mode' = "polling"
    BY <1>3 DEF PrintPrompt, EchoInv
  <2>2. QED
    BY <2>1 DEF LineInv
<1>4. CASE GetPrompt
  BY <1>4 DEF GetPrompt, LineInv, Editing
<1>5. CASE Erase
  <2>1. mode = "got" /\ mode' = "polling"
    BY <1>5 DEF Erase
  <2>2. \A i \in 0 .. prompt_size - 1 : prompt_val[i] \in Text
    BY <2>1 DEF LineInv, Editing
  <2>3. CASE prompt_size > 0
    <3>1. /\ prompt_val' = [prompt_val EXCEPT ![prompt_size] = Backspace]
          /\ prompt_size' = prompt_size - 1 /\ prompt_size \in Nat
      BY <1>5, <2>3, ConsoleAssumption DEF Erase, TypeInv
    <3>2. \A i \in 0 .. prompt_size' - 1 : prompt_val'[i] \in Text
      BY <2>2, <3>1 DEF TypeInv, Lines
    <3>3. QED
      BY <2>1, <3>2 DEF LineInv
  <2>4. CASE ~(prompt_size > 0)
    BY <1>5, <2>1, <2>2, <2>4 DEF Erase, LineInv
  <2>5. QED
    BY <2>3, <2>4
<1>6. CASE Echo
  <2>1. \A i \in 0 .. prompt_size - 1 : prompt_val[i] \in Text
    BY <1>6, EchoCases DEF LineInv, Editing
  <2>2. CASE mode' = "given"
    <3>1. /\ prompt_size' = prompt_size /\ prompt_size \in DOMAIN prompt_val
          /\ prompt_size \in Nat
          /\ prompt_val' = [prompt_val EXCEPT ![prompt_size] = NUL]
      BY <1>6, <2>2, EchoCases
    <3>2. /\ \A i \in 0 .. prompt_size' - 1 : prompt_val'[i] \in Text
          /\ prompt_val'[prompt_size'] = NUL
      BY <2>1, <3>1 DEF TypeInv, Lines
    <3>3. QED
      BY <2>2, <3>2 DEF LineInv
  <2>3. CASE mode' = "polling"
    <3>1. /\ prompt_size' = prompt_size + 1 /\ prompt_size \in DOMAIN prompt_val
          /\ prompt_size \in Nat /\ char \in Text
          /\ prompt_val' = [prompt_val EXCEPT ![prompt_size] = char]
      BY <1>6, <2>3, EchoCases
    <3>2. \A i \in 0 .. prompt_size' - 1 : prompt_val'[i] \in Text
      BY <2>1, <3>1 DEF TypeInv, Lines
    <3>3. QED
      BY <2>3, <3>2 DEF LineInv
  <2>4. QED
    BY <1>6, <2>2, <2>3, EchoCases
<1>7. CASE RunPrompt
  BY <1>7 DEF RunPrompt, LineInv, Editing
<1>8. CASE CommandClears
  BY <1>8 DEF CommandClears, LineInv, Editing
<1>9. CASE KeyboardInterrupt \/ PressUp \/ PressDown \/ ClockWrites \/ CommandPrints
           \/ UNCHANGED consoleVars
  BY <1>1, <1>9
     DEF KeyboardInterrupt, PressUp, PressDown, ClockWrites, CommandPrints, consoleVars
<1>10. QED
  BY <1>2, <1>3, <1>4, <1>5, <1>6, <1>7, <1>8, <1>9 DEF ConsoleNext

LEMMA LineAlways == ConsoleSpec => []LineInv
BY InitLine, StepLine, TypesAlways, EchoAlways, PTL DEF ConsoleSpec

(* A string of v goes from a to its zero at e; StringAt finds it.          *)
StringIn(v, a, e) ==
  /\ v \in Lines /\ a \in Nat /\ e \in Nat /\ a <= e /\ e < MAX_PROMPT
  /\ v[e] = NUL /\ \A m \in a .. e - 1 : v[m] \in Text
Str(v, a, e) == [k \in 1 .. e - a |-> v[a + k - 1]]

LEMMA StringInFacts ==
  ASSUME NEW v, NEW a, NEW e, StringIn(v, a, e)
  PROVE  /\ v \in [0 .. MAX_PROMPT - 1 -> Chars] /\ MAX_PROMPT \in Nat
         /\ a \in Nat /\ e \in Nat /\ a <= e /\ e < MAX_PROMPT /\ v[e] = NUL
         /\ \A m \in a .. e - 1 : v[m] \in Text /\ v[m] # NUL
         /\ \A m \in a .. e : At(v, m) = v[m]
         /\ NUL # Space
<1>1. /\ v \in [0 .. MAX_PROMPT - 1 -> Chars] /\ MAX_PROMPT \in Nat
      /\ a \in Nat /\ e \in Nat /\ a <= e /\ e < MAX_PROMPT /\ v[e] = NUL
      /\ \A m \in a .. e - 1 : v[m] \in Text /\ v[m] # NUL
  BY ConsoleAssumption, CharsDiffer DEF StringIn, Lines
<1>2. \A m \in a .. e : At(v, m) = v[m]
  BY <1>1 DEF At
<1>3. QED
  BY <1>1, <1>2 DEF NUL, Space

LEMMA StringAtIs ==
  ASSUME NEW v, NEW a, NEW e, StringIn(v, a, e)
  PROVE  StringAt(v, a) = Str(v, a, e)
<1> DEFINE Ends(n) == At(v, n) = NUL /\ \A m \in a .. n - 1 : v[m] # NUL
           end == CHOOSE n \in a .. MAX_PROMPT : Ends(n)
<1>1. /\ MAX_PROMPT \in Nat /\ a \in Nat /\ e \in a .. MAX_PROMPT
      /\ \A m \in a .. e - 1 : v[m] # NUL /\ At(v, m) = v[m]
      /\ At(v, e) = NUL /\ v[e] = NUL
  BY StringInFacts
<1>2. end \in a .. MAX_PROMPT /\ Ends(end)
  BY <1>1
<1>3. end = e
  <2>1. CASE end < e
    <3>1. end \in a .. e - 1
      BY <1>1, <1>2, <2>1
    <3>2. QED
      BY <1>1, <1>2, <3>1
  <2>2. CASE e < end
    <3>1. e \in a .. end - 1
      BY <1>1, <1>2, <2>2
    <3>2. QED
      BY <1>1, <1>2, <3>1
  <2>3. end \in Int /\ e \in Int
    BY <1>1, <1>2
  <2> HIDE DEF end
  <2>4. QED
    BY <2>1, <2>2, <2>3
<1>4. QED
  BY <1>3 DEF StringAt, Str

LEMMA NoString == \A v : \A e \in Nat : Str(v, e, e) = << >>
<1> SUFFICES ASSUME NEW v, NEW e \in Nat
             PROVE  Str(v, e, e) = << >>
  OBVIOUS
<1>1. e - e = 0
  OBVIOUS
<1>2. QED
  BY <1>1 DEF Str

LEMMA EmptyLine == StringAt(NoLine, 0) = << >>
<1>1. NoLine \in Lines /\ 0 \in 0 .. MAX_PROMPT - 1 /\ NoLine[0] = NUL
  BY ConsoleAssumption DEF NoLine, Lines, Chars
<1>2. StringIn(NoLine, 0, 0)
  BY <1>1, ConsoleAssumption DEF StringIn
<1>3. QED
  BY <1>2, StringAtIs, NoString

-----------------------------------------------------------------------------
(* The abstract line.                                                      *)

Taken == IF mode = "got" THEN char ELSE NUL
Line  == IF Editing THEN EditedLine ELSE StringAt(prompt_val, 0)

LEMMA LineFacts ==
  ASSUME TypeInv, EchoInv, LineInv
  PROVE  /\ mode \in {"boot", "cleared", "running"} => Line = << >> /\ ~Editing
         /\ Editing \/ mode = "given" => Line = [i \in 1 .. prompt_size |-> prompt_val[i - 1]]
         /\ mode = "given" => ~Editing
<1>1. ASSUME mode \in {"boot", "cleared", "running"}
      PROVE  Line = << >> /\ ~Editing
  BY <1>1, EmptyLine DEF EchoInv, Line, Editing
<1>2. CASE Editing
  BY <1>2 DEF Line, EditedLine, Editing
<1>3. CASE mode = "given"
  <2>1. prompt_val \in Lines /\ prompt_size \in Nat /\ prompt_size < MAX_PROMPT
    BY ConsoleAssumption DEF TypeInv
  <2>2. StringIn(prompt_val, 0, prompt_size)
    BY <1>3, <2>1 DEF LineInv, StringIn
  <2>3. StringAt(prompt_val, 0) = Str(prompt_val, 0, prompt_size)
    BY <2>2, StringAtIs
  <2>4. prompt_size - 0 = prompt_size /\ \A k \in 1 .. prompt_size : 0 + k - 1 = k - 1
    BY <2>1
  <2>5. QED
    BY <1>3, <2>3, <2>4 DEF Line, Editing, Str
<1>4. QED
  BY <1>1, <1>2, <1>3 DEF Editing

GivenLine ==
  TypeInv /\ EchoInv /\ LineInv /\ mode = "given" =>
    ~Editing /\ Line = [i \in 1 .. prompt_size |-> prompt_val[i - 1]]

LEMMA GivenLineHolds == GivenLine
BY LineFacts DEF GivenLine

LEMMA MappedLineInit == ConsoleInit => Editor!LineInit
<1> SUFFICES ASSUME ConsoleInit
             PROVE  Editor!LineInit
  OBVIOUS
<1>1. prompt_val = NoLine /\ mode = "boot" /\ keyboard_state.keyboard_buffer = NUL
  BY DEF ConsoleInit, KeyboardInit
<1>2. QED
  BY <1>1, EmptyLine DEF Editor!LineInit, Editing

(* Between two steps the line is what it was: nothing happens to it.       *)
LEMMA LineStutters ==
  ASSUME UNCHANGED <<prompt_val, prompt_size, Taken, Editing, keyboard_state.keyboard_buffer>>
  PROVE  UNCHANGED Editor!lineVars
<1>1. UNCHANGED EditedLine
  BY DEF EditedLine
<1>2. UNCHANGED StringAt(prompt_val, 0)
  BY DEF StringAt, At
<1>3. QED
  BY <1>1, <1>2 DEF Editor!lineVars, Taken, Editing

LEMMA SameMailbox ==
  ASSUME KeyboardTypeOK, PressShift \/ ReleaseShift \/ PressCapsLock \/ keyboard_state_activate
  PROVE  UNCHANGED keyboard_state.keyboard_buffer
BY DEF KeyboardTypeOK, PressShift, ReleaseShift, PressCapsLock, keyboard_state_activate

LEMMA KeyIsTyped ==
  ASSUME TypeInv, NEW key \in Keys, PressKey(key), UNCHANGED shell
  PROVE  Editor!Type
<1>1. keyboard_state'.keyboard_buffer \in Chars
  BY CharacterType DEF PressKey, TypeInv, KeyboardTypeOK
<1>2. UNCHANGED <<Taken, Line, Editing>>
  BY DEF shell, Taken, Line, EditedLine, Editing, StringAt, At
<1>3. QED
  BY <1>1, <1>2 DEF Editor!Type, Chars, Taken, Line, Editing

LEMMA LineBegins ==
  ASSUME TypeInv, EchoInv, LineInv, EchoInv', TypeInv', LineInv', PrintPrompt
  PROVE  Editor!BeginLine
<1>1. Line = << >> /\ ~Editing /\ Taken = NUL
  BY LineFacts DEF PrintPrompt, Taken
<1>2. Editing' /\ Taken' = NUL /\ prompt_size' = 0
  BY DEF PrintPrompt, Editing, Taken, EchoInv
<1>3. Line' = << >>
  BY <1>2 DEF Line, EditedLine
<1>4. keyboard_state' = keyboard_state
  BY DEF PrintPrompt
<1>5. QED
  BY <1>1, <1>2, <1>3, <1>4 DEF Editor!BeginLine, Taken, Line, Editing

LEMMA KeyIsTaken ==
  ASSUME TypeInv, GetPrompt
  PROVE  Editor!Take \/ UNCHANGED Editor!lineVars
<1>1. keyboard_state'.keyboard_buffer = NUL
  BY DEF GetPrompt, get_keyboard_buffer, TypeInv, KeyboardTypeOK
<1>2. Editing /\ Editing' /\ Taken = NUL /\ UNCHANGED EditedLine
  BY DEF GetPrompt, Editing, Taken, EditedLine
<1>3. Taken' = keyboard_state.keyboard_buffer
  BY DEF GetPrompt, Taken
<1>4. UNCHANGED <<Line, Editing>>
  BY <1>2 DEF Line, Editing
<1>5. CASE keyboard_state.keyboard_buffer = NUL
  BY <1>1, <1>2, <1>3, <1>4, <1>5 DEF Editor!lineVars, Taken, Line, Editing
<1>6. CASE keyboard_state.keyboard_buffer # NUL
  BY <1>1, <1>2, <1>3, <1>4, <1>6 DEF Editor!Take, Taken, Line, Editing
<1>7. QED
  BY <1>5, <1>6

LEMMA CharacterIsErased ==
  ASSUME TypeInv, EchoInv, LineInv, Erase
  PROVE  Editor!Apply
<1>1. /\ mode = "got" /\ mode' = "polling" /\ Editing /\ Editing'
      /\ Taken = Backspace /\ Taken' = NUL /\ Line = EditedLine /\ Line' = EditedLine'
      /\ keyboard_state' = keyboard_state
  BY DEF Erase, Editing, Taken, Line
<1>2. prompt_size \in Nat /\ prompt_size <= MAX_PROMPT - 1 /\ MAX_PROMPT \in Nat
      /\ prompt_val \in [0 .. MAX_PROMPT - 1 -> Chars]
  BY ConsoleAssumption DEF TypeInv, Lines
<1>3. EditedLine \in Seq(Chars) /\ Len(EditedLine) = prompt_size
  BY <1>2 DEF EditedLine
<1>4. EditedLine' = IF EditedLine = << >> THEN EditedLine
                    ELSE SubSeq(EditedLine, 1, Len(EditedLine) - 1)
  <2>1. CASE prompt_size = 0
    <3>1. EditedLine = << >> /\ EditedLine' = EditedLine
      BY <2>1 DEF EditedLine, Erase
    <3>2. QED
      BY <3>1
  <2>2. CASE prompt_size > 0
    <3>1. prompt_size' = prompt_size - 1
          /\ prompt_val' = [prompt_val EXCEPT ![prompt_size] = Backspace]
      BY <2>2 DEF Erase
    <3>2. EditedLine' = [i \in 1 .. prompt_size - 1 |-> prompt_val[i - 1]]
      <4>1. \A i \in 1 .. prompt_size - 1 : prompt_val'[i - 1] = prompt_val[i - 1]
        BY <1>2, <3>1
      <4>2. QED
        BY <3>1, <4>1 DEF EditedLine
    <3>3. SubSeq(EditedLine, 1, prompt_size - 1)
            = [i \in 1 .. prompt_size - 1 |-> EditedLine[i]]
      BY <1>2, <1>3, <2>2
    <3>4. \A i \in 1 .. prompt_size - 1 : EditedLine[i] = prompt_val[i - 1]
      BY <1>2 DEF EditedLine
    <3>5. EditedLine # << >>
      BY <1>3, <2>2
    <3>6. QED
      BY <1>3, <3>2, <3>3, <3>4, <3>5
  <2>3. QED
    BY <1>2, <2>1, <2>2
<1>5. QED
  BY <1>1, <1>4, CharsDiffer DEF Editor!Apply, Taken, Line, Editing

LEMMA CharacterIsApplied ==
  ASSUME TypeInv, EchoInv, LineInv, TypeInv', EchoInv', LineInv', Echo
  PROVE  Editor!Apply
<1>1. /\ mode = "got" /\ Editing /\ Taken = char /\ Taken' = NUL /\ Line = EditedLine
      /\ keyboard_state' = keyboard_state
  BY DEF Echo, Editing, Taken, Line
<1>2. /\ char \in Text \cup {Newline} /\ prompt_size \in Nat
      /\ prompt_size <= MAX_PROMPT - 1 /\ DOMAIN prompt_val = 0 .. MAX_PROMPT - 1
      /\ MAX_PROMPT \in Nat /\ prompt_val \in [0 .. MAX_PROMPT - 1 -> Chars]
  BY EchoCases, ConsoleAssumption DEF TypeInv, Lines
<1>3. EditedLine \in Seq(Chars) /\ Len(EditedLine) = prompt_size
  BY <1>2 DEF EditedLine
<1>4. CASE mode' = "given"
  <2>1. /\ prompt_size' = prompt_size
        /\ char = Newline \/ prompt_size = MAX_PROMPT - 1
        /\ prompt_val' = [prompt_val EXCEPT ![prompt_size] = NUL]
    BY <1>4, EchoCases
  <2>2. ~Editing' /\ Line' = [i \in 1 .. prompt_size' |-> prompt_val'[i - 1]]
    <3>1. GivenLine'
      BY GivenLineHolds, PTL
    <3>2. QED
      BY <1>4, <3>1 DEF GivenLine
  <2>3. \A i \in 1 .. prompt_size : prompt_val'[i - 1] = prompt_val[i - 1]
    BY <1>2, <2>1
  <2>4. Line' = EditedLine
    BY <2>1, <2>2, <2>3 DEF EditedLine
  <2>5. QED
    BY <1>1, <1>2, <1>3, <2>1, <2>2, <2>4, CharsDiffer
       DEF Editor!Apply, Taken, Line, Editing
<1>5. CASE mode' = "polling"
  <2>1. /\ prompt_size' = prompt_size + 1 /\ char \in Text /\ prompt_size < MAX_PROMPT - 1
        /\ prompt_val' = [prompt_val EXCEPT ![prompt_size] = char]
    BY <1>5, EchoCases
  <2>2. Editing' /\ Line' = EditedLine'
    BY <1>5 DEF Editing, Line
  <2>3. EditedLine' = [i \in 1 .. prompt_size + 1 |->
                         IF i = prompt_size + 1 THEN char ELSE prompt_val[i - 1]]
    <3>1. \A i \in 1 .. prompt_size + 1 :
            prompt_val'[i - 1] = IF i = prompt_size + 1 THEN char ELSE prompt_val[i - 1]
      BY <1>2, <2>1
    <3>2. QED
      BY <2>1, <3>1 DEF EditedLine
  <2>4. Append(EditedLine, char) = [i \in 1 .. prompt_size + 1 |->
                         IF i = prompt_size + 1 THEN char ELSE EditedLine[i]]
    BY <1>2, <1>3, <2>1, SMTT(30)
  <2>5. \A i \in 1 .. prompt_size : EditedLine[i] = prompt_val[i - 1]
    BY DEF EditedLine
  <2>6. Line' = Append(EditedLine, char)
    BY <1>2, <2>2, <2>3, <2>4, <2>5
  <2>7. QED
    BY <1>1, <1>2, <1>3, <2>1, <2>2, <2>6, CharsDiffer
       DEF Editor!Apply, Taken, Line, Editing
<1>6. QED
  BY <1>4, <1>5, EchoCases

LEMMA LineIsRead ==
  ASSUME TypeInv, EchoInv, LineInv, RunPrompt
  PROVE  Editor!Read
<1>1. ~Editing /\ ~Editing' /\ Taken = NUL /\ Taken' = NUL
      /\ keyboard_state' = keyboard_state
  BY DEF RunPrompt, Editing, Taken
<1>2. Line' = << >>
  BY <1>1, EmptyLine DEF RunPrompt, Line
<1>3. QED
  BY <1>1, <1>2 DEF Editor!Read, Taken, Line, Editing

LEMMA MappedLineStep ==
  ASSUME TypeInv, EchoInv, LineInv, TypeInv', EchoInv', LineInv',
         [ConsoleNext]_consoleVars
  PROVE  [Editor!LineNext]_(Editor!lineVars)
<1>1. CASE KeyboardInterrupt
  <2>1. CASE \E key \in KeysNow : PressKey(key)
    <3>1. \E key \in Keys : PressKey(key)
      BY <2>1 DEF KeysNow, Keys
    <3>2. Editor!Type
      BY <1>1, <3>1, KeyIsTyped DEF KeyboardInterrupt
    <3>3. QED
      BY <3>2 DEF Editor!LineNext
  <2>2. CASE PressShift \/ ReleaseShift \/ PressCapsLock
    <3>1. UNCHANGED keyboard_state.keyboard_buffer
      BY <2>2, SameMailbox DEF TypeInv
    <3>2. UNCHANGED <<prompt_val, prompt_size, Taken, Editing>>
      BY <1>1 DEF KeyboardInterrupt, shell, Taken, Editing
    <3>3. QED
      BY <3>1, <3>2, LineStutters
  <2>3. QED
    BY <1>1, <2>1, <2>2 DEF KeyboardInterrupt
<1>2. CASE PressUp \/ PressDown \/ ClockWrites \/ CommandPrints \/ UNCHANGED consoleVars
  <2>1. UNCHANGED <<keyboard_state, shell>>
    BY <1>2 DEF PressUp, PressDown, ClockWrites, CommandPrints, consoleVars
  <2>2. UNCHANGED <<prompt_val, prompt_size, Taken, Editing, keyboard_state.keyboard_buffer>>
    BY <2>1 DEF shell, Taken, Editing
  <2>3. QED
    BY <2>2, LineStutters
<1>3. CASE Activate
  <2>1. UNCHANGED keyboard_state.keyboard_buffer
    BY <1>3, SameMailbox DEF Activate, TypeInv
  <2>2. UNCHANGED <<prompt_val, prompt_size, Taken, Editing>>
    BY <1>3 DEF Activate, Taken, Editing
  <2>3. QED
    BY <2>1, <2>2, LineStutters
<1>4. CASE CommandClears
  <2>1. UNCHANGED <<prompt_val, prompt_size, Taken, Editing, keyboard_state.keyboard_buffer>>
    BY <1>4 DEF CommandClears, Taken, Editing
  <2>2. QED
    BY <2>1, LineStutters
<1>5. CASE PrintPrompt
  BY <1>5, LineBegins DEF Editor!LineNext
<1>6. CASE GetPrompt
  BY <1>6, KeyIsTaken DEF Editor!LineNext
<1>7. CASE Erase
  BY <1>7, CharacterIsErased DEF Editor!LineNext
<1>8. CASE Echo
  BY <1>8, CharacterIsApplied DEF Editor!LineNext
<1>9. CASE RunPrompt
  BY <1>9, LineIsRead DEF Editor!LineNext
<1>10. QED
  BY <1>1, <1>2, <1>3, <1>4, <1>5, <1>6, <1>7, <1>8, <1>9 DEF ConsoleNext

(* Keyboard and prompt implement LineEditor: the string a command gets is  *)
(* the line that was typed less what was erased, a key that is not taken   *)
(* in time is replaced by the next one and by nothing else, and the line   *)
(* is never longer than its array, for every length of the array.          *)
THEOREM TypedLineIsKept == ConsoleSpec => LineIsKept
<1>1. TypeInv /\ EchoInv /\ LineInv /\ (TypeInv /\ EchoInv /\ LineInv)'
      /\ [ConsoleNext]_consoleVars => [Editor!LineNext]_(Editor!lineVars)
  BY MappedLineStep
<1>2. QED
  BY <1>1, MappedLineInit, TypesAlways, EchoAlways, LineAlways, PTL
     DEF ConsoleSpec, LineIsKept, Editor!LineSpec

-----------------------------------------------------------------------------
(* The words of a line.  The first word of a string, if it has one, goes   *)
(* from i to j.                                                            *)

WordIn(v, a, e, i, j) ==
  /\ i \in Nat /\ j \in Nat /\ a <= i /\ i <= j /\ j <= e
  /\ \A m \in a .. i - 1 : v[m] = Space
  /\ i < e => v[i] # Space
  /\ \A m \in i .. j - 1 : v[m] # Space
  /\ j < e => v[j] = Space

(* A nonempty set of integers from an interval has a least element.        *)
LEMMA Least ==
  ASSUME NEW a \in Int, NEW b \in Int, NEW S, S \subseteq a .. b, S # {}
  PROVE  \E m \in S : \A n \in S : m <= n
<1> DEFINE T == {x \in (0 - b) .. (0 - a) : (0 - x) \in S}
<1>1. IsFiniteSet(T) /\ T \subseteq Int
  <2>1. 0 - b \in Int /\ 0 - a \in Int /\ T \subseteq (0 - b) .. (0 - a)
    OBVIOUS
  <2> HIDE DEF T
  <2>2. IsFiniteSet((0 - b) .. (0 - a))
    BY <2>1, FS_Interval
  <2>3. IsFiniteSet(T)
    BY <2>1, <2>2, FS_Subset
  <2>4. T \subseteq Int
    BY <2>1
  <2>5. QED
    BY <2>3, <2>4
<1>2. \A n \in S : n \in Int /\ (0 - n) \in T /\ 0 - (0 - n) = n
  OBVIOUS
<1>3. \A x \in T : (0 - x) \in S /\ x \in Int
  OBVIOUS
<1> HIDE DEF T
<1>4. PICK x \in T : \A y \in T : y <= x
  BY <1>1, <1>2, Greatest
<1>5. \A n \in S : 0 - x <= n
  BY <1>2, <1>3, <1>4
<1>6. QED
  BY <1>3, <1>5

(* Every string has a first word, an empty one at its end perhaps.         *)
LEMMA WordExists ==
  ASSUME NEW v, NEW a, NEW e, StringIn(v, a, e)
  PROVE  \E i, j \in Nat : WordIn(v, a, e, i, j)
<1>1. a \in Nat /\ e \in Nat /\ a <= e
  BY StringInFacts
<1> DEFINE Starts == {n \in a .. e : n = e \/ v[n] # Space}
<1>2. PICK i \in Starts : \A n \in Starts : i <= n
  <2>1. Starts \subseteq a .. e /\ Starts # {} /\ a \in Int /\ e \in Int
    BY <1>1
  <2> HIDE DEF Starts
  <2>2. QED
    BY <2>1, Least
<1>3. i \in a .. e /\ (i < e => v[i] # Space)
  BY <1>1
<1>4. \A m \in a .. i - 1 : v[m] = Space
  <2> SUFFICES ASSUME NEW m \in a .. i - 1, v[m] # Space
               PROVE  FALSE
    OBVIOUS
  <2>1. m \in Starts /\ ~(i <= m)
    BY <1>1, <1>3
  <2>2. QED
    BY <1>2, <2>1
<1> HIDE DEF Starts
<1> DEFINE Stops == {n \in i .. e : n = e \/ v[n] = Space}
<1>5. PICK j \in Stops : \A n \in Stops : j <= n
  <2>1. Stops \subseteq i .. e /\ Stops # {} /\ i \in Int /\ e \in Int
    BY <1>1, <1>3
  <2> HIDE DEF Stops
  <2>2. QED
    BY <2>1, Least
<1>6. j \in i .. e /\ (j < e => v[j] = Space)
  BY <1>1, <1>3
<1>7. \A m \in i .. j - 1 : v[m] # Space
  <2> SUFFICES ASSUME NEW m \in i .. j - 1, v[m] = Space
               PROVE  FALSE
    OBVIOUS
  <2>1. m \in Stops /\ ~(j <= m)
    BY <1>1, <1>3, <1>6
  <2>2. QED
    BY <1>5, <2>1
<1> HIDE DEF Stops
<1>8. i \in Nat /\ j \in Nat /\ a <= i /\ i <= j /\ j <= e
  BY <1>1, <1>3, <1>6
<1>9. QED
  BY <1>3, <1>4, <1>6, <1>7, <1>8 DEF WordIn

(* There is one way to split a line.                                       *)
LEMMA OneSplit ==
  ASSUME NEW l, Len(l) \in Nat,
         NEW i \in 0 .. Len(l), NEW j \in 0 .. Len(l), SplitsAt(l, i, j),
         NEW p \in 0 .. Len(l), NEW q \in 0 .. Len(l), SplitsAt(l, p, q)
  PROVE  i = p /\ j = q
<1>1. ~(i < p)
  <2> SUFFICES ASSUME i < p
               PROVE  FALSE
    OBVIOUS
  <2>1. i + 1 \in 1 .. p /\ i < Len(l)
    OBVIOUS
  <2>2. QED
    BY <2>1 DEF SplitsAt
<1>2. ~(p < i)
  <2> SUFFICES ASSUME p < i
               PROVE  FALSE
    OBVIOUS
  <2>1. p + 1 \in 1 .. i /\ p < Len(l)
    OBVIOUS
  <2>2. QED
    BY <2>1 DEF SplitsAt
<1>3. i = p
  BY <1>1, <1>2
<1>4. ~(j < q)
  <2> SUFFICES ASSUME j < q
               PROVE  FALSE
    OBVIOUS
  <2>1. j + 1 \in p + 1 .. q /\ j < Len(l)
    BY <1>3 DEF SplitsAt
  <2>2. QED
    BY <2>1 DEF SplitsAt
<1>5. ~(q < j)
  <2> SUFFICES ASSUME q < j
               PROVE  FALSE
    OBVIOUS
  <2>1. q + 1 \in i + 1 .. j /\ q < Len(l)
    BY <1>3 DEF SplitsAt
  <2>2. QED
    BY <2>1 DEF SplitsAt
<1>6. QED
  BY <1>3, <1>4, <1>5

(* Part of a string, as a sequence.                                        *)
LEMMA PartOfString ==
  ASSUME NEW v, NEW a, NEW e, StringIn(v, a, e),
         NEW i \in Nat, NEW j \in Nat, a <= i, i <= j, j <= e
  PROVE  /\ Str(v, a, e) \in Seq(Chars) /\ Len(Str(v, a, e)) = e - a
         /\ SubSeq(Str(v, a, e), i - a + 1, j - a) = Str(v, i, j)
<1> DEFINE l == Str(v, a, e)
<1>1. a \in Nat /\ e \in Nat /\ e < MAX_PROMPT /\ MAX_PROMPT \in Nat
      /\ v \in [0 .. MAX_PROMPT - 1 -> Chars] /\ a <= e
  BY StringInFacts
<1>2. l \in Seq(Chars) /\ Len(l) = e - a
  BY <1>1 DEF Str
<1>3. \A k \in 1 .. e - a : l[k] = v[a + k - 1]
  BY DEF Str
<1> HIDE DEF l
<1>4. i - a + 1 \in Int /\ j - a \in Int /\ 1 <= i - a + 1 /\ j - a <= Len(l)
      /\ j - a - (i - a + 1) + 1 = j - i
  BY <1>1, <1>2
<1>5. SubSeq(l, i - a + 1, j - a) = [k \in 1 .. j - i |-> l[(i - a + 1) + k - 1]]
  BY <1>1, <1>2, <1>4
<1>6. ASSUME NEW k \in 1 .. j - i
      PROVE  l[(i - a + 1) + k - 1] = v[i + k - 1]
  <2>1. (i - a + 1) + k - 1 \in 1 .. e - a
        /\ a + ((i - a + 1) + k - 1) - 1 = i + k - 1
    BY <1>1
  <2>2. QED
    BY <1>3, <2>1
<1>7. QED
  BY <1>2, <1>5, <1>6 DEF l, Str

LEMMA WordFacts ==
  ASSUME NEW v, NEW a, NEW e, StringIn(v, a, e),
         NEW i, NEW j, WordIn(v, a, e, i, j)
  PROVE  /\ i \in Nat /\ j \in Nat /\ a <= i /\ i <= j /\ j <= e
         /\ i = e => j = e
         /\ i < e => i < j /\ v[i] # Space /\ v[i] # NUL
         /\ \A m \in a .. i - 1 : v[m] = Space
         /\ \A m \in i .. j - 1 : v[m] # Space /\ v[m] # NUL
         /\ j < e => v[j] = Space
         /\ v[j] \in {NUL, Space}
<1>1. /\ a \in Nat /\ e \in Nat /\ a <= e /\ v[e] = NUL
      /\ \A m \in a .. e - 1 : v[m] # NUL
  BY StringInFacts
<1>2. i \in Nat /\ j \in Nat /\ a <= i /\ i <= j /\ j <= e
  BY DEF WordIn
<1>3. i = e => j = e
  BY <1>1, <1>2
<1>4. ASSUME i < e
      PROVE  i < j /\ v[i] # Space /\ v[i] # NUL
  <2>1. v[i] # Space /\ v[i] # NUL
    BY <1>1, <1>2, <1>4 DEF WordIn
  <2>2. i # j
    BY <1>4, <2>1 DEF WordIn
  <2>3. QED
    BY <1>2, <2>1, <2>2
<1>5. \A m \in i .. j - 1 : v[m] # Space /\ v[m] # NUL
  BY <1>1, <1>2 DEF WordIn
<1>6. v[j] \in {NUL, Space}
  <2>1. j < e \/ j = e
    BY <1>1, <1>2
  <2>2. QED
    BY <1>1, <2>1 DEF WordIn
<1>7. QED
  BY <1>2, <1>3, <1>4, <1>5, <1>6 DEF WordIn

(* The first word of a line and what follows it, by its places.            *)
LEMMA WordOfLine ==
  ASSUME NEW v, NEW a, NEW e, StringIn(v, a, e),
         NEW i, NEW j, WordIn(v, a, e, i, j)
  PROVE  /\ FirstWord(Str(v, a, e)) = Str(v, i, j)
         /\ j < e => Rest(Str(v, a, e)) = Str(v, j + 1, e)
         /\ j = e => Rest(Str(v, a, e)) = << >>
<1> DEFINE l == Str(v, a, e)
           s == CHOOSE s \in (0 .. Len(l)) \X (0 .. Len(l)) : SplitsAt(l, s[1], s[2])
<1>1. a \in Nat /\ e \in Nat /\ a <= e
  BY StringInFacts
<1>2. /\ i \in Nat /\ j \in Nat /\ a <= i /\ i <= j /\ j <= e
      /\ \A m \in a .. i - 1 : v[m] = Space
      /\ i < e => v[i] # Space
      /\ \A m \in i .. j - 1 : v[m] # Space
      /\ j < e => v[j] = Space
  BY WordFacts
<1>3. l \in Seq(Chars) /\ Len(l) = e - a /\ \A k \in 1 .. e - a : l[k] = v[a + k - 1]
  <2>1. l \in Seq(Chars) /\ Len(l) = e - a
    BY <1>1, <1>2, PartOfString
  <2>2. \A k \in 1 .. e - a : l[k] = v[a + k - 1]
    BY DEF Str
  <2>3. QED
    BY <2>1, <2>2
<1>4. i - a \in 0 .. Len(l) /\ j - a \in 0 .. Len(l)
  BY <1>1, <1>2, <1>3, SMTT(30)
<1>5. SplitsAt(l, i - a, j - a)
  <2> HIDE DEF l
  <2>1. \A n \in 1 .. i - a : l[n] = Space
    <3> SUFFICES ASSUME NEW n \in 1 .. i - a
                 PROVE  l[n] = Space
      OBVIOUS
    <3>1. n \in 1 .. e - a /\ a + n - 1 \in a .. i - 1
      BY <1>1, <1>2
    <3>2. QED
      BY <1>2, <1>3, <3>1
  <2>2. \A n \in (i - a) + 1 .. j - a : l[n] # Space
    <3> SUFFICES ASSUME NEW n \in (i - a) + 1 .. j - a
                 PROVE  l[n] # Space
      OBVIOUS
    <3>1. n \in 1 .. e - a /\ a + n - 1 \in i .. j - 1
      BY <1>1, <1>2
    <3>2. QED
      BY <1>2, <1>3, <3>1
  <2>3. i - a < Len(l) => l[(i - a) + 1] # Space
    <3> SUFFICES ASSUME i - a < Len(l)
                 PROVE  l[(i - a) + 1] # Space
      OBVIOUS
    <3>1. (i - a) + 1 \in 1 .. e - a /\ a + ((i - a) + 1) - 1 = i /\ i < e
      BY <1>1, <1>2, <1>3
    <3>2. QED
      BY <1>2, <1>3, <3>1
  <2>4. j - a < Len(l) => l[(j - a) + 1] = Space
    <3> SUFFICES ASSUME j - a < Len(l)
                 PROVE  l[(j - a) + 1] = Space
      OBVIOUS
    <3>1. (j - a) + 1 \in 1 .. e - a /\ a + ((j - a) + 1) - 1 = j /\ j < e
      BY <1>1, <1>2, <1>3
    <3>2. QED
      BY <1>2, <1>3, <3>1
  <2>5. QED
    BY <1>1, <1>2, <2>1, <2>2, <2>3, <2>4 DEF SplitsAt
<1> HIDE DEF l
<1>6. s \in (0 .. Len(l)) \X (0 .. Len(l)) /\ SplitsAt(l, s[1], s[2])
  <2> DEFINE p == <<i - a, j - a>>
  <2>1. p \in (0 .. Len(l)) \X (0 .. Len(l)) /\ SplitsAt(l, p[1], p[2])
    BY <1>4, <1>5
  <2> HIDE DEF p
  <2>2. QED
    BY <2>1
<1>7. s[1] = i - a /\ s[2] = j - a
  <2>1. s[1] \in 0 .. Len(l) /\ s[2] \in 0 .. Len(l) /\ SplitsAt(l, s[1], s[2])
        /\ Len(l) \in Nat
    BY <1>3, <1>6
  <2> HIDE DEF s
  <2>2. QED
    BY <1>4, <1>5, <2>1, OneSplit
<1>8. FirstWord(l) = SubSeq(l, s[1] + 1, s[2]) /\ Rest(l) = SubSeq(l, s[2] + 2, Len(l))
  BY DEF FirstWord, Rest
<1> HIDE DEF s
<1>9. FirstWord(l) = Str(v, i, j)
  <2>1. SubSeq(l, i - a + 1, j - a) = Str(v, i, j)
    <3>1. i \in Nat /\ j \in Nat /\ a <= i /\ i <= j /\ j <= e
      BY <1>2
    <3>2. QED
      BY <3>1, PartOfString, ZenonT(30) DEF l
  <2>2. QED
    BY <1>7, <1>8, <2>1
<1>10. ASSUME j < e
       PROVE  Rest(l) = Str(v, j + 1, e)
  <2>1. SubSeq(l, (j + 1) - a + 1, e - a) = Str(v, j + 1, e)
    <3>1. j + 1 \in Nat /\ a <= j + 1 /\ j + 1 <= e /\ e <= e
      BY <1>1, <1>2, <1>10
    <3>2. QED
      BY <1>1, <3>1, PartOfString, SMTT(30) DEF l
  <2>2. (j + 1) - a + 1 = (j - a) + 2
    BY <1>1, <1>2
  <2>3. QED
    BY <1>3, <1>7, <1>8, <2>1, <2>2
<1>11. ASSUME j = e
       PROVE  Rest(l) = << >>
  <2>1. Rest(l) = SubSeq(l, (e - a) + 2, e - a)
    BY <1>3, <1>7, <1>8, <1>11
  <2>2. (e - a) + 2 > e - a /\ e - a \in Int
    BY <1>1
  <2>3. QED
    BY <1>3, <2>1, <2>2
<1>12. QED
  BY <1>9, <1>10, <1>11 DEF l

(* my_strtok's loops over the spaces and over the word.                    *)
LEMMA SpaceToken ==
  ASSUME NEW v, NEW a, NEW e, StringIn(v, a, e),
         NEW i, NEW j, WordIn(v, a, e, i, j)
  PROVE  /\ i = e => NextToken(v, a, Space) = Token(NULL, NULL, v)
         /\ i # e /\ j = e => NextToken(v, a, Space) = Token(i, e, v)
         /\ i # e /\ j # e =>
              NextToken(v, a, Space) = Token(i, j + 1, [v EXCEPT ![j] = NUL])
<1> DEFINE Start(n) == /\ At(v, n) # Space \/ n = MAX_PROMPT
                       /\ \A m \in a .. n - 1 : v[m] = Space
           Stop(n) == /\ At(v, n) \in {NUL, Space}
                      /\ \A m \in i .. n - 1 : v[m] \notin {NUL, Space}
           start == CHOOSE n \in a .. MAX_PROMPT : Start(n)
           stop == CHOOSE n \in i .. MAX_PROMPT : Stop(n)
<1>1. /\ a \in Nat /\ e \in Nat /\ a <= e /\ e < MAX_PROMPT /\ MAX_PROMPT \in Nat
      /\ v[e] = NUL /\ NUL # Space
      /\ \A m \in a .. e : At(v, m) = v[m]
      /\ \A m \in a .. e - 1 : v[m] # NUL
  BY StringInFacts
<1>2. /\ i \in Nat /\ j \in Nat /\ a <= i /\ i <= j /\ j <= e
      /\ i = e => j = e
      /\ i < e => i < j /\ v[i] # Space /\ v[i] # NUL
      /\ \A m \in a .. i - 1 : v[m] = Space
      /\ \A m \in i .. j - 1 : v[m] # Space /\ v[m] # NUL
      /\ j < e => v[j] = Space
      /\ v[j] \in {NUL, Space}
  BY WordFacts
<1>3. At(v, i) = v[i] /\ At(v, j) = v[j] /\ v[i] # Space
  <2>1. i \in a .. e /\ j \in a .. e
    BY <1>1, <1>2
  <2>2. QED
    BY <1>1, <1>2, <2>1
<1>4. start = i
  <2>1. i \in a .. MAX_PROMPT /\ Start(i)
    BY <1>1, <1>2, <1>3
  <2>2. start \in a .. MAX_PROMPT /\ Start(start)
    BY <2>1
  <2>3. CASE start < i
    <3>1. start \in a .. i - 1 /\ start \in a .. e /\ start # MAX_PROMPT
      BY <1>1, <1>2, <2>2, <2>3
    <3>2. QED
      BY <1>1, <1>2, <2>2, <3>1
  <2>4. CASE i < start
    <3>1. i \in a .. start - 1
      BY <1>1, <1>2, <2>2, <2>4
    <3>2. QED
      BY <1>3, <2>2, <3>1
  <2>5. start \in Int
    BY <1>1, <2>2
  <2> HIDE DEF start
  <2>6. QED
    BY <1>2, <2>3, <2>4, <2>5
<1>5. stop = j
  <2>1. j \in i .. MAX_PROMPT /\ Stop(j)
    BY <1>1, <1>2, <1>3
  <2>2. stop \in i .. MAX_PROMPT /\ Stop(stop)
    BY <2>1
  <2>3. CASE stop < j
    <3>1. stop \in i .. j - 1 /\ stop \in a .. e
      BY <1>1, <1>2, <2>2, <2>3
    <3>2. At(v, stop) = v[stop]
      BY <1>1, <3>1
    <3>3. QED
      BY <1>2, <2>2, <3>1, <3>2
  <2>4. CASE j < stop
    <3>1. j \in i .. stop - 1
      BY <1>1, <1>2, <2>2, <2>4
    <3>2. QED
      BY <1>2, <2>2, <3>1
  <2>5. stop \in Int
    BY <1>1, <1>2, <2>2
  <2> HIDE DEF stop
  <2>6. QED
    BY <1>2, <2>3, <2>4, <2>5
<1>6. NextToken(v, a, Space) =
        IF At(v, i) = NUL THEN Token(NULL, NULL, v)
        ELSE IF At(v, j) = NUL THEN Token(i, j, v)
        ELSE Token(i, j + 1, [v EXCEPT ![j] = NUL])
  <2>1. NextToken(v, a, Space) =
          IF At(v, start) = NUL THEN Token(NULL, NULL, v)
          ELSE LET end == CHOOSE n \in start .. MAX_PROMPT :
                            /\ At(v, n) \in {NUL, Space}
                            /\ \A m \in start .. n - 1 : v[m] \notin {NUL, Space}
               IN IF At(v, end) = NUL THEN Token(start, end, v)
                  ELSE Token(start, end + 1, [v EXCEPT ![end] = NUL])
    BY DEF NextToken
  <2> HIDE DEF start
  <2>2. QED
    BY <1>4, <1>5, <2>1
<1>7. (At(v, i) = NUL <=> i = e) /\ (At(v, j) = NUL <=> j = e)
  <2>1. i < e \/ i = e
    BY <1>1, <1>2
  <2>2. j < e \/ j = e
    BY <1>1, <1>2
  <2>3. QED
    BY <1>1, <1>2, <1>3, <2>1, <2>2
<1> HIDE DEF start, stop
<1>8. QED
  BY <1>6, <1>7

(* With the delimiter zero, all that is left is one token.                 *)
LEMMA LastToken ==
  ASSUME NEW v, NEW a, NEW e, StringIn(v, a, e), a < e
  PROVE  NextToken(v, a, NUL) = Token(a, e, v)
<1> DEFINE Start(n) == /\ At(v, n) # NUL \/ n = MAX_PROMPT
                       /\ \A m \in a .. n - 1 : v[m] = NUL
           Stop(n) == /\ At(v, n) \in {NUL, NUL}
                      /\ \A m \in a .. n - 1 : v[m] \notin {NUL, NUL}
           start == CHOOSE n \in a .. MAX_PROMPT : Start(n)
           stop == CHOOSE n \in a .. MAX_PROMPT : Stop(n)
<1>1. /\ a \in Nat /\ e \in Nat /\ e < MAX_PROMPT /\ MAX_PROMPT \in Nat
      /\ \A m \in a .. e : At(v, m) = v[m]
      /\ \A m \in a .. e - 1 : v[m] # NUL
      /\ v[e] = NUL
  BY StringInFacts
<1>2. At(v, a) # NUL /\ v[a] # NUL /\ At(v, e) = NUL
  <2>1. a \in a .. e /\ a \in a .. e - 1 /\ e \in a .. e
    BY <1>1
  <2>2. QED
    BY <1>1, <2>1
<1>3. start = a
  <2>1. a \in a .. MAX_PROMPT /\ Start(a)
    BY <1>1, <1>2
  <2>2. start \in a .. MAX_PROMPT /\ Start(start)
    BY <2>1
  <2>3. CASE a < start
    <3>1. a \in a .. start - 1
      BY <1>1, <2>2, <2>3
    <3>2. QED
      BY <1>2, <2>2, <3>1
  <2>4. start \in Int /\ a <= start
    BY <1>1, <2>2
  <2> HIDE DEF start
  <2>5. QED
    BY <1>1, <2>3, <2>4
<1>4. stop = e
  <2>1. e \in a .. MAX_PROMPT /\ Stop(e)
    BY <1>1, <1>2
  <2>2. stop \in a .. MAX_PROMPT /\ Stop(stop)
    BY <2>1
  <2>3. CASE stop < e
    <3>1. stop \in a .. e - 1 /\ stop \in a .. e
      BY <1>1, <2>2, <2>3
    <3>2. QED
      BY <1>1, <2>2, <3>1
  <2>4. CASE e < stop
    <3>1. e \in a .. stop - 1
      BY <1>1, <2>2, <2>4
    <3>2. QED
      BY <1>1, <2>2, <3>1
  <2>5. stop \in Int
    BY <1>1, <2>2
  <2> HIDE DEF stop
  <2>6. QED
    BY <1>1, <2>3, <2>4, <2>5
<1>5. NextToken(v, a, NUL) =
        IF At(v, start) = NUL THEN Token(NULL, NULL, v)
        ELSE LET end == CHOOSE n \in start .. MAX_PROMPT :
                          /\ At(v, n) \in {NUL, NUL}
                          /\ \A m \in start .. n - 1 : v[m] \notin {NUL, NUL}
             IN IF At(v, end) = NUL THEN Token(start, end, v)
                ELSE Token(start, end + 1, [v EXCEPT ![end] = NUL])
  BY DEF NextToken
<1> HIDE DEF start
<1>6. QED
  BY <1>2, <1>3, <1>4, <1>5

(* What a call of my_strtok leaves for the next one.                       *)
Remains(t, e, l) ==
  \/ t.saved = NULL /\ l = << >>
  \/ StringIn(t.val, t.saved, e) /\ l = Str(t.val, t.saved, e)

LEMMA TokenParts ==
  \A start, saved, val : /\ Token(start, saved, val).start = start
                         /\ Token(start, saved, val).saved = saved
                         /\ Token(start, saved, val).val = val
BY DEF Token

LEMMA NoWords == FirstWord(<< >>) = << >> /\ Rest(<< >>) = << >>
<1> DEFINE l == << >>
           s == CHOOSE s \in (0 .. Len(l)) \X (0 .. Len(l)) : SplitsAt(l, s[1], s[2])
<1>1. Len(l) = 0
  OBVIOUS
<1>2. <<0, 0>> \in (0 .. Len(l)) \X (0 .. Len(l)) /\ SplitsAt(l, <<0, 0>>[1], <<0, 0>>[2])
  BY <1>1 DEF SplitsAt
<1>3. s \in (0 .. Len(l)) \X (0 .. Len(l))
  BY <1>2
<1>4. s[1] = 0 /\ s[2] = 0
  <2> HIDE DEF s
  <2>1. QED
    BY <1>1, <1>3
<1>5. FirstWord(l) = SubSeq(l, s[1] + 1, s[2]) /\ Rest(l) = SubSeq(l, s[2] + 2, Len(l))
  BY DEF FirstWord, Rest
<1> HIDE DEF s
<1>6. FirstWord(l) = SubSeq(l, 1, 0) /\ Rest(l) = SubSeq(l, 2, 0)
  BY <1>1, <1>4, <1>5
<1>7. QED
  BY <1>6

LEMMA PartIsString ==
  ASSUME NEW v, NEW a, NEW e, StringIn(v, a, e), NEW b \in Nat, a <= b, b <= e
  PROVE  StringIn(v, b, e)
BY DEF StringIn

LEMMA TokenOfLine ==
  ASSUME NEW v, NEW a, NEW e, StringIn(v, a, e)
  PROVE  /\ Argument(NextToken(v, a, Space)) = FirstWord(Str(v, a, e))
         /\ Remains(NextToken(v, a, Space), e, Rest(Str(v, a, e)))
<1> DEFINE t == NextToken(v, a, Space)
           l == Str(v, a, e)
<1>1. PICK i \in Nat, j \in Nat : WordIn(v, a, e, i, j)
  BY WordExists
<1>2. /\ a \in Nat /\ e \in Nat /\ e < MAX_PROMPT /\ MAX_PROMPT \in Nat
      /\ v \in [0 .. MAX_PROMPT - 1 -> Chars]
      /\ \A m \in a .. e - 1 : v[m] \in Text
      /\ v[e] = NUL
  BY StringInFacts
<1>3. /\ a <= i /\ i <= j /\ j <= e
      /\ i = e => j = e
      /\ \A m \in i .. j - 1 : v[m] # NUL
  BY <1>1, WordFacts
<1>4. /\ FirstWord(l) = Str(v, i, j)
      /\ j < e => Rest(l) = Str(v, j + 1, e)
      /\ j = e => Rest(l) = << >>
  BY <1>1, WordOfLine
<1>5. /\ i = e => t = Token(NULL, NULL, v)
      /\ i # e /\ j = e => t = Token(i, e, v)
      /\ i # e /\ j # e => t = Token(i, j + 1, [v EXCEPT ![j] = NUL])
  BY <1>1, SpaceToken
<1>6. i # NULL
  BY <1>1 DEF NULL
<1> HIDE DEF t, l
<1>7. CASE i = e
  <2>1. t.start = NULL /\ t.saved = NULL
    BY <1>5, <1>7, TokenParts
  <2>2. FirstWord(l) = << >> /\ Rest(l) = << >>
    BY <1>2, <1>3, <1>4, <1>7, NoString
  <2>3. QED
    BY <2>1, <2>2 DEF Argument, Remains, t, l
<1>8. CASE i # e /\ j = e
  <2>1. t.start = i /\ t.saved = e /\ t.val = v
    BY <1>5, <1>8, TokenParts
  <2>2. StringIn(v, i, e) /\ StringIn(v, e, e)
    BY <1>2, <1>3, <1>8, PartIsString
  <2>3. Argument(t) = Str(v, i, e)
    BY <1>6, <2>1, <2>2, StringAtIs DEF Argument
  <2>4. Rest(l) = Str(v, e, e)
    BY <1>2, <1>4, <1>8, NoString
  <2>5. QED
    BY <1>4, <1>8, <2>1, <2>2, <2>3, <2>4 DEF Remains, t, l
<1>9. CASE i # e /\ j # e
  <2> DEFINE w == [v EXCEPT ![j] = NUL]
  <2>1. t.start = i /\ t.saved = j + 1 /\ t.val = w
    BY <1>5, <1>9, TokenParts
  <2>2. j < e /\ j \in 0 .. MAX_PROMPT - 1
    BY <1>2, <1>3, <1>9
  <2>3. /\ w \in [0 .. MAX_PROMPT - 1 -> Chars]
        /\ w[j] = NUL
        /\ \A m \in 0 .. MAX_PROMPT - 1 : m # j => w[m] = v[m]
    BY <1>2, <2>2 DEF Chars
  <2> HIDE DEF w
  <2>4. StringIn(w, i, j)
    <3>1. \A m \in i .. j - 1 : w[m] \in Text
      <4> SUFFICES ASSUME NEW m \in i .. j - 1
                   PROVE  w[m] \in Text
        OBVIOUS
      <4>1. m \in 0 .. MAX_PROMPT - 1 /\ m # j /\ m \in a .. e - 1
        BY <1>2, <1>3
      <4>2. QED
        BY <1>2, <2>3, <4>1
    <3>2. i <= j /\ j < MAX_PROMPT /\ w[j] = NUL
      BY <1>2, <1>3, <2>2, <2>3
    <3>3. QED
      BY <2>3, <3>1, <3>2 DEF StringIn, Lines
  <2>5. Str(w, i, j) = Str(v, i, j)
    <3>1. \A k \in 1 .. j - i : w[i + k - 1] = v[i + k - 1]
      <4> SUFFICES ASSUME NEW k \in 1 .. j - i
                   PROVE  w[i + k - 1] = v[i + k - 1]
        OBVIOUS
      <4>1. i + k - 1 \in 0 .. MAX_PROMPT - 1 /\ i + k - 1 # j
        BY <1>2, <1>3, <2>2
      <4>2. QED
        BY <2>3, <4>1
    <3>2. QED
      BY <3>1 DEF Str
  <2>6. StringIn(w, j + 1, e)
    <3>1. \A m \in j + 1 .. e - 1 : w[m] \in Text
      <4> SUFFICES ASSUME NEW m \in j + 1 .. e - 1
                   PROVE  w[m] \in Text
        OBVIOUS
      <4>1. m \in 0 .. MAX_PROMPT - 1 /\ m # j /\ m \in a .. e - 1
        BY <1>2, <1>3
      <4>2. QED
        BY <1>2, <2>3, <4>1
    <3>2. e \in 0 .. MAX_PROMPT - 1 /\ j + 1 \in Nat /\ j + 1 <= e
      BY <1>2, <2>2
    <3>3. QED
      BY <1>2, <1>9, <2>3, <3>1, <3>2 DEF StringIn, Lines
  <2>7. Str(w, j + 1, e) = Str(v, j + 1, e)
    <3>1. \A k \in 1 .. e - (j + 1) : w[(j + 1) + k - 1] = v[(j + 1) + k - 1]
      <4> SUFFICES ASSUME NEW k \in 1 .. e - (j + 1)
                   PROVE  w[(j + 1) + k - 1] = v[(j + 1) + k - 1]
        OBVIOUS
      <4>1. (j + 1) + k - 1 \in 0 .. MAX_PROMPT - 1 /\ (j + 1) + k - 1 # j
        BY <1>2, <1>3, <2>2
      <4>2. QED
        BY <2>3, <4>1
    <3>2. QED
      BY <3>1 DEF Str
  <2>8. Argument(t) = Str(v, i, j)
    BY <1>6, <2>1, <2>4, <2>5, StringAtIs DEF Argument
  <2>9. Rest(l) = Str(w, j + 1, e)
    BY <1>4, <2>2, <2>7
  <2>10. QED
    BY <1>4, <2>1, <2>6, <2>8, <2>9 DEF Remains, t, l
<1>10. QED
  BY <1>7, <1>8, <1>9

(* At the end of the line nothing is left, and that is found out.          *)
LEMMA NothingRemains ==
  ASSUME NEW t, NEW e, NEW l, Remains(t, e, l),
         t.saved = NULL \/ At(t.val, t.saved) = NUL
  PROVE  l = << >>
<1>1. CASE t.saved = NULL
  <2>1. ~StringIn(t.val, t.saved, e)
    BY <1>1 DEF StringIn, NULL
  <2>2. QED
    BY <2>1 DEF Remains
<1>2. CASE t.saved # NULL /\ At(t.val, t.saved) = NUL
  <2>1. StringIn(t.val, t.saved, e) /\ l = Str(t.val, t.saved, e)
    BY <1>2 DEF Remains
  <2>2. t.saved = e /\ e \in Nat
    BY <1>2, <2>1, StringInFacts
  <2>3. QED
    BY <2>1, <2>2, NoString
<1>3. QED
  BY <1>1, <1>2

LEMMA NextWord ==
  ASSUME NEW t, NEW e, NEW l, Remains(t, e, l)
  PROVE  /\ Argument(my_strtok(t.val, t.saved, Space)) = FirstWord(l)
         /\ Remains(my_strtok(t.val, t.saved, Space), e, Rest(l))
<1> DEFINE u == my_strtok(t.val, t.saved, Space)
<1>1. CASE t.saved = NULL \/ At(t.val, t.saved) = NUL
  <2>1. l = << >>
    BY <1>1, NothingRemains
  <2>2. FirstWord(l) = << >> /\ Rest(l) = << >>
    BY <2>1, NoWords
  <2>3. u = Token(NULL, t.saved, t.val)
    BY <1>1 DEF my_strtok
  <2>4. u.start = NULL /\ u.saved = t.saved /\ u.val = t.val
    BY <2>3, TokenParts
  <2> HIDE DEF u
  <2>5. Argument(u) = << >>
    BY <2>4 DEF Argument
  <2>6. Remains(u, e, Rest(l))
    BY <2>1, <2>2, <2>4 DEF Remains
  <2>7. QED
    BY <2>2, <2>5, <2>6 DEF u
<1>2. CASE ~(t.saved = NULL \/ At(t.val, t.saved) = NUL)
  <2>1. u = NextToken(t.val, t.saved, Space)
    BY <1>2 DEF my_strtok
  <2>2. StringIn(t.val, t.saved, e) /\ l = Str(t.val, t.saved, e)
    BY <1>2 DEF Remains
  <2>3. QED
    BY <2>1, <2>2, TokenOfLine
<1>3. QED
  BY <1>1, <1>2

LEMMA LastWord ==
  ASSUME NEW t, NEW e, NEW l, Remains(t, e, l)
  PROVE  Argument(my_strtok(t.val, t.saved, NUL)) = l
<1> DEFINE u == my_strtok(t.val, t.saved, NUL)
<1>1. CASE t.saved = NULL \/ At(t.val, t.saved) = NUL
  <2>1. l = << >>
    BY <1>1, NothingRemains
  <2>2. u.start = NULL
    BY <1>1, TokenParts DEF my_strtok
  <2>3. QED
    BY <2>1, <2>2 DEF Argument
<1>2. CASE ~(t.saved = NULL \/ At(t.val, t.saved) = NUL)
  <2>1. u = NextToken(t.val, t.saved, NUL)
    BY <1>2 DEF my_strtok
  <2>2. StringIn(t.val, t.saved, e) /\ l = Str(t.val, t.saved, e)
    BY <1>2 DEF Remains
  <2>3. t.saved < e /\ t.saved # NULL
    BY <1>2, <2>2, StringInFacts
  <2>4. u = Token(t.saved, e, t.val)
    BY <2>1, <2>2, <2>3, LastToken
  <2>5. u.start = t.saved /\ u.val = t.val
    BY <2>4, TokenParts
  <2> HIDE DEF u
  <2>6. Argument(u) = StringAt(t.val, t.saved)
    BY <2>3, <2>5 DEF Argument
  <2>7. QED
    BY <2>2, <2>6, StringAtIs DEF u
<1>3. QED
  BY <1>1, <1>2

(* my_strtok, called as the commands call it, gives the words of the line  *)
(* that was typed, for every line and every length of its array, and never *)
(* goes on behind its end.                                                 *)
THEOREM CommandsGetTheirWords == ConsoleSpec => []TokensAreTheWords
<1>1. TypeInv /\ LineInv => TokensAreTheWords
  <2> SUFFICES ASSUME TypeInv, LineInv, mode = "given"
               PROVE  /\ Argument(CommandToken) = FirstWord(StringAt(prompt_val, 0))
                      /\ Argument(OneArgument) = Rest(StringAt(prompt_val, 0))
                      /\ Argument(FirstOfTwo) = FirstWord(Rest(StringAt(prompt_val, 0)))
                      /\ Argument(SecondOfTwo) = Rest(Rest(StringAt(prompt_val, 0)))
    BY DEF TokensAreTheWords
  <2> DEFINE e == prompt_size
             l == Str(prompt_val, 0, e)
  <2>1. StringIn(prompt_val, 0, e)
    <3>1. e \in Nat /\ e < MAX_PROMPT /\ prompt_val \in Lines
      BY ConsoleAssumption DEF TypeInv
    <3>2. QED
      BY <3>1 DEF StringIn, LineInv
  <2>2. StringAt(prompt_val, 0) = l
    BY <2>1, StringAtIs
  <2>3. Argument(CommandToken) = FirstWord(l) /\ Remains(CommandToken, e, Rest(l))
    BY <2>1, TokenOfLine DEF CommandToken
  <2> HIDE DEF l, e
  <2>4. Argument(OneArgument) = Rest(l)
    BY <2>3, LastWord DEF OneArgument
  <2>5. Argument(FirstOfTwo) = FirstWord(Rest(l)) /\ Remains(FirstOfTwo, e, Rest(Rest(l)))
    BY <2>3, NextWord DEF FirstOfTwo
  <2>6. Argument(SecondOfTwo) = Rest(Rest(l))
    BY <2>5, LastWord DEF SecondOfTwo
  <2>7. QED
    BY <2>2, <2>3, <2>4, <2>5, <2>6
<1>2. QED
  BY <1>1, TypesAlways, LineAlways, PTL
=============================================================================
