------------------------------- MODULE Console -------------------------------
(***************************************************************************)
(* Keyboard, prompt and screen together: the keyboard interrupts the shell *)
(* between any two of its system calls, and the clock, a process of its    *)
(* own, writes to its row at any time.  The shell polls for characters,    *)
(* echoes them and edits its line (get_prompt in usermode/user-shell.c),   *)
(* splits the line (my_strtok) and runs a command, of which only what it   *)
(* prints matters here.  What the shell computes between two system calls  *)
(* nobody else sees; it is one step with one of them.                      *)
(***************************************************************************)
EXTENDS Keyboard, Framebuffer, Sequences

CONSTANTS
  MAX_PROMPT,   \* bytes of the line
  ArrowBound,   \* bound: arrow keys in a run
  ArrowsFree    \* bound: FALSE if arrow keys come, and things happen
                \* after them, only as ArrowMayCome and Unbounded say

(* A line and its prompt stay on the screen, whatever scrolls.             *)
ASSUME ConsoleAssumption ==
  /\ MAX_PROMPT \in Nat \ {0} /\ MAX_PROMPT <= (BOTTOM - 1) * BUFFER_WIDTH + 1
  /\ ArrowBound \in Nat /\ ArrowsFree \in BOOLEAN

VARIABLES
  prompt_val, prompt_size,   \* of the shell's state
  char,      \* c of get_prompt
  mode,      \* boot, polling, got a character, line given,
             \* running a command, cleared
  ups, downs,   \* arrow keys so far
  intact     \* since the prompt was printed no Up key came, and the text
             \* has not left its rows

shell  == <<prompt_val, prompt_size, char, mode>>
arrows == <<ups, downs>>
consoleVars == <<keyboard_state, screen, shell, ups, downs, intact>>

NoLine == [i \in 0 .. MAX_PROMPT - 1 |-> NUL]

ConsoleInit ==
  /\ KeyboardInit /\ FramebufferInit
  /\ prompt_val = NoLine /\ prompt_size = 0 /\ char = NUL
  /\ mode = "boot" /\ ups = 0 /\ downs = 0 /\ intact = FALSE

(* A character of the user's, of a command, or the end of a row.           *)
Typed   == "typed"
Printed == "printed"
fputc(s, c) == IF c = Newline THEN framebuffer_newline(s) ELSE framebuffer_put(s, c)

Show(s) == screen' = s /\ intact' = (intact /\ s.row <= BOTTOM)
Quiet == UNCHANGED <<screen, intact>>

---------------------------------------------------------------------------
(* Interrupts and the clock                                                *)

(* Unless arrows are free, an arrow key comes while no modifier is active  *)
(* and no character waits; from then on only keys come that do not depend  *)
(* on a modifier, and commands print nothing and end by clearing the       *)
(* screen.                                                                 *)
Unbounded == ~ArrowsFree => ups = 0 /\ downs = 0
ArrowMayCome ==
  /\ ups + downs < ArrowBound
  /\ ~ArrowsFree => /\ ~keyboard_state.shift_pressed
                    /\ ~keyboard_state.caps_active
                    /\ keyboard_state.keyboard_buffer = NUL
KeysNow == IF Unbounded THEN Keys ELSE {"letter", "backspace", "enter"}

KeyboardInterrupt ==
  /\ \/ \E key \in KeysNow : PressKey(key)
     \/ Unbounded /\ (PressShift \/ ReleaseShift \/ PressCapsLock)
  /\ Quiet /\ UNCHANGED <<shell, arrows>>

PressUp ==
  /\ keyboard_state.keyboard_input_on
  /\ ArrowMayCome
  /\ screen' = framebuffer_scroll_up(screen)
  /\ intact' = FALSE
  /\ ups' = ups + 1
  /\ UNCHANGED <<keyboard_state, shell, downs>>

PressDown ==
  /\ keyboard_state.keyboard_input_on
  /\ ArrowMayCome
  /\ Show(framebuffer_scroll_down(screen))
  /\ downs' = downs + 1
  /\ UNCHANGED <<keyboard_state, shell, ups>>

ClockWrites ==
  /\ \E col \in CLOCK_COLUMNS :
       Show(framebuffer_write(screen, CLOCK_ROW, col, ClockCell))
  /\ UNCHANGED <<keyboard_state, shell, arrows>>

---------------------------------------------------------------------------
(* The shell                                                               *)

(* The first system call of main.                                          *)
Activate ==
  /\ mode = "boot"
  /\ keyboard_state_activate
  /\ mode' = "cleared"
  /\ Quiet /\ UNCHANGED <<prompt_val, prompt_size, char, arrows>>

(* One cell stands for the prompt.                                         *)
PrintPrompt ==
  /\ mode = "cleared" \/ (mode = "running" /\ Unbounded)
  /\ screen' = framebuffer_put(screen, Printed)
  /\ intact' = (screen.row <= BOTTOM /\ screen'.row <= BOTTOM)
  /\ mode' = "polling"
  /\ UNCHANGED <<keyboard_state, prompt_val, prompt_size, char, arrows>>

GetPrompt ==
  /\ mode = "polling"
  /\ char' = keyboard_state.keyboard_buffer
  /\ mode' = IF char' = NUL THEN "polling" ELSE "got"
  /\ get_keyboard_buffer
  /\ Quiet /\ UNCHANGED <<prompt_val, prompt_size, arrows>>

(* The byte behind the last one of the line is overwritten, not the last.  *)
Erase ==
  /\ mode = "got" /\ char = Backspace
  /\ mode' = "polling"
  /\ IF prompt_size > 0
     THEN /\ prompt_val' = [prompt_val EXCEPT ![prompt_size] = Backspace]
          /\ prompt_size' = prompt_size - 1
          /\ Show(framebuffer_clear_delete(screen))
     ELSE Quiet /\ UNCHANGED <<prompt_val, prompt_size>>
  /\ char' = NUL
  /\ UNCHANGED <<keyboard_state, arrows>>

IsOverTooLate == char = Newline \/ prompt_size = MAX_PROMPT
IsOver == char = Newline \/ prompt_size = MAX_PROMPT - 1
Unterminated(val) == val
Terminated(val) == [val EXCEPT ![prompt_size] = NUL]

(* The character is on the screen before it is found to be one too many.   *)
Echo ==
  /\ mode = "got" /\ char # Backspace
  /\ Show(fputc(screen, IF char = Newline THEN char ELSE Typed))
  /\ IF IsOver
     THEN /\ prompt_val' = Terminated(prompt_val)
          /\ mode' = "given"
          /\ UNCHANGED prompt_size
     ELSE /\ prompt_val' = [prompt_val EXCEPT ![prompt_size] = char]
          /\ prompt_size' = prompt_size + 1
          /\ mode' = "polling"
  /\ char' = NUL
  /\ UNCHANGED <<keyboard_state, arrows>>

(* The line is split and nobody reads it again: clear_prompt, with which   *)
(* the next one starts, is done here.                                      *)
RunPrompt ==
  /\ mode = "given"
  /\ prompt_val' = NoLine /\ prompt_size' = 0
  /\ mode' = "running"
  /\ Quiet /\ UNCHANGED <<keyboard_state, char, arrows>>

(* Of the commands play clears the screen and prints on.                   *)
CommandPrints ==
  /\ mode = "running"
  /\ Unbounded
  /\ \/ \E c \in {Printed, Newline} : Show(fputc(screen, c))
     \/ Show(framebuffer_clear(screen))
  /\ UNCHANGED <<keyboard_state, shell, arrows>>

CommandClears ==
  /\ mode = "running"
  /\ Show(framebuffer_clear(screen))
  /\ mode' = "cleared"
  /\ UNCHANGED <<keyboard_state, prompt_val, prompt_size, char, arrows>>

ConsoleNext ==
  \/ KeyboardInterrupt \/ PressUp \/ PressDown \/ ClockWrites
  \/ Activate \/ PrintPrompt \/ GetPrompt \/ Erase \/ Echo
  \/ RunPrompt \/ CommandPrints \/ CommandClears

(* The scheduler lets the shell go on, and each command comes to an end.   *)
ConsoleSpec ==
  /\ ConsoleInit /\ [][ConsoleNext]_consoleVars
  /\ WF_consoleVars(Activate) /\ WF_consoleVars(PrintPrompt \/ CommandClears)
  /\ WF_consoleVars(GetPrompt) /\ WF_consoleVars(Erase) /\ WF_consoleVars(Echo)
  /\ WF_consoleVars(RunPrompt)

---------------------------------------------------------------------------
(* Splitting the line                                                      *)

NULL == -1
At(val, i) == IF i = MAX_PROMPT THEN NUL ELSE val[i]

(* The string at i, up to the next zero.                                   *)
StringAt(val, i) ==
  LET end == CHOOSE n \in i .. MAX_PROMPT :
               At(val, n) = NUL /\ \A m \in i .. n - 1 : val[m] # NUL
  IN [k \in 1 .. end - i |-> val[i + k - 1]]

(* One call: the token's start and the new values of saved_token and of    *)
(* the string.                                                             *)
Token(start, saved, val) == [start |-> start, saved |-> saved, val |-> val]
NextToken(val, saved, delim) ==
  LET start == CHOOSE n \in saved .. MAX_PROMPT :
                 /\ At(val, n) # delim \/ n = MAX_PROMPT
                 /\ \A m \in saved .. n - 1 : val[m] = delim
      end   == CHOOSE n \in start .. MAX_PROMPT :
                 /\ At(val, n) \in {NUL, delim}
                 /\ \A m \in start .. n - 1 : val[m] \notin {NUL, delim}
  IN IF At(val, start) = NUL THEN Token(NULL, NULL, val)
     ELSE IF At(val, end) = NUL THEN Token(start, end, val)
     ELSE Token(start, end + 1, [val EXCEPT ![end] = NUL])
my_strtok_unchecked(val, saved, delim) ==
  IF saved = NULL THEN Token(NULL, saved, val) ELSE NextToken(val, saved, delim)
my_strtok(val, saved, delim) ==
  IF saved = NULL \/ At(val, saved) = NUL THEN Token(NULL, saved, val)
  ELSE NextToken(val, saved, delim)

(* The token of run_prompt, its argument for most commands, and its two    *)
(* for cp, mv and write.  No argument is the empty string here.            *)
Argument(t) == IF t.start = NULL THEN << >> ELSE StringAt(t.val, t.start)
CommandToken  == NextToken(prompt_val, 0, Space)
OneArgument   == my_strtok(CommandToken.val, CommandToken.saved, NUL)
FirstOfTwo    == my_strtok(CommandToken.val, CommandToken.saved, Space)
SecondOfTwo   == my_strtok(FirstOfTwo.val, FirstOfTwo.saved, NUL)

---------------------------------------------------------------------------
(* Properties                                                              *)

ConsoleTypeOK ==
  /\ KeyboardTypeOK
  /\ screen.row \in Rows /\ screen.col \in Columns
  /\ \A r \in Rows, c \in Columns :
       screen.cell[r][c] \in {Cleared, Erased, Typed, Printed, ClockCell}
  /\ DOMAIN prompt_val = 0 .. MAX_PROMPT - 1
  /\ \A i \in DOMAIN prompt_val : prompt_val[i] \in Chars
  /\ prompt_size \in 0 .. MAX_PROMPT - 1
  /\ char \in Chars
  /\ mode \in {"boot", "cleared", "polling", "got", "given", "running"}
  /\ ups + downs \in 0 .. ArrowBound /\ intact \in BOOLEAN

(* The cell k places before the cursor, lines being continued.             *)
CellBack(k) ==
  LET place == screen.row * BUFFER_WIDTH + screen.col - k
  IN screen.cell[place \div BUFFER_WIDTH][place % BUFFER_WIDTH]

(* Echo and erasure keep the screen in step with the line, over the ends   *)
(* of rows, while the screen scrolls and whatever the clock writes: the    *)
(* cells before the cursor show the line, and before it stands the prompt, *)
(* which no erasure reaches.                                               *)
EchoIsExact ==
  mode \in {"polling", "got"} /\ intact =>
    /\ prompt_size < screen.row * BUFFER_WIDTH + screen.col
    /\ \A k \in 1 .. prompt_size : CellBack(k) = Typed
    /\ CellBack(prompt_size + 1) = Printed

(* Scrolling is done at one row only; no key but Down makes text miss it   *)
(* and run into the clock.                                                 *)
TextStaysAboveTheClock ==
  downs = 0 =>
    /\ screen.row <= BOTTOM
    /\ \A r \in BOTTOM .. CLOCK_ROW, c \in Columns :
         screen.cell[r][c] \in {Cleared, ClockCell}

EditedLine == [i \in 1 .. prompt_size |-> prompt_val[i - 1]]
Editing == mode \in {"polling", "got"}

Editor == INSTANCE LineEditor WITH
  NoKey <- NUL, EraseKey <- Backspace, EndKey <- Newline, TextKeys <- Text,
  MaxLine <- MAX_PROMPT - 1,
  mailbox <- keyboard_state.keyboard_buffer,
  taken   <- IF mode = "got" THEN char ELSE NUL,
  line    <- IF Editing THEN EditedLine ELSE StringAt(prompt_val, 0),
  editing <- Editing

(* The string a command gets is the line that was typed, less what was     *)
(* erased, although bytes of erased characters stay behind its end; and    *)
(* it is never longer than its array.                                      *)
LineIsKept == Editor!LineSpec

(* The words of a line, and what follows the space after the first one.    *)
SplitsAt(l, i, j) ==
  /\ i <= j
  /\ \A n \in 1 .. i : l[n] = Space
  /\ \A n \in i + 1 .. j : l[n] # Space
  /\ i < Len(l) => l[i + 1] # Space
  /\ j < Len(l) => l[j + 1] = Space
FirstWord(l) ==
  LET s == CHOOSE s \in (0 .. Len(l)) \X (0 .. Len(l)) : SplitsAt(l, s[1], s[2])
  IN SubSeq(l, s[1] + 1, s[2])
Rest(l) ==
  LET s == CHOOSE s \in (0 .. Len(l)) \X (0 .. Len(l)) : SplitsAt(l, s[1], s[2])
  IN SubSeq(l, s[2] + 2, Len(l))

(* my_strtok gives a command its words, and with the delimiter zero all    *)
(* that is left; it never goes on behind the end of the line, into what    *)
(* was erased.                                                             *)
TokensAreTheWords ==
  mode = "given" =>
    LET l == StringAt(prompt_val, 0) IN
      /\ Argument(CommandToken) = FirstWord(l)
      /\ Argument(OneArgument) = Rest(l)
      /\ Argument(FirstOfTwo) = FirstWord(Rest(l))
      /\ Argument(SecondOfTwo) = Rest(Rest(l))

(* A character that was typed does not stay in the buffer for ever.        *)
EveryKeyIsTaken ==
  keyboard_state.keyboard_buffer # NUL ~> keyboard_state.keyboard_buffer = NUL
=============================================================================
