------------------------------ MODULE Keyboard ------------------------------
(***************************************************************************)
(* The keyboard of code/driver/keyboard.c: one character of buffer, filled *)
(* by the interrupt and emptied by system call 10.  Keys stand for all of  *)
(* a kind, and the case of letters is left out.  alt_pressed, ctrl_pressed *)
(* and buffer_filled are written and never read.                           *)
(***************************************************************************)
EXTENDS Naturals

VARIABLE keyboard_state

NUL       == ""
Letter    == "x"
Space     == " "
Backspace == "backspace"
Newline   == "newline"
Text  == {Letter, Space}
Chars == Text \cup {NUL, Backspace, Newline}

Keys == {"letter", "space", "backspace", "enter", "function key"}

ascii_map ==
  [key \in Keys |-> CASE key = "letter"       -> Letter
                      [] key = "space"        -> Space
                      [] key = "backspace"    -> Backspace
                      [] key = "enter"        -> Newline
                      [] key = "function key" -> NUL]
(* This map ends before the space bar.                                     *)
ascii_map_shift_pressed == [ascii_map EXCEPT !["space"] = NUL]
ascii_map_caps == ascii_map

Character(key) ==
  IF keyboard_state.caps_active THEN ascii_map_caps[key]
  ELSE IF keyboard_state.shift_pressed THEN ascii_map_shift_pressed[key]
  ELSE ascii_map[key]

KeyboardInit ==
  keyboard_state = [keyboard_input_on |-> FALSE, keyboard_buffer |-> NUL,
                    shift_pressed |-> FALSE, caps_active |-> FALSE]

(* keyboard_isr, but for the arrow keys.  The release of another key than  *)
(* a modifier changes nothing.                                             *)
PressKey(key) ==
  /\ keyboard_state.keyboard_input_on
  /\ keyboard_state' = [keyboard_state EXCEPT !.keyboard_buffer = Character(key)]
PressShift ==
  /\ keyboard_state.keyboard_input_on
  /\ keyboard_state' = [keyboard_state EXCEPT !.shift_pressed = TRUE]
ReleaseShift ==
  /\ keyboard_state.keyboard_input_on
  /\ keyboard_state' = [keyboard_state EXCEPT !.shift_pressed = FALSE]
PressCapsLock ==
  /\ keyboard_state.keyboard_input_on
  /\ keyboard_state' = [keyboard_state EXCEPT !.caps_active = ~@]

keyboard_state_activate ==
  keyboard_state' = [keyboard_state EXCEPT !.keyboard_input_on = TRUE]

(* What the caller gets is the value before the step.                      *)
KeyboardUnflushed == UNCHANGED keyboard_state
get_keyboard_buffer ==
  keyboard_state' = [keyboard_state EXCEPT !.keyboard_buffer = NUL]

KeyboardTypeOK ==
  keyboard_state \in [keyboard_input_on : BOOLEAN, keyboard_buffer : Chars,
                      shift_pressed : BOOLEAN, caps_active : BOOLEAN]
=============================================================================
