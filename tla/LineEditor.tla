----------------------------- MODULE LineEditor -----------------------------
(***************************************************************************)
(* What keyboard and prompt promise together: a mailbox of one key, where  *)
(* a key that comes too early takes the place of the one before it, and a  *)
(* line that is what was taken from the mailbox less what was erased.  A   *)
(* line that is given is exactly the line that was edited.                 *)
(***************************************************************************)
EXTENDS Naturals, Sequences

CONSTANTS NoKey, EraseKey, EndKey, TextKeys, MaxLine

VARIABLES
  mailbox,   \* the key not taken yet
  taken,     \* the key taken and not applied yet
  line,      \* the line being edited, or the one just given
  editing    \* whether a line is being edited

lineVars == <<mailbox, taken, line, editing>>

LineInit == mailbox = NoKey /\ taken = NoKey /\ line = << >> /\ editing = FALSE

Type ==
  /\ mailbox' \in TextKeys \cup {NoKey, EraseKey, EndKey}
  /\ UNCHANGED <<taken, line, editing>>

(* The line that was given is read once.                                   *)
Read ==
  /\ ~editing
  /\ line' = << >>
  /\ UNCHANGED <<mailbox, taken, editing>>

BeginLine ==
  /\ ~editing /\ line = << >>
  /\ editing' = TRUE
  /\ UNCHANGED <<mailbox, taken, line>>

Take ==
  /\ editing /\ taken = NoKey /\ mailbox # NoKey
  /\ taken' = mailbox /\ mailbox' = NoKey
  /\ UNCHANGED <<line, editing>>

Apply ==
  /\ taken # NoKey
  /\ taken' = NoKey
  /\ \/ /\ taken \in TextKeys /\ Len(line) < MaxLine
        /\ line' = Append(line, taken) /\ editing' = TRUE
     \/ /\ taken = EraseKey
        /\ line' = IF line = << >> THEN line ELSE SubSeq(line, 1, Len(line) - 1)
        /\ editing' = TRUE
     \/ /\ taken = EndKey \/ (taken \in TextKeys /\ Len(line) = MaxLine)
        /\ line' = line /\ editing' = FALSE
  /\ UNCHANGED mailbox

LineNext == Type \/ Read \/ BeginLine \/ Take \/ Apply

LineSpec == LineInit /\ [][LineNext]_lineVars
=============================================================================
