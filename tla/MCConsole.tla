----------------------------- MODULE MCConsole -----------------------------
(* A screen of 3 by 7 of which two rows hold text, and lines of 3 keys.   *)
EXTENDS Console
=============================================================================
