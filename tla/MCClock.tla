------------------------------ MODULE MCClock ------------------------------
(* The seconds around the end of every hour, and two where only the second *)
(* or the minute gets another number of tens.                              *)
EXTENDS Clock

HourEnds == UNION {{3600 * h + 3598, 3600 * h + 3599, 3600 * h, 3600 * h + 1} : h \in 0 .. 23}
TensEnds == {8 * 3600 + 9, 8 * 3600 + 10, 20 * 3600 + 599, 20 * 3600 + 600}
MCSeconds == HourEnds \cup TensEnds
=============================================================================
