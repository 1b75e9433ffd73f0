-------------------------------- MODULE Clock --------------------------------
(***************************************************************************)
(* The program clock/clock.c with read_rtc of code/driver/cmos.c, beside   *)
(* the real time clock it reads one register at a time.  The chip counts   *)
(* on meanwhile: an update takes a while, in which each register changes   *)
(* at some moment, and may come between any two instructions, for the      *)
(* scheduler may hold the program up anywhere.                             *)
(***************************************************************************)
EXTENDS Integers

CONSTANTS
  Seconds,         \* bound: the seconds of the day that are looked at
  UpdatesPerCall   \* bound: updates while the time is read and shown

SecondsPerDay == 24 * 60 * 60

ASSUME ClockAssumption ==
  /\ Seconds \subseteq 0 .. SecondsPerDay - 1
  /\ UpdatesPerCall \in Nat

VARIABLES
  now,        \* the time of the chip, in seconds
  updating,   \* its flag: an update is in progress
  format,     \* its register B: whether binary, whether of 24 hours
  updates,    \* those since the program began to read
  pc,         \* what the program does next
  time,       \* hour, minute and second, as read or converted
  last,       \* the reading before
  shown       \* the two digits of each on the screen

chip    == <<now, updating, updates>>
program == <<pc, time, last, shown>>
clockVars == <<chip, program, format>>

Parts == {"second", "minute", "hour"}
Reading == [Parts -> 0 .. 255]
NoReading == [part \in Parts |-> 256]
Blank == [part \in Parts |-> <<0, 0>>]

---------------------------------------------------------------------------
(* The chip                                                                *)

Later(t) == (t + 1) % SecondsPerDay

Of(t) == [second |-> t % 60, minute |-> (t \div 60) % 60, hour |-> t \div 3600]

(* A number as the chip has it, and an hour with the mark of the afternoon *)
(* in its topmost bit.                                                     *)
Encoded(n) == IF format.binary THEN n ELSE 16 * (n \div 10) + (n % 10)
OnTheDial(h) == IF h % 12 = 0 THEN 12 ELSE h % 12
Register(part, t) ==
  LET n == Of(t)[part]
  IN IF part # "hour" \/ format.whole THEN Encoded(n)
     ELSE Encoded(OnTheDial(n)) + (IF n >= 12 THEN 128 ELSE 0)

BeginUpdate ==
  /\ ~updating
  /\ Later(now) \in Seconds /\ updates < UpdatesPerCall
  /\ updating' = TRUE /\ updates' = updates + 1
  /\ UNCHANGED <<now, format, program>>
EndUpdate ==
  /\ updating
  /\ now' = Later(now) /\ updating' = FALSE
  /\ UNCHANGED <<updates, format, program>>

get_RTC_register(part) ==
  {Register(part, now)} \cup IF updating THEN {Register(part, Later(now))} ELSE {}

---------------------------------------------------------------------------
(* The program                                                             *)

ClockInit ==
  /\ now \in Seconds /\ updating = FALSE /\ updates = 0
  /\ format \in [binary : BOOLEAN, whole : BOOLEAN]
  /\ pc = "wait" /\ time = [part \in Parts |-> 0] /\ last = NoReading /\ shown = Blank

(* While the flag is up it is asked for again.                             *)
Wait ==
  /\ pc = "wait" /\ ~updating
  /\ pc' = "second"
  /\ UNCHANGED <<chip, format, time, last, shown>>

ReadSecond ==
  /\ pc = "second"
  /\ \E v \in get_RTC_register("second") : time' = [time EXCEPT !.second = v]
  /\ pc' = "minute"
  /\ UNCHANGED <<chip, format, last, shown>>

ReadMinute ==
  /\ pc = "minute"
  /\ \E v \in get_RTC_register("minute") : time' = [time EXCEPT !.minute = v]
  /\ pc' = "hour"
  /\ UNCHANGED <<chip, format, last, shown>>

AgreeInSeconds(one, other) == one.second = other.second
Agree(one, other) == one = other
KeptFirst(one, other) == IF one = NoReading THEN other ELSE one
Kept(one, other) == other

(* The first reading has none before it to agree with.                     *)
ReadHour ==
  /\ pc = "hour"
  /\ \E v \in get_RTC_register("hour") : time' = [time EXCEPT !.hour = v]
  /\ IF Agree(last, time') THEN pc' = "convert" /\ UNCHANGED last
     ELSE pc' = "wait" /\ last' = Kept(last, time')
  /\ UNCHANGED <<chip, format, shown>>

FromBcd(n) == (n % 16) + 10 * (n \div 16)
Afternoon(h) == h >= 128
FromBcdMarked(h) == FromBcd(h % 128) + (IF Afternoon(h) THEN 128 ELSE 0)
Binary(t) ==
  IF format.binary THEN t
  ELSE [second |-> FromBcd(t.second), minute |-> FromBcd(t.minute),
        hour |-> FromBcdMarked(t.hour)]
Whole(t) ==
  IF ~format.whole /\ Afternoon(t.hour) THEN [t EXCEPT !.hour = ((@ % 128) + 12) % 24]
  ELSE t
AdjustedFromZero(t) == [t EXCEPT !.hour = @ % 12]
(* Twelve hours, as main wants them.                                       *)
Adjusted(t) == [t EXCEPT !.hour = OnTheDial(@)]

Convert ==
  /\ pc = "convert"
  /\ time' = Adjusted(Whole(Binary(time)))
  /\ pc' = "show hour"
  /\ UNCHANGED <<chip, format, last, shown>>

(* Two system calls for the digits of each part; between them nothing      *)
(* happens that the program could notice.                                  *)
Digits(n) == <<n \div 10, n % 10>>
Show(part, n) == shown' = [shown EXCEPT ![part] = Digits(n)]

(* The time of the chip is taken to be seven hours behind.                 *)
print_time ==
  /\ \/ pc = "show hour" /\ Show("hour", time.hour + 7) /\ pc' = "show minute"
     \/ pc = "show minute" /\ Show("minute", time.minute) /\ pc' = "show second"
     \/ pc = "show second" /\ Show("second", time.second) /\ pc' = "delay"
  /\ UNCHANGED <<chip, format, time, last>>

Delay ==
  /\ pc = "delay"
  /\ pc' = "wait"
  /\ updates' = IF updating THEN 1 ELSE 0
  /\ last' = NoReading
  /\ UNCHANGED <<now, updating, format, time, shown>>

Program == Wait \/ ReadSecond \/ ReadMinute \/ ReadHour \/ Convert \/ print_time \/ Delay

ClockNext == BeginUpdate \/ EndUpdate \/ Program

(* An update comes to its end, and the scheduler lets the program go on.   *)
ClockSpec ==
  /\ ClockInit /\ [][ClockNext]_clockVars
  /\ WF_clockVars(EndUpdate) /\ WF_clockVars(Program)

---------------------------------------------------------------------------
(* Properties                                                              *)

(* What is converted are hours and minutes, whatever the chip's format.    *)
ClockTypeOK ==
  /\ now \in Seconds /\ updating \in BOOLEAN /\ updates \in 0 .. UpdatesPerCall
  /\ time \in Reading /\ last \in Reading \cup {NoReading}
  /\ pc \in {"show hour", "show minute", "show second", "delay"} =>
       time.hour \in 1 .. 12 /\ time.minute \in 0 .. 59 /\ time.second \in 0 .. 59

(* The times the chip had since the program began to read.                 *)
Times == {t \in Seconds : \E k \in 0 .. updates - (IF updating THEN 1 ELSE 0) : (t + k) % SecondsPerDay = now}

ShowsOn(t) ==
  /\ shown.second = Digits(Of(t).second)
  /\ shown.minute = Digits(Of(t).minute)
  /\ shown.hour = Digits(OnTheDial(Of(t).hour) + 7)

(* A time that is on the screen is one the clock really had while it was   *)
(* read: the parts of two times are never mixed, though an update may come *)
(* between any two registers, in either pass.                              *)
ShownTimeWasReal == pc = "delay" => \E t \in Times : ShowsOn(t)

(* Readings that differ do not go on for ever.                             *)
EveryReadEnds == pc = "wait" ~> pc = "delay"
=============================================================================
