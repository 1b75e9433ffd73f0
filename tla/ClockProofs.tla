----------------------------- MODULE ClockProofs -----------------------------
(***************************************************************************)
(* The clock for every set of seconds that is looked at and every number   *)
(* of updates: what is shown is a time of day, and one that the chip had   *)
(* while it was read.                                                      *)
(*                                                                         *)
(* First the arithmetic of the registers, of the conversion and of times   *)
(* some updates ago; then the types; then the two readings and what it     *)
(* means that they agree.                                                  *)
(***************************************************************************)
EXTENDS Clock, TLAPS

Day == 0 .. SecondsPerDay - 1

LEMMA DayLength == SecondsPerDay = 86400
BY DEF SecondsPerDay

LEMMA TimeOfDay ==
  ASSUME NEW t \in Day
  PROVE  /\ Of(t).second = t % 60 /\ Of(t).second \in 0 .. 59
         /\ Of(t).minute = (t \div 60) % 60 /\ Of(t).minute \in 0 .. 59
         /\ Of(t).hour = t \div 3600 /\ Of(t).hour \in 0 .. 23
<1>1. t \in Nat /\ t <= 86399
  BY DayLength, SMTT(30) DEF Day
<1>2. t % 60 \in 0 .. 59
  BY <1>1
<1>3. (t \div 60) % 60 \in 0 .. 59
  BY <1>1
<1>4. t \div 3600 \in 0 .. 23
  BY <1>1
<1>5. QED
  BY <1>2, <1>3, <1>4 DEF Of

LEMMA PartNames == Parts = {"second", "minute", "hour"}
BY DEF Parts

(* Registers are bytes.                                                    *)
LEMMA EncodedType ==
  ASSUME NEW n \in 0 .. 59
  PROVE  Encoded(n) \in 0 .. 95
BY DEF Encoded

LEMMA DialType ==
  ASSUME NEW h \in 0 .. 23
  PROVE  OnTheDial(h) \in 1 .. 12
BY DEF OnTheDial

LEMMA RegisterOfSixty ==
  ASSUME NEW t \in Day
  PROVE  /\ Register("second", t) = Encoded(Of(t).second)
         /\ Register("minute", t) = Encoded(Of(t).minute)
         /\ Register("second", t) \in 0 .. 95
         /\ Register("minute", t) \in 0 .. 95
BY TimeOfDay, EncodedType DEF Register

LEMMA RegisterOfHour ==
  ASSUME NEW t \in Day
  PROVE  /\ Register("hour", t) =
              IF format.whole THEN Encoded(Of(t).hour)
              ELSE Encoded(OnTheDial(Of(t).hour)) + (IF Of(t).hour >= 12 THEN 128 ELSE 0)
         /\ Register("hour", t) \in 0 .. 255
<1>1. Of(t).hour \in 0 .. 23 /\ OnTheDial(Of(t).hour) \in 1 .. 12
  BY TimeOfDay, DialType
<1>2. Encoded(Of(t).hour) \in 0 .. 95 /\ Encoded(OnTheDial(Of(t).hour)) \in 0 .. 95
  BY <1>1, EncodedType
<1>3. Register("hour", t) =
              IF format.whole THEN Encoded(Of(t).hour)
              ELSE Encoded(OnTheDial(Of(t).hour)) + (IF Of(t).hour >= 12 THEN 128 ELSE 0)
  BY DEF Register
<1>4. QED
  BY <1>1, <1>2, <1>3

(* A register of sixty tells its number.                                   *)
LEMMA EncodedIsOneToOne ==
  ASSUME NEW m \in 0 .. 59, NEW n \in 0 .. 59, Encoded(m) = Encoded(n)
  PROVE  m = n
BY DEF Encoded

(* The conversion undoes the encoding.                                     *)
LEMMA SixtyConverted ==
  ASSUME NEW n \in 0 .. 59
  PROVE  (IF format.binary THEN Encoded(n) ELSE FromBcd(Encoded(n))) = n
BY DEF Encoded, FromBcd

WholeHour(h) ==
  IF ~format.whole /\ Afternoon(h) THEN ((h % 128) + 12) % 24 ELSE h

LEMMA HourConverted ==
  ASSUME NEW t \in Day
  PROVE  OnTheDial(WholeHour(IF format.binary THEN Register("hour", t)
                             ELSE FromBcdMarked(Register("hour", t))))
           = OnTheDial(Of(t).hour)
<1> DEFINE n == Of(t).hour
           r == Register("hour", t)
           b == IF format.binary THEN r ELSE FromBcdMarked(r)
<1>1. n \in 0 .. 23
  BY TimeOfDay
<1>2. r = IF format.whole THEN Encoded(n)
          ELSE Encoded(OnTheDial(n)) + (IF n >= 12 THEN 128 ELSE 0)
  BY RegisterOfHour
<1> HIDE DEF n, r
<1>3. CASE format.whole
  <2>1. r = IF format.binary THEN n ELSE 16 * (n \div 10) + (n % 10)
    BY <1>2, <1>3 DEF Encoded
  <2>2. b = n
    <3>1. CASE format.binary
      BY <2>1, <3>1
    <3>2. CASE ~format.binary
      <4>1. r \in Nat /\ r < 128 /\ r % 128 = r /\ FromBcd(r) = n
        BY <1>1, <2>1, <3>2 DEF FromBcd
      <4>2. QED
        BY <1>1, <3>2, <4>1 DEF FromBcdMarked, Afternoon
    <3>3. QED
      BY <3>1, <3>2
  <2>3. QED
    BY <1>3, <2>2 DEF WholeHour, n, r
<1>4. CASE ~format.whole
  <2> DEFINE m == OnTheDial(n)
  <2>1. m \in 1 .. 12 /\ (n >= 12 => (m + 12) % 24 \in 0 .. 23 /\ OnTheDial((m + 12) % 24) = m)
        /\ OnTheDial(m) = m
    BY <1>1 DEF OnTheDial
  <2>2. b = m + (IF n >= 12 THEN 128 ELSE 0)
    <3> HIDE DEF m
    <3>1. CASE format.binary
      <4>1. Encoded(m) = m
        BY <3>1 DEF Encoded
      <4>2. r = Encoded(m) + (IF n >= 12 THEN 128 ELSE 0)
        BY <1>2, <1>4 DEF m
      <4>3. QED
        BY <3>1, <4>1, <4>2
    <3>2. CASE ~format.binary
      <4>1. r = 16 * (m \div 10) + (m % 10) + (IF n >= 12 THEN 128 ELSE 0)
        BY <1>2, <1>4, <3>2 DEF Encoded, m
      <4>2. r % 128 = 16 * (m \div 10) + (m % 10) /\ (r >= 128 <=> n >= 12)
        BY <1>1, <2>1, <4>1
      <4>3. FromBcd(r % 128) = m
        BY <2>1, <4>2 DEF FromBcd
      <4>4. QED
        BY <3>2, <4>2, <4>3 DEF FromBcdMarked, Afternoon
    <3>3. QED
      BY <3>1, <3>2
  <2>3. WholeHour(b) = IF n >= 12 THEN (m + 12) % 24 ELSE m
    <3> HIDE DEF m, b
    <3>1. Afternoon(b) <=> n >= 12
      BY <1>1, <2>1, <2>2 DEF Afternoon
    <3>2. n >= 12 => b % 128 = m
      BY <1>1, <2>1, <2>2
    <3>3. n < 12 => b = m
      BY <1>1, <2>1, <2>2
    <3>4. QED
      BY <1>1, <1>4, <3>1, <3>2, <3>3 DEF WholeHour
  <2>4. OnTheDial(WholeHour(b)) = m
    BY <2>1, <2>3
  <2>5. QED
    BY <2>4 DEF n, r
<1>5. QED
  BY <1>3, <1>4

-----------------------------------------------------------------------------
(* Registers and times, as functions of the format and of the time of the  *)
(* chip: the time k updates ago, and for -1 the time it is updated to.     *)

Code(f, n) == IF f.binary THEN n ELSE 16 * (n \div 10) + (n % 10)
Reg(f, part, t) ==
  IF part # "hour" \/ f.whole THEN Code(f, Of(t)[part])
  ELSE Code(f, OnTheDial(Of(t)[part])) + (IF Of(t)[part] >= 12 THEN 128 ELSE 0)
AgoOf(n, k) ==
  IF k <= n THEN (IF n - k < 86400 THEN n - k ELSE 0) ELSE n - k + 86400

LEMMA RegisterIsReg == \A part, t : Register(part, t) = Reg(format, part, t)
BY DEF Register, Encoded, Reg, Code

LEMMA DayIs == \A n : n \in Day <=> n \in Nat /\ n < 86400
<1>1. SecondsPerDay - 1 = 86399
  BY DayLength
<1>2. QED
  BY <1>1 DEF Day

LEMMA BelowADay ==
  ASSUME NEW x \in Nat, x < 86400
  PROVE  x % 86400 = x
OBVIOUS

LEMMA BelowTwoDays ==
  ASSUME NEW x \in Nat, x >= 86400, x < 172800
  PROVE  x % 86400 = x - 86400
OBVIOUS

LEMMA LaterIs ==
  ASSUME NEW n \in Day
  PROVE  Later(n) = (IF n = 86399 THEN 0 ELSE n + 1) /\ Later(n) \in Day
<1>1. n \in Nat /\ n < 86400
  BY DayIs
<1>2. Later(n) = (n + 1) % 86400
  BY DayLength DEF Later
<1>3. n = 86399 => Later(n) = 0
  BY <1>2, BelowTwoDays
<1>4. n # 86399 => Later(n) = n + 1
  BY <1>1, <1>2, BelowADay
<1>5. QED
  BY <1>1, <1>3, <1>4, DayIs

(* The time k updates ago, over midnight.                                  *)
LEMMA AgoIsOfDay ==
  ASSUME NEW n \in Nat, n < 86400, NEW k \in Int, -1 <= k, k <= 61
  PROVE  AgoOf(n, k) \in Nat /\ AgoOf(n, k) < 86400
BY DEF AgoOf

LEMMA AgoOfNext ==
  ASSUME NEW n \in Nat, n < 86400, NEW k \in Int, -1 <= k, k <= 60,
         NEW m \in Nat, m = IF n = 86399 THEN 0 ELSE n + 1
  PROVE  AgoOf(m, k + 1) = AgoOf(n, k)
BY DEF AgoOf

LEMMA AgoAndOn ==
  ASSUME NEW n \in Nat, n < 86400, NEW k \in Int, 0 <= k, k <= 60
  PROVE  AgoOf(n, k) + k = IF k <= n THEN n ELSE n + 86400
BY DEF AgoOf

LEMMA AgoFacts ==
  ASSUME NEW n \in Day
  PROVE  /\ AgoOf(n, 0) = n
         /\ AgoOf(n, -1) = Later(n)
         /\ Later(n) \in Day
         /\ \A k \in -1 .. 61 : AgoOf(n, k) \in Day
         /\ \A k \in 0 .. 60 : (AgoOf(n, k) + k) % SecondsPerDay = n
         /\ \A k \in -1 .. 60 : AgoOf(Later(n), k + 1) = AgoOf(n, k)
<1>1. n \in Nat /\ n < 86400
  BY DayIs
<1>2. AgoOf(n, 0) = n /\ AgoOf(n, -1) = IF n = 86399 THEN 0 ELSE n + 1
  BY <1>1 DEF AgoOf
<1>3. Later(n) = (IF n = 86399 THEN 0 ELSE n + 1) /\ Later(n) \in Day
  BY LaterIs
<1>4. ASSUME NEW k \in -1 .. 61
      PROVE  AgoOf(n, k) \in Day
  BY <1>1, AgoIsOfDay, DayIs
<1>5. ASSUME NEW k \in 0 .. 60
      PROVE  (AgoOf(n, k) + k) % SecondsPerDay = n
  <2>1. AgoOf(n, k) + k = IF k <= n THEN n ELSE n + 86400
    BY <1>1, AgoAndOn
  <2>2. n % 86400 = n /\ (k > n => (n + 86400) % 86400 = n)
    BY <1>1, BelowADay, BelowTwoDays
  <2>3. CASE k <= n
    BY <2>1, <2>2, <2>3, DayLength
  <2>4. CASE k > n
    <3>1. AgoOf(n, k) + k = n + 86400
      BY <1>1, <2>1, <2>4
    <3>2. QED
      BY <2>2, <2>4, <3>1, DayLength
  <2>5. QED
    BY <1>1, <2>3, <2>4
<1>6. ASSUME NEW k \in -1 .. 60
      PROVE  AgoOf(Later(n), k + 1) = AgoOf(n, k)
  BY <1>1, <1>3, AgoOfNext, DayIs
<1>7. QED
  BY <1>2, <1>3, <1>4, <1>5, <1>6

(* Less than a minute apart, two times differ in their seconds.            *)
LEMMA SameSeconds ==
  ASSUME NEW a \in Nat, NEW b \in Nat, a % 60 = b % 60, a - b < 60, b - a < 60
  PROVE  a = b
OBVIOUS

LEMMA AgoApart ==
  ASSUME NEW n \in Nat, n < 86400, NEW j \in Int, NEW k \in Int,
         -1 <= j, j <= 60, -1 <= k, k <= 60,
         NEW x \in Nat, x = AgoOf(n, j), NEW y \in Nat, y = AgoOf(n, k)
  PROVE  x - y = k - j \/ (x + 86400) - y = k - j \/ x - (y + 86400) = k - j
BY DEF AgoOf

LEMMA SecondsTellApart ==
  ASSUME NEW f, NEW n \in Day, NEW j \in -1 .. 60, NEW k \in -1 .. 60,
         j - k < 60, k - j < 60,
         Reg(f, "second", AgoOf(n, j)) = Reg(f, "second", AgoOf(n, k))
  PROVE  j = k
<1> DEFINE x == AgoOf(n, j)
           y == AgoOf(n, k)
<1>1. x \in Day /\ y \in Day
  BY AgoFacts
<1>2. Of(x).second = x % 60 /\ Of(y).second = y % 60
      /\ x % 60 \in 0 .. 59 /\ y % 60 \in 0 .. 59
  BY <1>1, TimeOfDay
<1>3. Code(f, x % 60) = Code(f, y % 60)
  BY <1>2 DEF Reg
<1>4. x - y = k - j \/ (x + 86400) - y = k - j \/ x - (y + 86400) = k - j
  <2>1. n \in Nat /\ n < 86400
    BY DayIs
  <2>2. j \in Int /\ k \in Int /\ -1 <= j /\ j <= 60 /\ -1 <= k /\ k <= 60
    OBVIOUS
  <2>3. x \in Nat /\ y \in Nat
    BY <1>1, DayIs
  <2>4. QED
    BY <2>1, <2>2, <2>3, AgoApart
<1>5. x \in Nat /\ y \in Nat
  BY <1>1, DayIs
<1> HIDE DEF x, y
<1>6. x % 60 = y % 60
  <2>1. CASE f.binary
    BY <1>3, <2>1 DEF Code
  <2>2. CASE ~f.binary
    BY <1>2, <1>3, <2>2 DEF Code
  <2>3. QED
    BY <2>1, <2>2
<1>7. (x + 86400) % 60 = x % 60 /\ (y + 86400) % 60 = y % 60
  BY <1>5
<1>8. CASE x - y = k - j
  BY <1>5, <1>6, <1>8, SameSeconds
<1>9. CASE (x + 86400) - y = k - j
  <2> DEFINE a == x + 86400
  <2>1. a \in Nat /\ a % 60 = y % 60 /\ a - y = k - j
    BY <1>5, <1>6, <1>7, <1>9
  <2> HIDE DEF a
  <2>2. a = y
    BY <1>5, <2>1, SameSeconds
  <2>3. QED
    BY <1>5, <2>1, <2>2
<1>10. CASE x - (y + 86400) = k - j
  <2> DEFINE b == y + 86400
  <2>1. b \in Nat /\ x % 60 = b % 60 /\ x - b = k - j
    BY <1>5, <1>6, <1>7, <1>10
  <2> HIDE DEF b
  <2>2. x = b
    BY <1>5, <2>1, SameSeconds
  <2>3. QED
    BY <1>5, <2>1, <2>2
<1>11. QED
  BY <1>4, <1>8, <1>9, <1>10

LEMMA WithinTheMinute ==
  ASSUME NEW a \in Nat
  PROVE  /\ (a + 1) % 60 # 0 => (a + 1) \div 60 = a \div 60
         /\ \A c \in 0 .. 59 : a % 60 = 0 => (a + c) \div 60 = a \div 60
         /\ \A c \in 0 .. 59 : a % 60 = 0 /\ a < 86400 => a + c < 86400
OBVIOUS

LEMMA SameHour ==
  ASSUME NEW s \in Nat, NEW t \in Nat, s \div 60 = t \div 60
  PROVE  s \div 3600 = t \div 3600
OBVIOUS

LEMMA SameMinute ==
  ASSUME NEW f, NEW part \in {"minute", "hour"}, NEW s \in Day, NEW t \in Day,
         s \div 60 = t \div 60
  PROVE  Reg(f, part, s) = Reg(f, part, t)
<1>1. s \div 3600 = t \div 3600
  BY SameHour, DayIs
<1>2. Of(s).minute = Of(t).minute /\ Of(s).hour = Of(t).hour
  BY <1>1, TimeOfDay
<1>3. Of(s)[part] = Of(t)[part]
  BY <1>2
<1>4. QED
  BY <1>3 DEF Reg

(* A part that changes at a time does not change again within the minute.  *)
LEMMA AgoEarlier ==
  ASSUME NEW n \in Nat, n < 86400, NEW j \in Int, NEW k \in Int,
         -1 <= j, j <= k, k <= 61, NEW y \in Nat, y = AgoOf(n, k)
  PROVE  AgoOf(n, j) = IF y + (k - j) < 86400 THEN y + (k - j) ELSE y + (k - j) - 86400
BY DEF AgoOf

LEMMA AgoNext ==
  ASSUME NEW n \in Nat, n < 86400, NEW k \in Int, -1 <= k, k <= 60,
         NEW x \in Nat, x = AgoOf(n, k + 1)
  PROVE  AgoOf(n, k) = IF x + 1 < 86400 THEN x + 1 ELSE (x + 1) - 86400
BY DEF AgoOf

LEMMA PartsChangeOnce ==
  ASSUME NEW f, NEW n \in Day, NEW k \in -1 .. 59, NEW a \in -1 .. 59,
         a <= k, k - a < 60, NEW part \in {"minute", "hour"}
  PROVE  \/ Reg(f, part, AgoOf(n, k + 1)) = Reg(f, part, AgoOf(n, k))
         \/ Reg(f, part, AgoOf(n, a)) = Reg(f, part, AgoOf(n, k))
<1> DEFINE x == AgoOf(n, k + 1)
           y == AgoOf(n, k)
           z == AgoOf(n, a)
           c == k - a
<1>1. x \in Day /\ y \in Day /\ z \in Day
  BY AgoFacts
<1>2. x \in Nat /\ y \in Nat /\ z \in Nat /\ x < 86400 /\ y < 86400 /\ z < 86400
      /\ c \in 0 .. 59
  BY <1>1, DayIs
<1>3. /\ n \in Nat /\ n < 86400 /\ k \in Int /\ a \in Int /\ k + 1 \in Int
      /\ -1 <= a /\ a <= k /\ -1 <= k /\ k <= 60 /\ k <= 61
  BY DayIs
<1>4. z = IF y + c < 86400 THEN y + c ELSE y + c - 86400
  BY <1>2, <1>3, AgoEarlier
<1> HIDE DEF x, y, z, c
<1>5. y = IF x + 1 < 86400 THEN x + 1 ELSE (x + 1) - 86400
  BY <1>2, <1>3, AgoNext DEF x, y
<1>6. CASE y % 60 # 0
  <2>1. y = x + 1
    BY <1>2, <1>5, <1>6
  <2>2. x \div 60 = y \div 60
    BY <1>2, <1>6, <2>1, WithinTheMinute
  <2>3. Reg(f, part, x) = Reg(f, part, y)
    BY <1>1, <2>2, SameMinute
  <2>4. QED
    BY <2>3 DEF x, y
<1>7. CASE y % 60 = 0
  <2>1. z = y + c /\ z \div 60 = y \div 60
    BY <1>2, <1>4, <1>7, WithinTheMinute
  <2>2. Reg(f, part, z) = Reg(f, part, y)
    BY <1>1, <2>1, SameMinute
  <2>3. QED
    BY <2>2 DEF y, z
<1>8. QED
  BY <1>6, <1>7

-----------------------------------------------------------------------------
(* Types.                                                                  *)

Showing == {"show hour", "show minute", "show second", "delay"}
Steps == {"wait", "second", "minute", "hour", "convert"} \cup Showing
ReadAs(part) == \E t \in Day : time[part] = Reg(format, part, t)

StateTypes ==
  /\ now \in Seconds /\ updating \in BOOLEAN /\ updates \in 0 .. UpdatesPerCall
  /\ updating => updates >= 1 /\ Later(now) \in Seconds
  /\ format \in [binary : BOOLEAN, whole : BOOLEAN]
  /\ pc \in Steps
  /\ time \in Reading /\ last \in Reading \cup {NoReading}
ReadSoFar ==
  /\ pc \in {"minute", "hour", "convert"} => ReadAs("second")
  /\ pc \in {"hour", "convert"} => ReadAs("minute")
  /\ pc = "convert" => ReadAs("hour")
OnADial ==
  pc \in Showing =>
    time.hour \in 1 .. 12 /\ time.minute \in 0 .. 59 /\ time.second \in 0 .. 59

TypeInv == StateTypes /\ ReadSoFar /\ OnADial

LEMMA NowIsOfDay == TypeInv => now \in Day
BY ClockAssumption DEF TypeInv, StateTypes, Day

LEMMA RegTypes ==
  ASSUME NEW t \in Day
  PROVE  \A part \in Parts : Reg(format, part, t) \in 0 .. 255
<1>1. /\ Register("second", t) \in 0 .. 255 /\ Register("minute", t) \in 0 .. 255
      /\ Register("hour", t) \in 0 .. 255
  BY RegisterOfSixty, RegisterOfHour
<1>2. QED
  BY <1>1, RegisterIsReg, PartNames

(* What a register gives: the time of the chip, or the one after it.       *)
LEMMA RegisterRead ==
  ASSUME TypeInv, NEW part \in Parts, NEW v \in get_RTC_register(part)
  PROVE  \E a \in {0, -1} : /\ a = -1 => updating
                            /\ v = Reg(format, part, AgoOf(now, a))
                            /\ AgoOf(now, a) \in Day
<1>1. now \in Day
  BY NowIsOfDay
<1>2. v = Reg(format, part, now) \/ (updating /\ v = Reg(format, part, Later(now)))
  BY RegisterIsReg DEF get_RTC_register
<1>3. AgoOf(now, 0) = now /\ AgoOf(now, -1) = Later(now) /\ Later(now) \in Day
  BY <1>1, AgoFacts
<1>4. QED
  BY <1>1, <1>2, <1>3

LEMMA PartRead ==
  ASSUME TypeInv, NEW part \in Parts, NEW v \in get_RTC_register(part),
         time' = [time EXCEPT ![part] = v], format' = format
  PROVE  /\ time' \in Reading /\ time'[part] = v
         /\ \A other \in Parts : other # part => time'[other] = time[other]
         /\ ReadAs(part)'
         /\ \A other \in Parts : other # part /\ ReadAs(other) => ReadAs(other)'
<1>1. PICK t \in Day : v = Reg(format, part, t)
  BY RegisterRead
<1>2. v \in 0 .. 255
  BY <1>1, RegTypes
<1>3. /\ time' \in Reading /\ time'[part] = v
      /\ \A other \in Parts : other # part => time'[other] = time[other]
  BY <1>2 DEF TypeInv, StateTypes, Reading
<1>4. ReadAs(part)'
  BY <1>1, <1>3 DEF ReadAs
<1>5. ASSUME NEW other \in Parts, other # part, ReadAs(other)
      PROVE  ReadAs(other)'
  BY <1>3, <1>5 DEF ReadAs
<1>6. QED
  BY <1>3, <1>4, <1>5

(* What has been read of a time is converted to the numbers on a dial.     *)
LEMMA Converted ==
  ASSUME TypeInv, NEW s \in Day, NEW m \in Day, NEW h \in Day,
         time.second = Reg(format, "second", s),
         time.minute = Reg(format, "minute", m), time.hour = Reg(format, "hour", h)
  PROVE  /\ Adjusted(Whole(Binary(time))) \in Reading
         /\ Adjusted(Whole(Binary(time))).second = Of(s).second
         /\ Adjusted(Whole(Binary(time))).minute = Of(m).minute
         /\ Adjusted(Whole(Binary(time))).hour = OnTheDial(Of(h).hour)
<1> DEFINE b == Binary(time)
           w == Whole(b)
           hour == IF format.binary THEN time.hour ELSE FromBcdMarked(time.hour)
<1>1. /\ Of(s).second \in 0 .. 59 /\ Of(m).minute \in 0 .. 59
      /\ OnTheDial(Of(h).hour) \in 1 .. 12
  BY TimeOfDay, DialType
<1>2. /\ time.second = Encoded(Of(s).second) /\ time.minute = Encoded(Of(m).minute)
      /\ time.hour = Register("hour", h)
  BY RegisterIsReg, RegisterOfSixty
<1>3. b.second = Of(s).second /\ b.minute = Of(m).minute /\ b.hour = hour
      /\ DOMAIN b = Parts
  <2>1. DOMAIN time = Parts
    BY DEF TypeInv, StateTypes, Reading
  <2>2. CASE format.binary
    BY <1>1, <1>2, <2>1, <2>2, SixtyConverted DEF Binary
  <2>3. CASE ~format.binary
    BY <1>1, <1>2, <2>3, SixtyConverted DEF Binary, Parts
  <2>4. QED
    BY <2>2, <2>3
<1>4. OnTheDial(WholeHour(hour)) = OnTheDial(Of(h).hour)
  BY <1>2, HourConverted
<1> HIDE DEF b, hour
<1>5. w.second = b.second /\ w.minute = b.minute /\ w.hour = WholeHour(b.hour)
      /\ DOMAIN w = Parts
  BY <1>3, PartNames DEF Whole, WholeHour
<1> HIDE DEF w
<1>6. Adjusted(w) = [w EXCEPT !.hour = OnTheDial(w.hour)]
  BY <1>5, PartNames DEF Adjusted
<1>7. /\ Adjusted(w).second = w.second /\ Adjusted(w).minute = w.minute
      /\ Adjusted(w).hour = OnTheDial(w.hour) /\ DOMAIN Adjusted(w) = Parts
      /\ Adjusted(w) = [p \in Parts |-> Adjusted(w)[p]]
  BY <1>5, <1>6, PartNames
<1>8. /\ Adjusted(w).second = Of(s).second /\ Adjusted(w).minute = Of(m).minute
      /\ Adjusted(w).hour = OnTheDial(Of(h).hour)
  BY <1>3, <1>4, <1>5, <1>7
<1>9. \A p \in Parts : Adjusted(w)[p] \in 0 .. 255
  BY <1>1, <1>8, PartNames
<1>10. Adjusted(w) \in Reading
  BY <1>7, <1>9 DEF Reading
<1>11. QED
  BY <1>8, <1>10 DEF w, b

LEMMA InitTypes == ClockInit => TypeInv
<1> SUFFICES ASSUME ClockInit PROVE TypeInv
  OBVIOUS
<1>1. time \in Reading
  BY DEF ClockInit, Reading
<1>2. pc = "wait"
  BY DEF ClockInit
<1>3. StateTypes
  <2>1. updates \in 0 .. UpdatesPerCall
    BY ClockAssumption DEF ClockInit
  <2>2. QED
    BY <1>1, <1>2, <2>1 DEF ClockInit, StateTypes, Steps
<1>4. ReadSoFar /\ OnADial
  BY <1>2 DEF ReadSoFar, OnADial, Showing
<1>5. QED
  BY <1>3, <1>4 DEF TypeInv

LEMMA StepTypes == TypeInv /\ [ClockNext]_clockVars => TypeInv'
<1> SUFFICES ASSUME TypeInv, [ClockNext]_clockVars
             PROVE  TypeInv'
  OBVIOUS
<1> USE DEF chip, program
<1>a. StateTypes /\ ReadSoFar /\ OnADial
  BY DEF TypeInv
<1>b. (UNCHANGED <<time, format>>) => \A part \in Parts : ReadAs(part) => ReadAs(part)'
  BY DEF ReadAs
<1>c. UNCHANGED <<time, format, pc>> => ReadSoFar' /\ OnADial'
  BY <1>a, <1>b, PartNames DEF ReadSoFar, OnADial
<1>1. CASE BeginUpdate
  <2>1. StateTypes'
    BY <1>1, <1>a, ClockAssumption DEF BeginUpdate, StateTypes
  <2>2. QED
    BY <1>1, <1>c, <2>1 DEF BeginUpdate, TypeInv
<1>2. CASE EndUpdate
  <2>1. StateTypes'
    BY <1>2, <1>a DEF EndUpdate, StateTypes
  <2>2. QED
    BY <1>2, <1>c, <2>1 DEF EndUpdate, TypeInv
<1>3. CASE Wait
  <2>1. StateTypes'
    BY <1>3, <1>a DEF Wait, StateTypes, Steps
  <2>2. ReadSoFar' /\ OnADial'
    BY <1>3 DEF Wait, ReadSoFar, OnADial, Showing
  <2>3. QED
    BY <2>1, <2>2 DEF TypeInv
<1>4. CASE ReadSecond
  <2>1. PICK v \in get_RTC_register("second") : time' = [time EXCEPT !["second"] = v]
    BY <1>4 DEF ReadSecond
  <2>2. time' \in Reading /\ ReadAs("second")'
    BY <1>4, <2>1, PartRead, PartNames DEF ReadSecond
  <2>3. StateTypes'
    BY <1>4, <1>a, <2>2 DEF ReadSecond, StateTypes, Steps
  <2>4. ReadSoFar' /\ OnADial'
    BY <1>4, <2>2 DEF ReadSecond, ReadSoFar, OnADial, Showing
  <2>5. QED
    BY <2>3, <2>4 DEF TypeInv
<1>5. CASE ReadMinute
  <2>1. PICK v \in get_RTC_register("minute") : time' = [time EXCEPT !["minute"] = v]
    BY <1>5 DEF ReadMinute
  <2>2. ReadAs("second")
    BY <1>5, <1>a DEF ReadMinute, ReadSoFar
  <2>3. time' \in Reading /\ ReadAs("minute")' /\ ReadAs("second")'
    BY <1>5, <2>1, <2>2, PartRead, PartNames DEF ReadMinute
  <2>4. StateTypes'
    BY <1>5, <1>a, <2>3 DEF ReadMinute, StateTypes, Steps
  <2>5. ReadSoFar' /\ OnADial'
    BY <1>5, <2>3 DEF ReadMinute, ReadSoFar, OnADial, Showing
  <2>6. QED
    BY <2>4, <2>5 DEF TypeInv
<1>6. CASE ReadHour
  <2>1. PICK v \in get_RTC_register("hour") : time' = [time EXCEPT !["hour"] = v]
    BY <1>6 DEF ReadHour
  <2>2. ReadAs("second") /\ ReadAs("minute")
    BY <1>6, <1>a DEF ReadHour, ReadSoFar
  <2>3. time' \in Reading /\ ReadAs("hour")' /\ ReadAs("minute")' /\ ReadAs("second")'
    BY <1>6, <2>1, <2>2, PartRead, PartNames DEF ReadHour
  <2>4. (pc' = "convert" /\ last' = last) \/ (pc' = "wait" /\ last' = time')
    BY <1>6 DEF ReadHour, Kept
  <2>5. StateTypes'
    BY <1>6, <1>a, <2>3, <2>4 DEF ReadHour, StateTypes, Steps
  <2>6. ReadSoFar' /\ OnADial'
    BY <2>3, <2>4 DEF ReadSoFar, OnADial, Showing
  <2>7. QED
    BY <2>5, <2>6 DEF TypeInv
<1>7. CASE Convert
  <2>1. PICK s \in Day, m \in Day, h \in Day :
          /\ time.second = Reg(format, "second", s)
          /\ time.minute = Reg(format, "minute", m)
          /\ time.hour = Reg(format, "hour", h)
    BY <1>7, <1>a DEF Convert, ReadSoFar, ReadAs
  <2>2. /\ time' \in Reading /\ time'.second = Of(s).second
        /\ time'.minute = Of(m).minute /\ time'.hour = OnTheDial(Of(h).hour)
    BY <1>7, <2>1, Converted DEF Convert
  <2>3. time'.second \in 0 .. 59 /\ time'.minute \in 0 .. 59 /\ time'.hour \in 1 .. 12
    BY <2>2, TimeOfDay, DialType
  <2>4. StateTypes'
    BY <1>7, <1>a, <2>2 DEF Convert, StateTypes, Steps, Showing
  <2>5. ReadSoFar' /\ OnADial'
    BY <1>7, <2>3 DEF Convert, ReadSoFar, OnADial
  <2>6. QED
    BY <2>4, <2>5 DEF TypeInv
<1>8. CASE print_time
  <2>1. pc \in Showing /\ pc' \in Showing
    BY <1>8 DEF print_time, Showing
  <2>2. StateTypes'
    BY <1>8, <1>a, <2>1 DEF print_time, StateTypes, Steps
  <2>3. ReadSoFar' /\ OnADial'
    BY <1>8, <1>a, <2>1 DEF print_time, ReadSoFar, OnADial, Showing
  <2>4. QED
    BY <2>2, <2>3 DEF TypeInv
<1>9. CASE Delay
  <2>1. StateTypes'
    BY <1>9, <1>a, ClockAssumption DEF Delay, StateTypes, Steps
  <2>2. ReadSoFar' /\ OnADial'
    BY <1>9 DEF Delay, ReadSoFar, OnADial, Showing
  <2>3. QED
    BY <2>1, <2>2 DEF TypeInv
<1>10. CASE UNCHANGED clockVars
  <2>1. StateTypes'
    BY <1>10, <1>a DEF clockVars, StateTypes
  <2>2. QED
    BY <1>10, <1>c, <2>1 DEF clockVars, TypeInv
<1>11. QED
  BY <1>1, <1>2, <1>3, <1>4, <1>5, <1>6, <1>7, <1>8, <1>9, <1>10
     DEF ClockNext, Program

LEMMA TypesHold == ClockSpec => []TypeInv
<1>1. QED
  BY InitTypes, StepTypes, PTL DEF ClockSpec

(* Whatever the format of the chip and wherever the scheduler holds the    *)
(* program up, read_rtc hands on an hour of the dial, a minute and a       *)
(* second, and every register fits its byte.                               *)
THEOREM ClockTypes == ClockSpec => []ClockTypeOK
<1>1. TypeInv => ClockTypeOK
  BY DEF TypeInv, StateTypes, OnADial, ClockTypeOK, Showing
<1>2. QED
  BY <1>1, TypesHold, PTL

-----------------------------------------------------------------------------
(* The two readings.  The registers of one pass are read while the chip    *)
(* counts on, so they may be of different times.  Only the second is       *)
(* looked at by its time: the age of a reading is the number of updates    *)
(* since the time its second is of, -1 while that time is still to come.   *)
(* The other two parts, read later, matter only while that time is the     *)
(* latest one to be read; then they are of it or of the one just before,   *)
(* for an update in progress lets both be read in any order.               *)

(* An update in progress counts as one.                                    *)
InProgress == IF updating THEN 1 ELSE 0
Since(u, c) == c - u
Ages(u, c) == (0 - u) .. Since(u, c)
Latest(u, k) == k < 0 \/ k + u = 0

Is(f, n, k, part, v) == v = Reg(f, part, AgoOf(n, k))
Near(f, n, k, part, v) == Is(f, n, k, part, v) \/ Is(f, n, k + 1, part, v)

(* A pass: with its second, with its minute too, and complete.             *)
SecondRead(f, n, u, c, r) == \E k \in Ages(u, c) : Is(f, n, k, "second", r.second)
MinuteRead(f, n, u, c, r) ==
  \E k \in Ages(u, c) :
    /\ Is(f, n, k, "second", r.second)
    /\ Latest(u, k) => Near(f, n, k, "minute", r.minute)
HourRead(f, n, u, c, r) ==
  \E k \in Ages(u, c) :
    /\ Is(f, n, k, "second", r.second)
    /\ Latest(u, k) => Near(f, n, k, "minute", r.minute) /\ Near(f, n, k, "hour", r.hour)

(* The pass before, once the update it may have met is over; and once the  *)
(* next pass agrees in its second, its minute, its hour.                   *)
PassBefore(f, n, u, c, r) ==
  \E k \in 0 .. Since(u, c) :
    /\ Is(f, n, k, "second", r.second)
    /\ k = 0 => Near(f, n, k, "minute", r.minute) /\ Near(f, n, k, "hour", r.hour)
SecondAgrees(f, n, u, c, r) ==
  \E k \in 0 .. Since(u, c) :
    /\ Is(f, n, k, "second", r.second)
    /\ Near(f, n, k, "minute", r.minute) /\ Near(f, n, k, "hour", r.hour)
MinuteAgrees(f, n, u, c, r) ==
  \E k \in 0 .. Since(u, c) :
    /\ Is(f, n, k, "second", r.second) /\ Is(f, n, k, "minute", r.minute)
    /\ Near(f, n, k, "hour", r.hour)
AllAgree(f, n, u, c, r) ==
  \E k \in 0 .. Since(u, c) :
    /\ Is(f, n, k, "second", r.second) /\ Is(f, n, k, "minute", r.minute)
    /\ Is(f, n, k, "hour", r.hour)

(* What is shown of a time, as far as the program has come.                *)
Converts(r, t) ==
  /\ r.second = Of(t).second /\ r.minute = Of(t).minute
  /\ r.hour = OnTheDial(Of(t).hour)
SoFar(p, d, t) ==
  /\ p # "show hour" => d["hour"] = Digits(OnTheDial(Of(t).hour) + 7)
  /\ p \in {"show second", "delay"} => d["minute"] = Digits(Of(t).minute)
  /\ p = "delay" => d["second"] = Digits(Of(t).second)
OnScreen(n, u, c, p, r, d) ==
  \E k \in 0 .. Since(u, c) : Converts(r, AgoOf(n, k)) /\ SoFar(p, d, AgoOf(n, k))

TimesLookedAt(n, u, c) == \A k \in 0 .. Since(u, c) : AgoOf(n, k) \in Seconds

RealInv ==
  /\ TimesLookedAt(now, InProgress, updates)
  /\ DOMAIN shown = Parts
  /\ pc = "wait" /\ last # NoReading => HourRead(format, now, InProgress, updates, last)
  /\ pc = "second" /\ last # NoReading => PassBefore(format, now, InProgress, updates, last)
  /\ pc = "minute" => SecondRead(format, now, InProgress, updates, time)
  /\ pc = "hour" => MinuteRead(format, now, InProgress, updates, time)
  /\ pc = "minute" /\ last.second = time.second =>
       SecondAgrees(format, now, InProgress, updates, last)
  /\ pc = "hour" /\ last.second = time.second /\ last.minute = time.minute =>
       MinuteAgrees(format, now, InProgress, updates, last)
  /\ pc = "convert" => AllAgree(format, now, InProgress, updates, time)
  /\ pc \in Showing => OnScreen(now, InProgress, updates, pc, time, shown)

(* An update that begins makes nothing older, but nothing is the latest to *)
(* be read any more that was read before.                                  *)
LEMMA AgesAtBegin ==
  ASSUME NEW c \in 0 .. 59
  PROVE  /\ Since(1, c + 1) = Since(0, c)
         /\ \A k \in Ages(0, c) : k \in Ages(1, c + 1) /\ ~Latest(1, k)
BY DEF Since, Ages, Latest

LEMMA KeptAtBegin ==
  ASSUME NEW f, NEW n \in Day, NEW c \in 0 .. 59, NEW r
  PROVE  /\ HourRead(f, n, 0, c, r) => HourRead(f, n, 1, c + 1, r)
         /\ PassBefore(f, n, 0, c, r) => PassBefore(f, n, 1, c + 1, r)
         /\ SecondRead(f, n, 0, c, r) => SecondRead(f, n, 1, c + 1, r)
         /\ MinuteRead(f, n, 0, c, r) => MinuteRead(f, n, 1, c + 1, r)
         /\ SecondAgrees(f, n, 0, c, r) => SecondAgrees(f, n, 1, c + 1, r)
         /\ MinuteAgrees(f, n, 0, c, r) => MinuteAgrees(f, n, 1, c + 1, r)
         /\ AllAgree(f, n, 0, c, r) => AllAgree(f, n, 1, c + 1, r)
<1>1. HourRead(f, n, 0, c, r) => HourRead(f, n, 1, c + 1, r)
  BY AgesAtBegin DEF HourRead
<1>2. SecondRead(f, n, 0, c, r) => SecondRead(f, n, 1, c + 1, r)
  BY AgesAtBegin DEF SecondRead
<1>3. MinuteRead(f, n, 0, c, r) => MinuteRead(f, n, 1, c + 1, r)
  BY AgesAtBegin DEF MinuteRead
<1>4. /\ PassBefore(f, n, 0, c, r) => PassBefore(f, n, 1, c + 1, r)
      /\ SecondAgrees(f, n, 0, c, r) => SecondAgrees(f, n, 1, c + 1, r)
      /\ MinuteAgrees(f, n, 0, c, r) => MinuteAgrees(f, n, 1, c + 1, r)
      /\ AllAgree(f, n, 0, c, r) => AllAgree(f, n, 1, c + 1, r)
  BY AgesAtBegin DEF PassBefore, SecondAgrees, MinuteAgrees, AllAgree
<1>5. QED
  BY <1>1, <1>2, <1>3, <1>4

(* One that ends makes everything older by one.                            *)
LEMMA AgesAtEnd ==
  ASSUME NEW c \in 1 .. 59
  PROVE  /\ \A k \in Ages(1, c) : /\ k \in -1 .. 58 /\ k + 1 \in Ages(0, c)
                                  /\ Latest(0, k + 1) => Latest(1, k)
         /\ \A k \in 0 .. Since(1, c) : /\ k \in 0 .. 58 /\ k + 1 # 0
                                        /\ k + 1 \in 0 .. Since(0, c)
BY DEF Since, Ages, Latest

LEMMA AllOlder ==
  ASSUME NEW f, NEW n \in Day, NEW k \in -1 .. 58
  PROVE  /\ AgoOf(Later(n), k + 1) = AgoOf(n, k)
         /\ \A part, v : /\ Is(f, n, k, part, v) => Is(f, Later(n), k + 1, part, v)
                         /\ Near(f, n, k, part, v) => Near(f, Later(n), k + 1, part, v)
<1>1. k \in -1 .. 60 /\ k + 1 \in -1 .. 60
  OBVIOUS
<1>2. AgoOf(Later(n), k + 1) = AgoOf(n, k) /\ AgoOf(Later(n), (k + 1) + 1) = AgoOf(n, k + 1)
  BY <1>1, AgoFacts
<1>3. QED
  BY <1>2 DEF Is, Near

LEMMA KeptAtEnd ==
  ASSUME NEW f, NEW n \in Day, NEW c \in 1 .. 59, NEW r
  PROVE  /\ HourRead(f, n, 1, c, r) => HourRead(f, Later(n), 0, c, r)
         /\ PassBefore(f, n, 1, c, r) => PassBefore(f, Later(n), 0, c, r)
         /\ SecondRead(f, n, 1, c, r) => SecondRead(f, Later(n), 0, c, r)
         /\ MinuteRead(f, n, 1, c, r) => MinuteRead(f, Later(n), 0, c, r)
         /\ SecondAgrees(f, n, 1, c, r) => SecondAgrees(f, Later(n), 0, c, r)
         /\ MinuteAgrees(f, n, 1, c, r) => MinuteAgrees(f, Later(n), 0, c, r)
         /\ AllAgree(f, n, 1, c, r) => AllAgree(f, Later(n), 0, c, r)
<1>1. ASSUME NEW k \in Ages(1, c)
      PROVE  \E j \in Ages(0, c) :
               /\ Latest(0, j) => Latest(1, k)
               /\ \A part, v : /\ Is(f, n, k, part, v) => Is(f, Later(n), j, part, v)
                               /\ Near(f, n, k, part, v) => Near(f, Later(n), j, part, v)
  <2>1. k + 1 \in Ages(0, c) /\ (Latest(0, k + 1) => Latest(1, k)) /\ k \in -1 .. 58
    BY AgesAtEnd
  <2>2. QED
    BY <2>1, AllOlder
<1>2. ASSUME NEW k \in 0 .. Since(1, c)
      PROVE  \E j \in 0 .. Since(0, c) :
               /\ j # 0
               /\ \A part, v : /\ Is(f, n, k, part, v) => Is(f, Later(n), j, part, v)
                               /\ Near(f, n, k, part, v) => Near(f, Later(n), j, part, v)
  <2>1. k + 1 \in 0 .. Since(0, c) /\ k + 1 # 0 /\ k \in 0 .. 58 /\ k \in -1 .. 58
    BY AgesAtEnd
  <2>2. QED
    BY <2>1, AllOlder
<1>3. HourRead(f, n, 1, c, r) => HourRead(f, Later(n), 0, c, r)
  BY <1>1 DEF HourRead
<1>4. SecondRead(f, n, 1, c, r) => SecondRead(f, Later(n), 0, c, r)
  BY <1>1 DEF SecondRead
<1>5. MinuteRead(f, n, 1, c, r) => MinuteRead(f, Later(n), 0, c, r)
  BY <1>1 DEF MinuteRead
<1>6. PassBefore(f, n, 1, c, r) => PassBefore(f, Later(n), 0, c, r)
  BY <1>2 DEF PassBefore
<1>7. SecondAgrees(f, n, 1, c, r) => SecondAgrees(f, Later(n), 0, c, r)
  BY <1>2 DEF SecondAgrees
<1>8. MinuteAgrees(f, n, 1, c, r) => MinuteAgrees(f, Later(n), 0, c, r)
  BY <1>2 DEF MinuteAgrees
<1>9. AllAgree(f, n, 1, c, r) => AllAgree(f, Later(n), 0, c, r)
  BY <1>2 DEF AllAgree
<1>10. QED
  BY <1>3, <1>4, <1>5, <1>6, <1>7, <1>8, <1>9

LEMMA ScreenAtUpdates ==
  ASSUME NEW n \in Day, NEW p, NEW r, NEW d
  PROVE  /\ \A c \in 0 .. 59 : OnScreen(n, 0, c, p, r, d) => OnScreen(n, 1, c + 1, p, r, d)
         /\ \A c \in 1 .. 59 : OnScreen(n, 1, c, p, r, d) => OnScreen(Later(n), 0, c, p, r, d)
<1>1. \A c \in 0 .. 59 : OnScreen(n, 0, c, p, r, d) => OnScreen(n, 1, c + 1, p, r, d)
  BY AgesAtBegin DEF OnScreen
<1>2. ASSUME NEW c \in 1 .. 59, OnScreen(n, 1, c, p, r, d)
      PROVE  OnScreen(Later(n), 0, c, p, r, d)
  <2>1. PICK k \in 0 .. Since(1, c) : Converts(r, AgoOf(n, k)) /\ SoFar(p, d, AgoOf(n, k))
    BY <1>2 DEF OnScreen
  <2>2. k \in -1 .. 58 /\ k + 1 \in 0 .. Since(0, c)
    BY AgesAtEnd
  <2>3. AgoOf(Later(n), k + 1) = AgoOf(n, k)
    BY <2>2, AllOlder
  <2>4. QED
    BY <2>1, <2>2, <2>3 DEF OnScreen
<1>3. QED
  BY <1>1, <1>2

LEMMA LookedAtAtUpdates ==
  ASSUME NEW n \in Day
  PROVE  /\ \A c \in 0 .. 59 : TimesLookedAt(n, 0, c) => TimesLookedAt(n, 1, c + 1)
         /\ \A c \in 1 .. 59 : TimesLookedAt(n, 1, c) /\ Later(n) \in Seconds
                               => TimesLookedAt(Later(n), 0, c)
<1>1. \A c \in 0 .. 59 : TimesLookedAt(n, 0, c) => TimesLookedAt(n, 1, c + 1)
  BY AgesAtBegin DEF TimesLookedAt
<1>2. ASSUME NEW c \in 1 .. 59, TimesLookedAt(n, 1, c), Later(n) \in Seconds,
             NEW k \in 0 .. Since(0, c)
      PROVE  AgoOf(Later(n), k) \in Seconds
  <2>1. CASE k = 0
    BY <1>2, <2>1, AgoFacts
  <2>2. CASE k # 0
    <3> DEFINE j == k - 1
    <3>1. j \in 0 .. Since(1, c) /\ j \in -1 .. 58 /\ k = j + 1
      BY <2>2 DEF Since
    <3> HIDE DEF j
    <3>2. AgoOf(Later(n), k) = AgoOf(n, j)
      BY <3>1, AllOlder
    <3>3. QED
      BY <1>2, <3>1, <3>2 DEF TimesLookedAt
  <2>3. QED
    BY <2>1, <2>2
<1>3. QED
  BY <1>1, <1>2 DEF TimesLookedAt

-----------------------------------------------------------------------------
(* A register that is read gives the time 0 updates ago, or the one that   *)
(* an update in progress is coming to.                                     *)

LEMMA AgesOfARead ==
  ASSUME NEW u \in {0, 1}, NEW c \in 0 .. 59, c >= u,
         NEW a \in {0, -1}, a = -1 => u = 1
  PROVE  /\ a \in Ages(u, c) /\ a \in -1 .. 59
         /\ \A k \in 0 .. Since(u, c) : k \in -1 .. 59 /\ a <= k /\ k - a < 60
         /\ \A k \in Ages(u, c) : Latest(u, k) => a = k \/ a = k + 1
BY DEF Ages, Since, Latest

(* The pass before is near to no time but that of its second.              *)
LEMMA NearAndRead ==
  ASSUME NEW f, NEW n \in Day, NEW k \in -1 .. 59, NEW a \in -1 .. 59,
         a <= k, k - a < 60, NEW part \in {"minute", "hour"}, NEW v,
         Near(f, n, k, part, v), Is(f, n, a, part, v)
  PROVE  Is(f, n, k, part, v)
BY PartsChangeOnce DEF Near, Is

LEMMA SecondAndRead ==
  ASSUME NEW f, NEW n \in Day, NEW k \in -1 .. 59, NEW a \in -1 .. 59,
         a <= k, k - a < 60, NEW v,
         Is(f, n, k, "second", v), Is(f, n, a, "second", v)
  PROVE  k = a
<1>1. k \in -1 .. 60 /\ a \in -1 .. 60 /\ a - k < 60
  OBVIOUS
<1>2. Reg(f, "second", AgoOf(n, k)) = Reg(f, "second", AgoOf(n, a))
  BY DEF Is
<1>3. QED
  BY <1>1, <1>2, SecondsTellApart

(* One pass, part by part.                                                 *)
LEMMA PassGoesOn ==
  ASSUME NEW f, NEW n, NEW u \in {0, 1}, NEW c \in 0 .. 59, c >= u,
         NEW a \in {0, -1}, a = -1 => u = 1, NEW r, NEW q
  PROVE  /\ Is(f, n, a, "second", q.second) => SecondRead(f, n, u, c, q)
         /\ SecondRead(f, n, u, c, r) /\ q.second = r.second
              /\ Is(f, n, a, "minute", q.minute) => MinuteRead(f, n, u, c, q)
         /\ MinuteRead(f, n, u, c, r) /\ q.second = r.second /\ q.minute = r.minute
              /\ Is(f, n, a, "hour", q.hour) => HourRead(f, n, u, c, q)
<1>1. a \in Ages(u, c) /\ \A k \in Ages(u, c) : Latest(u, k) => a = k \/ a = k + 1
  BY AgesOfARead
<1>2. \A k \in Ages(u, c) : \A part, v : Latest(u, k) /\ Is(f, n, a, part, v) => Near(f, n, k, part, v)
  BY <1>1 DEF Near
<1>3. Is(f, n, a, "second", q.second) => SecondRead(f, n, u, c, q)
  BY <1>1 DEF SecondRead
<1>4. SecondRead(f, n, u, c, r) /\ q.second = r.second
        /\ Is(f, n, a, "minute", q.minute) => MinuteRead(f, n, u, c, q)
  BY <1>2 DEF SecondRead, MinuteRead
<1>5. MinuteRead(f, n, u, c, r) /\ q.second = r.second /\ q.minute = r.minute
        /\ Is(f, n, a, "hour", q.hour) => HourRead(f, n, u, c, q)
  BY <1>2 DEF MinuteRead, HourRead
<1>6. QED
  BY <1>3, <1>4, <1>5

(* The pass before it, part by part, where the two agree.                  *)
LEMMA PassesAgree ==
  ASSUME NEW f, NEW n \in Day, NEW u \in {0, 1}, NEW c \in 0 .. 59, c >= u,
         NEW a \in {0, -1}, a = -1 => u = 1, NEW r
  PROVE  /\ PassBefore(f, n, u, c, r) /\ Is(f, n, a, "second", r.second)
              => SecondAgrees(f, n, u, c, r)
         /\ SecondAgrees(f, n, u, c, r) /\ Is(f, n, a, "minute", r.minute)
              => MinuteAgrees(f, n, u, c, r)
         /\ MinuteAgrees(f, n, u, c, r) /\ Is(f, n, a, "hour", r.hour)
              => AllAgree(f, n, u, c, r)
<1>1. a \in -1 .. 59 /\ \A k \in 0 .. Since(u, c) : k \in -1 .. 59 /\ a <= k /\ k - a < 60
  BY AgesOfARead
<1>2. ASSUME PassBefore(f, n, u, c, r), Is(f, n, a, "second", r.second)
      PROVE  SecondAgrees(f, n, u, c, r)
  <2>1. PICK k \in 0 .. Since(u, c) :
          /\ Is(f, n, k, "second", r.second)
          /\ k = 0 => Near(f, n, k, "minute", r.minute) /\ Near(f, n, k, "hour", r.hour)
    BY <1>2 DEF PassBefore
  <2>2. k \in -1 .. 59 /\ a <= k /\ k - a < 60
    BY <1>1
  <2>3. k = a
    BY <1>1, <1>2, <2>1, <2>2, SecondAndRead
  <2>4. k = 0
    BY <2>3
  <2>5. QED
    BY <2>1, <2>4 DEF SecondAgrees
<1>3. ASSUME SecondAgrees(f, n, u, c, r), Is(f, n, a, "minute", r.minute)
      PROVE  MinuteAgrees(f, n, u, c, r)
  <2>1. PICK k \in 0 .. Since(u, c) :
          /\ Is(f, n, k, "second", r.second)
          /\ Near(f, n, k, "minute", r.minute) /\ Near(f, n, k, "hour", r.hour)
    BY <1>3 DEF SecondAgrees
  <2>2. k \in -1 .. 59 /\ a <= k /\ k - a < 60
    BY <1>1
  <2>3. Is(f, n, k, "minute", r.minute)
    BY <1>1, <1>3, <2>1, <2>2, NearAndRead
  <2>4. QED
    BY <2>1, <2>3 DEF MinuteAgrees
<1>4. ASSUME MinuteAgrees(f, n, u, c, r), Is(f, n, a, "hour", r.hour)
      PROVE  AllAgree(f, n, u, c, r)
  <2>1. PICK k \in 0 .. Since(u, c) :
          /\ Is(f, n, k, "second", r.second) /\ Is(f, n, k, "minute", r.minute)
          /\ Near(f, n, k, "hour", r.hour)
    BY <1>4 DEF MinuteAgrees
  <2>2. k \in -1 .. 59 /\ a <= k /\ k - a < 60
    BY <1>1
  <2>3. Is(f, n, k, "hour", r.hour)
    BY <1>1, <1>4, <2>1, <2>2, NearAndRead
  <2>4. QED
    BY <2>1, <2>3 DEF AllAgree
<1>5. QED
  BY <1>2, <1>3, <1>4

(* Between the passes no update is in progress.                            *)
LEMMA PassIsBefore ==
  ASSUME NEW f, NEW n, NEW c \in 0 .. 59, NEW r, HourRead(f, n, 0, c, r)
  PROVE  PassBefore(f, n, 0, c, r)
<1>1. PICK k \in Ages(0, c) :
        /\ Is(f, n, k, "second", r.second)
        /\ Latest(0, k) => Near(f, n, k, "minute", r.minute) /\ Near(f, n, k, "hour", r.hour)
  BY DEF HourRead
<1>2. k \in 0 .. Since(0, c) /\ (k = 0 => Latest(0, k))
  BY DEF Ages, Latest, Since
<1>3. QED
  BY <1>1, <1>2 DEF PassBefore

-----------------------------------------------------------------------------
(* The invariant is kept, if less than a minute passes while the time is   *)
(* read and shown.                                                         *)

LEMMA CountsOfUpdates ==
  ASSUME TypeInv, UpdatesPerCall < 60
  PROVE  /\ InProgress \in {0, 1} /\ updates \in 0 .. 59 /\ updates >= InProgress
         /\ (updating => InProgress = 1 /\ updates \in 1 .. 59)
         /\ (~updating => InProgress = 0)
         /\ now \in Day
<1>1. now \in Day
  BY NowIsOfDay
<1>2. updating \in BOOLEAN
  BY DEF TypeInv, StateTypes
<1>3. updates \in 0 .. 59
  BY ClockAssumption DEF TypeInv, StateTypes
<1>4. updating => InProgress = 1 /\ updates \in 1 .. 59
  BY <1>3 DEF TypeInv, StateTypes, InProgress
<1>5. ~updating => InProgress = 0
  BY DEF InProgress
<1>6. QED
  BY <1>1, <1>2, <1>3, <1>4, <1>5

LEMMA InitReal == ClockInit /\ TypeInv => RealInv
<1> SUFFICES ASSUME ClockInit, TypeInv
             PROVE  RealInv
  OBVIOUS
<1>1. InProgress = 0 /\ updates = 0 /\ 0 .. Since(InProgress, updates) = {0}
  BY DEF ClockInit, InProgress, Since
<1>2. AgoOf(now, 0) = now /\ now \in Seconds
  BY NowIsOfDay, AgoFacts DEF ClockInit
<1>3. TimesLookedAt(now, InProgress, updates)
  BY <1>1, <1>2 DEF TimesLookedAt
<1>4. pc = "wait" /\ last = NoReading /\ DOMAIN shown = Parts
  BY DEF ClockInit, Blank
<1>5. QED
  BY <1>3, <1>4 DEF RealInv, Showing

LEMMA RealAtBegin ==
  ASSUME TypeInv, UpdatesPerCall < 60, RealInv, BeginUpdate
  PROVE  RealInv'
<1>1. InProgress = 0 /\ updates \in 0 .. 59 /\ now \in Day
  BY CountsOfUpdates DEF BeginUpdate
<1>2. InProgress' = 1 /\ updates' = updates + 1
  BY DEF BeginUpdate, InProgress
<1>3. UNCHANGED <<now, format, pc, time, last, shown>>
  BY DEF BeginUpdate, program
<1>4. TimesLookedAt(now, InProgress, updates)'
  BY <1>1, <1>2, <1>3, LookedAtAtUpdates DEF RealInv
<1>5. pc' \in Showing => OnScreen(now, InProgress, updates, pc, time, shown)'
  BY <1>1, <1>2, <1>3, ScreenAtUpdates DEF RealInv
<1>6. ASSUME NEW r
      PROVE  /\ HourRead(format, now, InProgress, updates, r)
                   => HourRead(format', now', InProgress', updates', r)
             /\ PassBefore(format, now, InProgress, updates, r)
                   => PassBefore(format', now', InProgress', updates', r)
             /\ SecondRead(format, now, InProgress, updates, r)
                   => SecondRead(format', now', InProgress', updates', r)
             /\ MinuteRead(format, now, InProgress, updates, r)
                   => MinuteRead(format', now', InProgress', updates', r)
             /\ SecondAgrees(format, now, InProgress, updates, r)
                   => SecondAgrees(format', now', InProgress', updates', r)
             /\ MinuteAgrees(format, now, InProgress, updates, r)
                   => MinuteAgrees(format', now', InProgress', updates', r)
             /\ AllAgree(format, now, InProgress, updates, r)
                   => AllAgree(format', now', InProgress', updates', r)
  BY <1>1, <1>2, <1>3, KeptAtBegin
<1>7. QED
  BY <1>3, <1>4, <1>5, <1>6 DEF RealInv

LEMMA RealAtEnd ==
  ASSUME TypeInv, UpdatesPerCall < 60, RealInv, EndUpdate
  PROVE  RealInv'
<1>1. InProgress = 1 /\ updates \in 1 .. 59 /\ now \in Day /\ Later(now) \in Seconds
  BY CountsOfUpdates DEF EndUpdate, TypeInv, StateTypes
<1>2. InProgress' = 0 /\ updates' = updates /\ now' = Later(now)
  BY DEF EndUpdate, InProgress
<1>3. UNCHANGED <<format, pc, time, last, shown>>
  BY DEF EndUpdate, program
<1>4. TimesLookedAt(now, InProgress, updates)'
  BY <1>1, <1>2, <1>3, LookedAtAtUpdates DEF RealInv
<1>5. pc' \in Showing => OnScreen(now, InProgress, updates, pc, time, shown)'
  BY <1>1, <1>2, <1>3, ScreenAtUpdates DEF RealInv
<1>6. ASSUME NEW r
      PROVE  /\ HourRead(format, now, InProgress, updates, r)
                   => HourRead(format', now', InProgress', updates', r)
             /\ PassBefore(format, now, InProgress, updates, r)
                   => PassBefore(format', now', InProgress', updates', r)
             /\ SecondRead(format, now, InProgress, updates, r)
                   => SecondRead(format', now', InProgress', updates', r)
             /\ MinuteRead(format, now, InProgress, updates, r)
                   => MinuteRead(format', now', InProgress', updates', r)
             /\ SecondAgrees(format, now, InProgress, updates, r)
                   => SecondAgrees(format', now', InProgress', updates', r)
             /\ MinuteAgrees(format, now, InProgress, updates, r)
                   => MinuteAgrees(format', now', InProgress', updates', r)
             /\ AllAgree(format, now, InProgress, updates, r)
                   => AllAgree(format', now', InProgress', updates', r)
  BY <1>1, <1>2, <1>3, KeptAtEnd
<1>7. QED
  BY <1>3, <1>4, <1>5, <1>6 DEF RealInv

(* What a step of the program reads.                                       *)
LEMMA ReadAges ==
  ASSUME TypeInv, UpdatesPerCall < 60, NEW part \in Parts, NEW v \in get_RTC_register(part)
  PROVE  \E a \in {0, -1} : (a = -1 => InProgress = 1) /\ Is(format, now, a, part, v)
<1>1. PICK a \in {0, -1} : /\ a = -1 => updating
                           /\ v = Reg(format, part, AgoOf(now, a))
  BY RegisterRead
<1>2. QED
  BY <1>1, CountsOfUpdates DEF Is

LEMMA ChipKept ==
  ASSUME UNCHANGED <<chip, format>>
  PROVE  /\ format' = format /\ now' = now /\ updates' = updates /\ InProgress' = InProgress
         /\ TimesLookedAt(now, InProgress, updates)
              => TimesLookedAt(now, InProgress, updates)'
<1>1. format' = format /\ now' = now /\ updates' = updates /\ InProgress' = InProgress
  BY DEF chip, InProgress
<1>2. QED
  BY <1>1

LEMMA RealAtWait ==
  ASSUME TypeInv, UpdatesPerCall < 60, RealInv, Wait
  PROVE  RealInv'
<1>1. InProgress = 0 /\ updates \in 0 .. 59
  BY CountsOfUpdates DEF Wait
<1>2. /\ format' = format /\ now' = now /\ updates' = updates /\ InProgress' = InProgress
      /\ TimesLookedAt(now, InProgress, updates)'
  BY ChipKept DEF Wait, RealInv
<1>3. pc = "wait" /\ pc' = "second" /\ UNCHANGED <<time, last, shown>>
  BY DEF Wait
<1>4. last # NoReading => PassBefore(format, now, InProgress, updates, last)
  BY <1>1, <1>3, PassIsBefore DEF RealInv
<1>5. QED
  BY <1>2, <1>3, <1>4 DEF RealInv, Showing

LEMMA RealAtSecond ==
  ASSUME TypeInv, UpdatesPerCall < 60, RealInv, ReadSecond
  PROVE  RealInv'
<1>1. InProgress \in {0, 1} /\ updates \in 0 .. 59 /\ updates >= InProgress /\ now \in Day
  BY CountsOfUpdates
<1>2. /\ format' = format /\ now' = now /\ updates' = updates /\ InProgress' = InProgress
      /\ TimesLookedAt(now, InProgress, updates)'
  BY ChipKept DEF ReadSecond, RealInv
<1>3. pc = "second" /\ pc' = "minute" /\ UNCHANGED <<last, shown>>
  BY DEF ReadSecond
<1>4. PICK v \in get_RTC_register("second") : time' = [time EXCEPT !["second"] = v]
  BY DEF ReadSecond
<1>5. time'.second = v /\ time' \in Reading
  BY <1>2, <1>4, PartRead, PartNames
<1>6. PICK a \in {0, -1} : (a = -1 => InProgress = 1) /\ Is(format, now, a, "second", time'.second)
  BY <1>5, ReadAges, PartNames
<1>7. SecondRead(format, now, InProgress, updates, time')
  BY <1>1, <1>6, PassGoesOn
<1>8. ASSUME last.second = time'.second
      PROVE  SecondAgrees(format, now, InProgress, updates, last)
  <2>1. last # NoReading
    <3>1. time'.second \in 0 .. 255
      BY <1>5, PartNames DEF Reading
    <3>2. NoReading.second = 256
      BY PartNames DEF NoReading
    <3>3. QED
      BY <1>8, <3>1, <3>2
  <2>2. PassBefore(format, now, InProgress, updates, last)
    BY <1>3, <2>1 DEF RealInv
  <2>3. Is(format, now, a, "second", last.second)
    BY <1>6, <1>8
  <2>4. QED
    BY <1>1, <1>6, <2>2, <2>3, PassesAgree
<1>9. QED
  BY <1>2, <1>3, <1>7, <1>8 DEF RealInv, Showing

LEMMA RealAtMinute ==
  ASSUME TypeInv, UpdatesPerCall < 60, RealInv, ReadMinute
  PROVE  RealInv'
<1>1. InProgress \in {0, 1} /\ updates \in 0 .. 59 /\ updates >= InProgress /\ now \in Day
  BY CountsOfUpdates
<1>2. /\ format' = format /\ now' = now /\ updates' = updates /\ InProgress' = InProgress
      /\ TimesLookedAt(now, InProgress, updates)'
  BY ChipKept DEF ReadMinute, RealInv
<1>3. pc = "minute" /\ pc' = "hour" /\ UNCHANGED <<last, shown>>
  BY DEF ReadMinute
<1>4. PICK v \in get_RTC_register("minute") : time' = [time EXCEPT !["minute"] = v]
  BY DEF ReadMinute
<1>5. time'.minute = v /\ time'.second = time.second
  BY <1>2, <1>4, PartRead, PartNames
<1>6. PICK a \in {0, -1} : (a = -1 => InProgress = 1) /\ Is(format, now, a, "minute", time'.minute)
  BY <1>5, ReadAges, PartNames
<1>7. MinuteRead(format, now, InProgress, updates, time')
  <2>1. SecondRead(format, now, InProgress, updates, time)
    BY <1>3 DEF RealInv
  <2>2. QED
    BY <1>1, <1>5, <1>6, <2>1, PassGoesOn
<1>8. ASSUME last.second = time'.second, last.minute = time'.minute
      PROVE  MinuteAgrees(format, now, InProgress, updates, last)
  <2>1. SecondAgrees(format, now, InProgress, updates, last)
    BY <1>3, <1>5, <1>8 DEF RealInv
  <2>2. Is(format, now, a, "minute", last.minute)
    BY <1>6, <1>8
  <2>3. QED
    BY <1>1, <1>6, <2>1, <2>2, PassesAgree
<1>9. QED
  BY <1>2, <1>3, <1>7, <1>8 DEF RealInv, Showing

LEMMA RealAtHour ==
  ASSUME TypeInv, UpdatesPerCall < 60, RealInv, ReadHour
  PROVE  RealInv'
<1>1. InProgress \in {0, 1} /\ updates \in 0 .. 59 /\ updates >= InProgress /\ now \in Day
  BY CountsOfUpdates
<1>2. /\ format' = format /\ now' = now /\ updates' = updates /\ InProgress' = InProgress
      /\ TimesLookedAt(now, InProgress, updates)'
  BY ChipKept DEF ReadHour, RealInv
<1>3. pc = "hour" /\ UNCHANGED shown
  BY DEF ReadHour
<1>4. PICK v \in get_RTC_register("hour") : time' = [time EXCEPT !["hour"] = v]
  BY DEF ReadHour
<1>5. time'.hour = v /\ time'.second = time.second /\ time'.minute = time.minute
  BY <1>2, <1>4, PartRead, PartNames
<1>6. PICK a \in {0, -1} : (a = -1 => InProgress = 1) /\ Is(format, now, a, "hour", time'.hour)
  BY <1>5, ReadAges, PartNames
<1>7. CASE last = time'
  <2>1. pc' = "convert" /\ last' = last
    BY <1>7 DEF ReadHour, Agree
  <2>2. MinuteAgrees(format, now, InProgress, updates, last)
    BY <1>3, <1>5, <1>7 DEF RealInv
  <2>3. Is(format, now, a, "hour", last.hour)
    BY <1>6, <1>7
  <2>4. AllAgree(format, now, InProgress, updates, last)
    BY <1>1, <1>6, <2>2, <2>3, PassesAgree
  <2>5. QED
    BY <1>2, <1>3, <1>7, <2>1, <2>4 DEF RealInv, Showing
<1>8. CASE last # time'
  <2>1. pc' = "wait" /\ last' = time'
    BY <1>8 DEF ReadHour, Agree, Kept
  <2>2. MinuteRead(format, now, InProgress, updates, time)
    BY <1>3 DEF RealInv
  <2>3. HourRead(format, now, InProgress, updates, time')
    BY <1>1, <1>5, <1>6, <2>2, PassGoesOn
  <2>4. QED
    BY <1>2, <1>3, <2>1, <2>3 DEF RealInv, Showing
<1>9. QED
  BY <1>7, <1>8

LEMMA RealAtConvert ==
  ASSUME TypeInv, UpdatesPerCall < 60, RealInv, Convert
  PROVE  RealInv'
<1>1. InProgress \in {0, 1} /\ updates \in 0 .. 59 /\ updates >= InProgress /\ now \in Day
  BY CountsOfUpdates
<1>2. /\ format' = format /\ now' = now /\ updates' = updates /\ InProgress' = InProgress
      /\ TimesLookedAt(now, InProgress, updates)'
  BY ChipKept DEF Convert, RealInv
<1>3. /\ pc = "convert" /\ pc' = "show hour" /\ UNCHANGED <<last, shown>>
      /\ time' = Adjusted(Whole(Binary(time)))
  BY DEF Convert
<1>4. PICK k \in 0 .. Since(InProgress, updates) :
        /\ Is(format, now, k, "second", time.second) /\ Is(format, now, k, "minute", time.minute)
        /\ Is(format, now, k, "hour", time.hour)
  BY <1>3 DEF RealInv, AllAgree
<1>5. AgoOf(now, k) \in Day
  <2>1. k \in -1 .. 61
    BY <1>1 DEF Since
  <2>2. QED
    BY <1>1, <2>1, AgoFacts
<1>6. Converts(time', AgoOf(now, k))
  BY <1>3, <1>4, <1>5, Converted DEF Is, Converts
<1>7. SoFar("show hour", shown, AgoOf(now, k))
  BY DEF SoFar
<1>8. OnScreen(now, InProgress, updates, "show hour", time', shown)
  BY <1>6, <1>7 DEF OnScreen
<1>9. QED
  BY <1>2, <1>3, <1>8 DEF RealInv

LEMMA RealAtShow ==
  ASSUME TypeInv, UpdatesPerCall < 60, RealInv, print_time
  PROVE  RealInv'
<1>1. /\ format' = format /\ now' = now /\ updates' = updates /\ InProgress' = InProgress
      /\ TimesLookedAt(now, InProgress, updates)'
  BY ChipKept DEF print_time, RealInv
<1>2. pc \in Showing /\ pc' \in Showing /\ pc' # "show hour" /\ UNCHANGED <<time, last>>
  BY DEF print_time, Showing
<1>3. DOMAIN shown = Parts
  BY DEF RealInv
<1>4. PICK k \in 0 .. Since(InProgress, updates) :
        Converts(time, AgoOf(now, k)) /\ SoFar(pc, shown, AgoOf(now, k))
  BY <1>2 DEF RealInv, OnScreen
<1>5. DOMAIN shown' = Parts /\ SoFar(pc', shown', AgoOf(now, k))
  <2>1. CASE pc = "show hour" /\ Show("hour", time.hour + 7) /\ pc' = "show minute"
    BY <1>3, <1>4, <2>1, PartNames DEF Show, SoFar, Converts
  <2>2. CASE pc = "show minute" /\ Show("minute", time.minute) /\ pc' = "show second"
    BY <1>3, <1>4, <2>2, PartNames DEF Show, SoFar, Converts
  <2>3. CASE pc = "show second" /\ Show("second", time.second) /\ pc' = "delay"
    BY <1>3, <1>4, <2>3, PartNames DEF Show, SoFar, Converts
  <2>4. QED
    BY <2>1, <2>2, <2>3 DEF print_time
<1>6. OnScreen(now, InProgress, updates, pc', time, shown')
  BY <1>4, <1>5 DEF OnScreen
<1>7. QED
  BY <1>1, <1>2, <1>5, <1>6 DEF RealInv, Showing

LEMMA RealAtDelay ==
  ASSUME TypeInv, UpdatesPerCall < 60, RealInv, Delay
  PROVE  RealInv'
<1>1. now' = now /\ InProgress' = InProgress /\ updates' = InProgress
      /\ pc' = "wait" /\ last' = NoReading /\ shown' = shown
  BY DEF Delay, InProgress
<1>2. AgoOf(now, 0) = now /\ now \in Seconds
  BY NowIsOfDay, AgoFacts DEF TypeInv, StateTypes
<1>3. InProgress \in {0, 1}
  BY CountsOfUpdates
<1>4. Since(InProgress', updates') = 0
  BY <1>1, <1>3 DEF Since
<1>5. TimesLookedAt(now, InProgress, updates)'
  BY <1>1, <1>2, <1>4 DEF TimesLookedAt
<1>6. QED
  BY <1>1, <1>5 DEF RealInv, Showing

LEMMA StepReal ==
  ASSUME TypeInv, UpdatesPerCall < 60, RealInv, [ClockNext]_clockVars
  PROVE  RealInv'
<1>1. CASE UNCHANGED clockVars
  <2>1. UNCHANGED <<now, updating, updates, pc, time, last, shown, format>>
    BY <1>1 DEF clockVars, chip, program
  <2>2. InProgress' = InProgress
    BY <2>1 DEF InProgress
  <2>3. QED
    BY <2>1, <2>2 DEF RealInv
<1>2. QED
  BY <1>1, RealAtBegin, RealAtEnd, RealAtWait, RealAtSecond, RealAtMinute, RealAtHour,
     RealAtConvert, RealAtShow, RealAtDelay
     DEF ClockNext, Program

LEMMA RealIsShown ==
  ASSUME TypeInv, UpdatesPerCall < 60, RealInv
  PROVE  ShownTimeWasReal
<1> SUFFICES ASSUME pc = "delay"
             PROVE  \E t \in Times : ShowsOn(t)
  BY DEF ShownTimeWasReal
<1>1. InProgress \in {0, 1} /\ updates \in 0 .. 59 /\ updates >= InProgress /\ now \in Day
  BY CountsOfUpdates
<1>2. PICK k \in 0 .. Since(InProgress, updates) :
        Converts(time, AgoOf(now, k)) /\ SoFar(pc, shown, AgoOf(now, k))
  BY DEF RealInv, OnScreen, Showing
<1>3. AgoOf(now, k) \in Seconds
  BY <1>2 DEF RealInv, TimesLookedAt
<1>4. (AgoOf(now, k) + k) % SecondsPerDay = now
  <2>1. k \in 0 .. 60
    BY <1>1 DEF Since
  <2>2. QED
    BY <1>1, <2>1, AgoFacts
<1>5. k \in 0 .. updates - (IF updating THEN 1 ELSE 0)
  BY <1>2 DEF Since, InProgress
<1>6. AgoOf(now, k) \in Times
  BY <1>3, <1>4, <1>5 DEF Times
<1>7. ShowsOn(AgoOf(now, k))
  BY <1>2 DEF SoFar, ShowsOn
<1>8. QED
  BY <1>6, <1>7

(* The time on the screen is one the chip had while it was read: no part   *)
(* of it is of another time than the rest, wherever the scheduler holds    *)
(* the program up and whatever updates come in between, as long as they    *)
(* are of less than a minute.                                              *)
THEOREM ShownTimeIsReal ==
  ASSUME UpdatesPerCall < 60
  PROVE  ClockSpec => []ShownTimeWasReal
<1>1. ClockInit => TypeInv /\ RealInv
  BY InitTypes, InitReal
<1>2. TypeInv /\ RealInv /\ [ClockNext]_clockVars => (TypeInv /\ RealInv)'
  BY StepTypes, StepReal
<1>3. TypeInv /\ RealInv => ShownTimeWasReal
  BY RealIsShown
<1>4. QED
  BY <1>1, <1>2, <1>3, PTL DEF ClockSpec
=============================================================================
