----------------------------- MODULE DateTimes ------------------------------
(***************************************************************************)
(* DATE, TIME and TIMESTAMP as text.  A text is a sequence of digits and   *)
(* separators: the driver reads dates and times by position and does not   *)
(* look at their separators, so all separators are one.  A date is         *)
(* <<year, month, day>>, a time <<hour, minute, second>>.                  *)
(*                                                                         *)
(* The twelve digits of a fraction and the nine a time.Time holds are      *)
(* FracDigits and NanoDigits.                                              *)
(***************************************************************************)
EXTENDS Integers, Sequences, SequencesExt

CONSTANTS FracDigits, NanoDigits

DateFormats == {"julian", "mdy", "dmy", "ymd", "usa", "iso", "eur", "jis"}
TimeFormats == {"hms", "usa", "iso", "eur", "jis"}

Invalid == [ok |-> FALSE]
Valid(v) == [ok |-> TRUE, v |-> v]

Sep == 10        \* any separator
AM == 11
PM == 12
M == 13          \* the M of AM and PM
Digit == 0..9

Pad(n, w) == [i \in 1..w |-> (n \div 10 ^ (w - i)) % 10]

-----------------------------------------------------------------------------
(* The calendar time.Date checks against.                                  *)
Leap(y) == (y % 4 = 0 /\ y % 100 # 0) \/ y % 400 = 0
DaysIn(y, m) == CASE m = 2 -> (IF Leap(y) THEN 29 ELSE 28)
                  [] m \in {4, 6, 9, 11} -> 30
                  [] OTHER -> 31
IsDate(y, m, d) == m \in 1..12 /\ d \in 1..DaysIn(y, m)
Before(y, m) == FoldLeft(LAMBDA n, k : n + DaysIn(y, k), 0, [k \in 1..(m - 1) |-> k])
YearDay(y, m, d) == Before(y, m) + d
OfYearDay(y, n) ==
  LET m == CHOOSE k \in 1..12 : Before(y, k) < n /\ n <= Before(y, k) + DaysIn(y, k)
  IN  <<y, m, n - Before(y, m)>>

(* fieldReader.num: n digits at an offset (from 0), or -1 for its error.   *)
num(s, start, n) ==
  IF start + n > Len(s) \/ \E i \in (start + 1)..(start + n) : s[i] \notin Digit THEN -1
  ELSE FoldLeft(LAMBDA v, d : 10 * v + d, 0, SubSeq(s, start + 1, start + n))

(* Mutant: the window of two-digit years ends at 2040.                     *)
expandTwoDigitYear_Late(yy) ==
  IF yy = -1 THEN -1 ELSE IF yy <= 40 THEN 2000 + yy ELSE 1900 + yy

expandTwoDigitYear(yy) ==
  IF yy = -1 THEN -1 ELSE IF yy <= 39 THEN 2000 + yy ELSE 1900 + yy

yearAt(s, start) ==
  IF Len(s) <= 8 THEN expandTwoDigitYear(num(s, start, 2)) ELSE num(s, start, 4)

formatDate(date, format) ==
  LET y  == date[1]
      m  == Pad(date[2], 2)
      d  == Pad(date[3], 2)
      yy == Pad(y % 100, 2)
      s  == <<Sep>>
  IN  CASE format = "usa" -> m \o s \o d \o s \o Pad(y, 4)
        [] format = "eur" -> d \o s \o m \o s \o Pad(y, 4)
        [] format = "julian" -> yy \o s \o Pad(YearDay(y, date[2], date[3]), 3)
        [] format = "mdy" -> m \o s \o d \o s \o yy
        [] format = "dmy" -> d \o s \o m \o s \o yy
        [] format = "ymd" -> yy \o s \o m \o s \o d
        [] OTHER -> Pad(y, 4) \o s \o m \o s \o d

(* The year, month and day a text has at the positions of its format.      *)
DateFields(s, format) ==
  CASE format = "usa" -> <<num(s, 6, 4), num(s, 0, 2), num(s, 3, 2)>>
    [] format = "eur" -> <<num(s, 6, 4), num(s, 3, 2), num(s, 0, 2)>>
    [] format = "mdy" -> <<yearAt(s, 6), num(s, 0, 2), num(s, 3, 2)>>
    [] format = "dmy" -> <<yearAt(s, 6), num(s, 3, 2), num(s, 0, 2)>>
    [] format = "ymd" /\ Len(s) <= 8 ->
         <<expandTwoDigitYear(num(s, 0, 2)), num(s, 3, 2), num(s, 6, 2)>>
    [] OTHER -> <<num(s, 0, 4), num(s, 5, 2), num(s, 8, 2)>>

parseJulian(s) ==
  LET short == Len(s) <= 6
      y     == IF short THEN expandTwoDigitYear(num(s, 0, 2)) ELSE num(s, 0, 4)
      day   == num(s, IF short THEN 3 ELSE 5, 3)
  IN  IF y = -1 \/ day < 1 \/ day > (IF Leap(y) THEN 366 ELSE 365) THEN Invalid
      ELSE Valid(OfYearDay(y, day))

(* A blank or all-zero text is the epoch.                                  *)
parseDate(s, format) ==
  IF \A i \in DOMAIN s : s[i] = 0 THEN Valid(<<1970, 1, 1>>)
  ELSE IF format = "julian" THEN parseJulian(s)
  ELSE LET f == DateFields(s, format)
       IN  IF -1 \in {f[1], f[2], f[3]} \/ ~IsDate(f[1], f[2], f[3]) THEN Invalid
           ELSE Valid(f)

-----------------------------------------------------------------------------
(* The USA format has no seconds and counts from twelve.                   *)
formatTime(time, format) ==
  LET h == time[1]
      s == <<Sep>>
      usa == IF h > 12 THEN h - 12 ELSE IF h = 0 THEN 12 ELSE h
  IN  IF format = "usa"
      THEN Pad(usa, 2) \o s \o Pad(time[2], 2) \o s \o <<IF h >= 12 THEN PM ELSE AM, M>>
      ELSE Pad(h, 2) \o s \o Pad(time[2], 2) \o s \o Pad(time[3], 2)

(* Mutant: twelve in the afternoon becomes twenty-four.                    *)
HourUSA_Noon(hour, marker) ==
  IF marker = AM THEN (IF hour = 12 THEN 0 ELSE hour) ELSE hour + 12

HourUSA(hour, marker) ==
  IF marker = AM THEN (IF hour = 12 THEN 0 ELSE hour)
  ELSE IF hour = 12 THEN 12 ELSE hour + 12

parseTimeFields(s, format) ==
  IF format = "usa"
  THEN IF Len(s) < 7 \/ num(s, 0, 2) = -1 \/ num(s, 3, 2) = -1 THEN Invalid
       ELSE IF num(s, 0, 2) > 12 \/ s[7] \notin {AM, PM} \/ num(s, 3, 2) > 59 THEN Invalid
       ELSE Valid(<<HourUSA(num(s, 0, 2), s[7]), num(s, 3, 2), 0>>)
  ELSE LET h == num(s, 0, 2)
           m == num(s, 3, 2)
           x == num(s, 6, 2)
       IN  IF -1 \in {h, m, x} \/ m > 59 \/ x > 59 THEN Invalid
           ELSE IF <<h, m, x>> = <<24, 0, 0>> THEN Valid(<<0, 0, 0>>)
           ELSE IF h > 23 THEN Invalid ELSE Valid(<<h, m, x>>)

-----------------------------------------------------------------------------
(* A timestamp is a date, a time, the digits a time.Time keeps and all     *)
(* digits: [date, time, nanos, picos].                                     *)
Ratio == 10 ^ (FracDigits - NanoDigits)

Base(ts) == Pad(ts.date[1], 4) \o <<Sep>> \o Pad(ts.date[2], 2) \o <<Sep>>
              \o Pad(ts.date[3], 2) \o <<Sep>> \o Pad(ts.time[1], 2) \o <<Sep>>
              \o Pad(ts.time[2], 2) \o <<Sep>> \o Pad(ts.time[3], 2)

timestampText(ts) ==
  IF ts.picos < 0 \/ ts.picos >= 10 ^ FracDigits THEN Invalid
  ELSE Valid(Base(ts) \o <<Sep>> \o Pad(IF ts.picos = 0 THEN ts.nanos * Ratio ELSE ts.picos,
                                        FracDigits))

(* Date and time of the first nineteen places, hour 24 refused.            *)
BaseFields(s) ==
  LET d == <<num(s, 0, 4), num(s, 5, 2), num(s, 8, 2)>>
      t == <<num(s, 11, 2), num(s, 14, 2), num(s, 17, 2)>>
  IN  IF -1 \in {d[1], d[2], d[3], t[1], t[2], t[3]} \/ ~IsDate(d[1], d[2], d[3])
         \/ t[1] > 23 \/ t[2] > 59 \/ t[3] > 59
      THEN Invalid ELSE Valid([date |-> d, time |-> t])

(* Mutant: a short fraction is not padded to the right.                    *)
parseTimestampText_Unpadded(s) ==
  LET b     == BaseFields(s)
      frac  == SubSeq(s, 21, Len(s))
      picos == IF frac = <<>> THEN 0 ELSE num(frac, 0, Len(frac))
  IN  IF ~b.ok THEN Invalid
      ELSE Valid([date |-> b.v.date, time |-> b.v.time, nanos |-> picos \div Ratio, picos |-> picos])

parseTimestampText(s) ==
  LET b     == BaseFields(s)
      frac  == SubSeq(s, 21, Len(s))
      picos == num(frac \o Pad(0, FracDigits - Len(frac)), 0, FracDigits)
  IN  IF Len(s) < 19 \/ ~b.ok THEN Invalid
      ELSE IF Len(s) > 19 /\ (s[20] # Sep \/ Len(frac) \notin 1..FracDigits \/ picos = -1)
      THEN Invalid
      ELSE Valid([date |-> b.v.date, time |-> b.v.time, nanos |-> picos \div Ratio,
                  picos |-> picos])

(* The decoder of TIMESTAMP columns: digits beyond NanoDigits are cut.     *)
parseIBMiTimestamp(s) ==
  LET b    == BaseFields(s)
      frac == SubSeq(s, 21, IF Len(s) > 20 + NanoDigits THEN 20 + NanoDigits ELSE Len(s))
      n    == num(frac \o Pad(0, NanoDigits - Len(frac)), 0, NanoDigits)
  IN  IF Len(s) < 19 \/ ~b.ok \/ (Len(s) > 19 /\ (s[20] # Sep \/ n = -1)) THEN Invalid
      ELSE Valid([date |-> b.v.date, time |-> b.v.time, nanos |-> n])

(* encodeTimestampParameter: the text is cut to the column.                *)
encodeTimestampParameter(s, length) == IF Len(s) > length THEN SubSeq(s, 1, length) ELSE s
=============================================================================
