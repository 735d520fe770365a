------------------------------ MODULE Numbers -------------------------------
(***************************************************************************)
(* Numbers as the driver binds and reads them: integers, packed and zoned  *)
(* decimals, DECFLOAT.                                                     *)
(*                                                                         *)
(* A numeric text is its sign, its digits before and after the point and   *)
(* its exponent; a text that is no number is NotANumber.  Digit strings    *)
(* are sequences of 0..9, bytes are sequences of nibbles.  The widths of   *)
(* the source (19 digits, 16 or 34 digits of a DECFLOAT, the limits on     *)
(* exponents) are constants.                                               *)
(***************************************************************************)
EXTENDS Integers, Sequences, SequencesExt, Declet

CONSTANTS
  IntDigits, IntMax,    \* digits of the largest integer, and that integer
  MaxExponent,          \* maxDecimalExponent
  Declets,              \* declets of a DECFLOAT: 5 or 11
  ExpBits, Bias, QMax   \* expContBits, bias (qmin = -bias) and qmax

NotANumber == [ok |-> FALSE]
Number(neg, int, frac, exp) ==
  [ok |-> TRUE, neg |-> neg, int |-> int, frac |-> frac, exp |-> exp]

Error == [ok |-> FALSE]
Zeros(n) == [i \in 1..n |-> 0]

(* strings.TrimLeft(s, "0") and strings.TrimRight(s, "0")                  *)
TrimLeft(ds) == SubSeq(ds, SelectInSeq(ds \o <<1>>, LAMBDA d : d # 0), Len(ds))
TrimRight(ds) == Reverse(TrimLeft(Reverse(ds)))

(* The number a digit string stands for, and coef.String().                *)
Num(ds) == FoldLeft(LAMBDA n, d : 10 * n + d, 0, ds)
Digits(n) ==
  LET k == CHOOSE j \in 1..10 : n < 10 ^ j /\ (j = 1 \/ n >= 10 ^ (j - 1))
  IN  [i \in 1..k |-> (n \div 10 ^ (k - i)) % 10]

-----------------------------------------------------------------------------
(* Mutant: a fraction is dropped instead of refused.                       *)
parameterFieldDecimalFloat_Truncates(t) ==
  IF ~t.ok THEN Error
  ELSE LET n == Num(t.int) IN
       IF n > IntMax THEN Error ELSE [ok |-> TRUE, n |-> IF t.neg THEN -n ELSE n]

(* An integer from a text: trailing zeros move into the exponent, and what *)
(* still has a fraction is refused.                                        *)
parameterFieldDecimalFloat(t) ==
  IF ~t.ok THEN Error
  ELSE LET digits  == TrimLeft(t.int \o t.frac)
           trimmed == TrimRight(digits)
           exp     == t.exp - Len(t.frac) + (Len(digits) - Len(trimmed))
       IN  IF digits = <<>> THEN [ok |-> TRUE, n |-> 0]
           ELSE IF t.exp > MaxExponent \/ t.exp < -MaxExponent THEN Error
           ELSE IF exp < 0 \/ Len(trimmed) + exp > IntDigits THEN Error
           ELSE LET n == (IF t.neg THEN -1 ELSE 1) * Num(trimmed \o Zeros(exp))
                IN  IF n > IntMax \/ n < -IntMax - 1 THEN Error ELSE [ok |-> TRUE, n |-> n]

(* INTEGER and SMALLINT narrow the 64-bit result after a range check.      *)
encodeNarrow(t, max) ==
  LET r == parameterFieldDecimalFloat(t)
  IN  IF ~r.ok \/ r.n > max \/ r.n < -max - 1 THEN Error
      ELSE [ok |-> TRUE, bits |-> r.n % (2 * (max + 1))]

-----------------------------------------------------------------------------
(* The digits before and after a point that may lie outside of them.       *)
IntDigitsOf(digits, point) ==
  IF point <= 0 THEN <<>>
  ELSE IF point >= Len(digits) THEN digits \o Zeros(point - Len(digits))
  ELSE SubSeq(digits, 1, point)

FracDigitsOf(digits, point) ==
  IF point <= 0 THEN Zeros(-point) \o digits ELSE SubSeq(digits, point + 1, Len(digits))

(* A zero is never negative, and has a digit.                              *)
SignedDigits(digits, neg) ==
  [ok |-> TRUE, digits |-> IF digits = <<>> THEN <<0>> ELSE digits,
   neg |-> neg /\ TrimLeft(digits) # <<>>]

CutToScale(digits, point, scale, neg) ==
  SignedDigits(TrimLeft(IntDigitsOf(digits, point))
                 \o SubSeq(FracDigitsOf(digits, point) \o Zeros(scale), 1, scale), neg)

(* The digits of a decimal parameter: cut to the scale, never rounded.     *)
decimalTextDigits(t, scale) ==
  LET digits == t.int \o t.frac
      point  == Len(t.int) + t.exp
  IN  IF ~t.ok THEN Error
      ELSE IF TrimLeft(digits) = <<>> \/ point < -MaxExponent
      THEN CutToScale(<<>>, 0, scale, t.neg)
      ELSE IF point > MaxExponent THEN Error
      ELSE CutToScale(digits, point, scale, t.neg)

(* The last n of the digits, with zeros in front when there are fewer.     *)
Fit(ds, n) == IF Len(ds) > n THEN SubSeq(ds, Len(ds) - n + 1, Len(ds))
              ELSE Zeros(n - Len(ds)) \o ds

(* Two digits a byte, the sign in the last nibble.                         *)
packDecimalDigits(digits, neg, length) ==
  Append(Fit(digits, 2 * length - 1), IF neg THEN 13 ELSE 12)

(* A digit a byte, the sign in the zone of the last.                       *)
zoneDecimalDigits(digits, neg, length) ==
  [i \in 1..length |-> <<IF neg /\ i = length THEN 13 ELSE 15, Fit(digits, length)[i]>>]

(* Mutant: a value that does not fit the precision loses its high digits.  *)
encodePackedOrZonedDecimalParameter_Cut(t, precision, scale, packed) ==
  LET d == decimalTextDigits(t, scale)
  IN  IF ~d.ok THEN Error
      ELSE [ok |-> TRUE,
            raw |-> IF packed THEN packDecimalDigits(d.digits, d.neg, (precision + 2) \div 2)
                    ELSE zoneDecimalDigits(d.digits, d.neg, precision)]

encodePackedOrZonedDecimalParameter(t, precision, scale, packed) ==
  LET d == decimalTextDigits(t, scale)
  IN  IF ~d.ok \/ (precision > 0 /\ Len(d.digits) > precision) THEN Error
      ELSE [ok |-> TRUE,
            raw |-> IF packed THEN packDecimalDigits(d.digits, d.neg, (precision + 2) \div 2)
                    ELSE zoneDecimalDigits(d.digits, d.neg, precision)]

(* The text of a decimal column: the digits fitted to the precision, the   *)
(* point before the last scale of them.                                    *)
DecimalText(digits, sign, precision, scale) ==
  LET fit == Fit(digits, precision)
      ds  == IF scale > 0 /\ scale >= Len(fit) THEN Zeros(scale - Len(fit) + 1) \o fit
             ELSE fit
  IN  Number(sign \in {11, 13}, SubSeq(ds, 1, Len(ds) - scale),
             SubSeq(ds, Len(ds) - scale + 1, Len(ds)), 0)

decodePackedDecimalString(raw, precision, scale) ==
  IF raw = <<>> THEN Number(FALSE, <<0>>, <<>>, 0)
  ELSE IF (\E i \in 1..(Len(raw) - 1) : raw[i] > 9) \/ Last(raw) < 10 THEN Error
  ELSE DecimalText(Front(raw), Last(raw), precision, scale)

decodeZonedDecimalString(raw, precision, scale) ==
  IF raw = <<>> THEN Number(FALSE, <<0>>, <<>>, 0)
  ELSE IF (\E i \in DOMAIN raw : raw[i][2] > 9) \/ Last(raw)[1] < 10 THEN Error
  ELSE DecimalText([i \in DOMAIN raw |-> raw[i][2]], Last(raw)[1], precision, scale)

-----------------------------------------------------------------------------
(* DECFLOAT.                                                               *)
Precision == 1 + 3 * Declets

parseDecfloatText(t) ==
  IF ~t.ok THEN Error
  ELSE [ok |-> TRUE, neg |-> t.neg, coef |-> Num(t.int \o t.frac),
        exp |-> t.exp - Len(t.frac)]

(* Mutant: a half is always rounded up.                                    *)
decfloatRoundDrop_HalfUp(coef, drop) ==
  IF drop <= 0 THEN coef ELSE (coef + 5 * 10 ^ (drop - 1)) \div 10 ^ drop

(* Half-even division by 10^drop.                                          *)
decfloatRoundDrop(coef, drop) ==
  LET p == 10 ^ drop
      q == coef \div p
      r == coef % p
  IN  IF drop <= 0 THEN coef
      ELSE IF 2 * r > p \/ (2 * r = p /\ q % 2 = 1) THEN q + 1 ELSE q

Len10(n) == Len(Digits(n))
Clamp(e) == IF e > QMax THEN QMax ELSE IF e < -Bias THEN -Bias ELSE e

(* Rounded to the precision; a carry into a new digit drops one more.      *)
ToPrecision(coef, exp) ==
  LET drop == Len10(coef) - Precision
      c    == decfloatRoundDrop(coef, drop)
  IN  IF drop <= 0 THEN <<coef, exp>>
      ELSE IF Len10(c) > Precision THEN <<decfloatRoundDrop(c, 1), exp + drop + 1>>
      ELSE <<c, exp + drop>>

(* An exponent below the range: the digits below it are rounded away.      *)
ToSubnormal(coef, exp) ==
  LET drop == -Bias - exp
  IN  IF drop <= 0 THEN <<coef, exp>>
      ELSE <<IF drop > Len10(coef) THEN 0 ELSE decfloatRoundDrop(coef, drop), -Bias>>

(* An exponent above the range: zeros are appended while there is room.    *)
ToLargest(coef, exp) ==
  LET shift == exp - QMax
  IN  IF shift <= 0 THEN [ok |-> TRUE, coef |-> coef, exp |-> exp]
      ELSE IF coef # 0 /\ Len10(coef) + shift > Precision THEN Error
      ELSE [ok |-> TRUE, coef |-> coef * 10 ^ shift, exp |-> QMax]

Finite(v) ==
  LET r == ToPrecision(v.coef, v.exp)
      s == ToSubnormal(r[1], r[2])
  IN  IF v.coef = 0 THEN [ok |-> TRUE, coef |-> 0, exp |-> Clamp(v.exp)]
      ELSE ToLargest(s[1], s[2])

(* The fields of the word: the combination holds the high bits of the      *)
(* exponent and the first digit.                                           *)
DecfloatWord(neg, digits, biased) ==
  LET msd == biased \div 2 ^ ExpBits
  IN  [ok      |-> TRUE,
       sign    |-> neg,
       comb    |-> IF digits[1] < 8 THEN 8 * msd + digits[1]
                   ELSE 24 + 2 * msd + (digits[1] - 8),
       expCont |-> biased % 2 ^ ExpBits,
       cont    |-> [i \in 1..Declets |->
                      decfloatDecletTable[Num(SubSeq(digits, 3 * i - 1, 3 * i + 1))]]]

encodeDecfloatFinite(v) ==
  LET f == Finite(v)
  IN  IF ~f.ok THEN Error
      ELSE DecfloatWord(v.neg, Fit(Digits(f.coef), Precision), f.exp + Bias)

(* The fields of the word back to sign, digits and exponent; 30 and 31 in  *)
(* the combination are the infinities and the NaNs.                        *)
decodeDecfloat(w) ==
  LET large == w.comb \div 8 = 3
      expMSD == IF large THEN (w.comb \div 2) % 4 ELSE w.comb \div 8
      coefMSD == IF large THEN 8 + (w.comb % 2) ELSE w.comb % 8
  IN  IF w.comb \in {30, 31} THEN Error
      ELSE [ok |-> TRUE, neg |-> w.sign,
            coef |-> FoldLeft(LAMBDA n, d : 1000 * n + Unpacked[d], coefMSD, w.cont),
            exp |-> w.expCont + 2 ^ ExpBits * expMSD - Bias]

(* The plain text of coef * 10^exp.                                        *)
formatDecfloatStr(d) ==
  LET ds    == Digits(d.coef)
      scale == -d.exp
      n     == Len(ds)
      parts == IF scale <= 0 THEN <<ds \o Zeros(-scale), <<>>>>
               ELSE IF scale >= n THEN <<<<0>>, Zeros(scale - n) \o ds>>
               ELSE <<SubSeq(ds, 1, n - scale), SubSeq(ds, n - scale + 1, n)>>
  IN  Number(d.neg /\ parts # <<<<0>>, <<>>>>, parts[1], parts[2], 0)
=============================================================================
