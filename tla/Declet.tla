------------------------------- MODULE Declet -------------------------------
(***************************************************************************)
(* Densely packed decimal: three digits of a DECFLOAT in ten bits.         *)
(***************************************************************************)
EXTENDS Integers, Sequences

(* n bits of a declet from bit lo.                                         *)
Bits(b, lo, n) == (b \div 2 ^ lo) % 2 ^ n

decletCombination(b) ==
  IF Bits(b, 1, 3) = 7 THEN 4 + Bits(b, 5, 2)
  ELSE IF Bits(b, 3, 1) = 1 THEN 3 - Bits(b, 1, 2) ELSE 0

(* Three digits from ten bits of densely packed decimal.                   *)
decfloatUnpackDeclet(b) ==
  LET combination == decletCombination(b)
      big(i)      == 8 + Bits(b, i, 1)
      small(i)    == Bits(b, i, 3)
      split(i, j) == 2 * Bits(b, i, 2) + Bits(b, j, 1)
      d == CASE combination = 0 -> <<small(7), small(4), small(0)>>
             [] combination = 1 -> <<big(7), small(4), split(8, 0)>>
             [] combination = 2 -> <<small(7), big(4), split(5, 0)>>
             [] combination = 3 -> <<small(7), small(4), big(0)>>
             [] combination = 4 -> <<big(7), big(4), split(8, 0)>>
             [] combination = 5 -> <<big(7), split(8, 4), big(0)>>
             [] combination = 6 -> <<small(7), big(4), big(0)>>
             [] combination = 7 -> <<big(7), big(4), big(0)>>
  IN  100 * d[1] + 10 * d[2] + d[3]

Unpacked == [b \in 0..1023 |-> decfloatUnpackDeclet(b)]

(* The lowest declet of each value, -1 where there is none.                *)
decfloatDecletTable ==
  [v \in 0..999 |-> LET at == {b \in 0..1023 : Unpacked[b] = v}
                    IN  IF at = {} THEN -1 ELSE CHOOSE b \in at : \A c \in at : b <= c]
=============================================================================
