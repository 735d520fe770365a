------------------------------ MODULE TextCodec ------------------------------
(***************************************************************************)
(* Character conversion (internal/ccsid/ccsid.go): the single-byte, the    *)
(* double-byte and the mixed tables, and the padding of fixed-length text. *)
(*                                                                         *)
(* Text is a sequence of UTF-16 code units.  A unit is an abstract name,   *)
(* and what the conversion tables say about it is kept in SB and DB: SB    *)
(* maps the units that have a single byte to that byte, DB the units that  *)
(* have a double-byte code to that code, and Multi the sequences of units  *)
(* that share one code.  All other units map to the substitution character *)
(* of the table.  A double-byte code is a pair of bytes; the encoded form  *)
(* is a sequence of bytes.                                                 *)
(***************************************************************************)
EXTENDS Integers, Sequences, SequencesExt

CONSTANTS
    SB,         \* [units with a single byte -> byte]
    DB,         \* [units with a double-byte code -> <<lead, trail>>]
    Multi,      \* [sequences of two or more units -> <<lead, trail>>]
    LowPlane,   \* the units below U+0100, the euro sign, in two CCSIDs the overline
    High, Low   \* the leading and the trailing surrogates

shiftOut     == 14
shiftIn      == 15
sbSub        == 63
dbSubChar    == <<254, 254>>
sbSubUnicode == "sub"
dbSubUnicode == "SUB"

(* sb.fromUni and db.fromUni: a total table of 65536 entries in which the  *)
(* units without a code hold the substitution character.                   *)
sbFrom(u) == IF u = sbSubUnicode THEN sbSub ELSE IF u \in DOMAIN SB THEN SB[u] ELSE sbSub
dbFrom(u) == IF u \in DOMAIN DB THEN DB[u] ELSE dbSubChar

(* sb.toUnicode: the unit of a byte.                                       *)
sbTo(b) == IF \E u \in DOMAIN SB : SB[u] = b
           THEN CHOOSE u \in DOMAIN SB : SB[u] = b ELSE sbSubUnicode

(* decodeCode: the units of a double-byte code.                            *)
decodeCode(code) ==
    IF \E s \in DOMAIN Multi : Multi[s] = code
    THEN CHOOSE s \in DOMAIN Multi : Multi[s] = code
    ELSE IF \E u \in DOMAIN DB : DB[u] = code
         THEN <<CHOOSE u \in DOMAIN DB : DB[u] = code>>
         ELSE <<dbSubUnicode>>

maxMulti == IF DOMAIN Multi = {} THEN 0 ELSE Max({Len(s) : s \in DOMAIN Multi})

(* singleByte.Encode and Decode: unit by unit, surrogates included.        *)
EncodeSingle(src) == [i \in DOMAIN src |-> sbFrom(src[i])]
DecodeSingle(data) == [i \in DOMAIN data |-> sbTo(data[i])]

(* encodeAt: the code of the units starting at src[i], the longest sequence *)
(* of several units first, and the number of units it stands for.           *)
encodeAt(src, i) ==
    LET lengths == {l \in 2..maxMulti : /\ i + l - 1 <= Len(src)
                                        /\ SubSeq(src, i, i + l - 1) \in DOMAIN Multi}
    IN  IF lengths # {}
        THEN [code |-> Multi[SubSeq(src, i, i + Max(lengths) - 1)], n |-> Max(lengths)]
        ELSE IF src[i] \in High \cup Low
             THEN [code |-> dbSubChar,
                   n |-> IF src[i] \in High /\ i < Len(src) THEN 2 ELSE 1]
             ELSE [code |-> dbFrom(src[i]), n |-> 1]

(* doubleByte.Encode.                                                      *)
EncodeDouble(src) ==
    LET from[i \in 1..Len(src) + 1] ==
            IF i > Len(src) THEN <<>>
            ELSE LET e == encodeAt(src, i) IN e.code \o from[i + e.n]
    IN  from[1]

(* doubleByte.Decode: a trailing odd byte is dropped.                      *)
DecodeDouble(data) ==
    LET from[i \in 1..Len(data) + 2] ==
            IF i + 1 > Len(data) THEN <<>>
            ELSE decodeCode(<<data[i], data[i + 1]>>) \o from[i + 2]
    IN  from[1]

(* putSingle and putDouble: the bytes appended in the current shift state, *)
(* single or double.                                                       *)
putSingle(single, b) == [bytes |-> IF single THEN <<b>> ELSE <<shiftIn, b>>, single |-> TRUE]
putDouble(single, code) ==
    [bytes |-> IF single THEN <<shiftOut>> \o code ELSE code, single |-> FALSE]

(* One turn of the loop of mixedByte.Encode: the bytes put out for the     *)
(* units at src[i], the shift state after them and the units consumed.     *)
(* Mutant: the substitution of a unit neither table has is always one      *)
(* single byte, whatever the shift state.                                  *)
EncodeUnit_Substitute(src, i, single) ==
    LET u == src[i]
        e == encodeAt(src, i)
        n == IF u \in LowPlane /\ (sbFrom(u) # sbSub \/ u = sbSubUnicode) THEN 1 ELSE e.n
        put == IF u \in LowPlane /\ (sbFrom(u) # sbSub \/ u = sbSubUnicode)
               THEN putSingle(single, sbFrom(u))
               ELSE IF e.code # dbSubChar \/ u = dbSubUnicode
                    THEN putDouble(single, e.code)
                    ELSE [bytes |-> <<sbSub>>, single |-> single]
    IN  [bytes |-> put.bytes, single |-> put.single, n |-> n]
EncodeUnit(src, i, single) ==
    LET u == src[i]
        e == encodeAt(src, i)
        low == u \in LowPlane
        own == low /\ (sbFrom(u) # sbSub \/ u = sbSubUnicode)
        put == IF own THEN putSingle(single, sbFrom(u))
               ELSE IF e.code # dbSubChar \/ (~low /\ u = dbSubUnicode)
                    THEN putDouble(single, e.code)
               ELSE IF low THEN putSingle(single, sbSub)
               ELSE IF sbFrom(u) # sbSub THEN putSingle(single, sbFrom(u))
               ELSE [bytes |-> IF single THEN <<sbSub>> ELSE dbSubChar, single |-> single]
    IN  [bytes |-> put.bytes, single |-> put.single, n |-> IF own THEN 1 ELSE e.n]

(* mixedByte.Encode: the loop, and the shift back to single at the end.    *)
(* Mutant: the text ends in the state it is in.                            *)
EncodeMixed_Open(src) ==
    LET from[i \in 1..Len(src) + 1, single \in BOOLEAN] ==
            IF i > Len(src) THEN <<>>
            ELSE LET e == EncodeUnit(src, i, single)
                 IN  e.bytes \o from[i + e.n, e.single]
    IN  from[1, TRUE]
EncodeMixed(src) ==
    LET from[i \in 1..Len(src) + 1, single \in BOOLEAN] ==
            IF i > Len(src) THEN IF single THEN <<>> ELSE <<shiftIn>>
            ELSE LET e == EncodeUnit(src, i, single)
                 IN  e.bytes \o from[i + e.n, e.single]
    IN  from[1, TRUE]

(* mixedByte.Decode: a cut double-byte code is one substitution character. *)
DecodeMixed(data) ==
    LET from[i \in 1..Len(data) + 2, single \in BOOLEAN] ==
            IF i > Len(data) THEN <<>>
            ELSE IF single
                 THEN IF data[i] = shiftOut THEN from[i + 1, FALSE]
                      ELSE <<sbTo(data[i])>> \o from[i + 1, TRUE]
            ELSE IF data[i] = shiftIn THEN from[i + 1, TRUE]
            ELSE IF i = Len(data) THEN <<dbSubUnicode>>
            ELSE decodeCode(<<data[i], data[i + 1]>>) \o from[i + 2, FALSE]
    IN  from[1, TRUE]

(* fitTextBytesToLength: the blanks of the CCSID, as many as fit whole,    *)
(* with the text over them.                                                *)
fitTextBytesToLength(raw, length, space) ==
    LET blanks == length - (length % Len(space))
    IN  [i \in 1..length |->
            IF i <= Len(raw) THEN raw[i]
            ELSE IF i <= blanks THEN space[((i - 1) % Len(space)) + 1] ELSE 0]
=============================================================================
