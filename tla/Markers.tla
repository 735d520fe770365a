------------------------------ MODULE Markers -------------------------------
(***************************************************************************)
(* Parameter markers: how values become raw bindings, how bindings become  *)
(* the descriptor and the data of a request, how rows are cut into blocks, *)
(* and where the output parameters of a CALL are read from its reply.      *)
(*                                                                         *)
(* Bytes are counted, not written: a value is its kind and its size, a     *)
(* binding is the length of its raw form.  A length of 0 in a field is one *)
(* the server left open.  Widths and limits of the source are constants.   *)
(***************************************************************************)
EXTENDS Integers, Sequences, FiniteSets, SequencesExt

CONSTANTS
  Max16,           \* 0xFFFF
  MaxBlockRows,    \* maxBlockRows
  MaxBlockBytes    \* maxBlockBytes

Refused == [ok |-> FALSE]
Raw(n) == [ok |-> TRUE, len |-> n]

(* parameterMarkerField: its type, its length, its precision, whether its  *)
(* CCSID is 65535, its mode, its LOB locator (0 for none) and LOB size.    *)
Types == {"bigint", "integer", "smallint", "float", "decimal", "numeric", "timestamp",
          "char", "varchar", "graphic", "vargraphic", "binary", "varbinary", "decfloat",
          "boolean", "blob", "clob", "dbclob", "xml"}

(* Character data of CCSID 65535 is binary.                                *)
parameterFieldDB2Type(f) ==
  IF ~f.binary THEN f.type
  ELSE CASE f.type = "char" -> "binary" [] f.type = "varchar" -> "varbinary" [] OTHER -> f.type

isLOBParameterField(f) == parameterFieldDB2Type(f) \in {"blob", "clob", "dbclob", "xml"}

Width(type) ==
  CASE type = "bigint" -> 8 [] type = "integer" -> 4 [] type = "smallint" -> 2
    [] OTHER -> 0

(* Mutant: a packed decimal of even precision is one byte short.           *)
parameterFieldNullLength_Packed(f) ==
  LET type == parameterFieldDB2Type(f)
  IN  CASE f.length > 0                                -> f.length
        [] type \in {"bigint", "integer", "smallint"}  -> Width(type)
        [] type = "boolean"                            -> 1
        [] type = "float"                              -> 8
        [] type = "decimal" /\ f.precision > 0         -> (f.precision + 1) \div 2
        [] type = "numeric" /\ f.precision > 0         -> f.precision
        [] type = "decfloat"                           -> IF f.precision = 34 THEN 16 ELSE 8
        [] OTHER                                       -> 0

parameterFieldNullLength(f) ==
  LET type == parameterFieldDB2Type(f)
  IN  CASE f.length > 0                                -> f.length
        [] type \in {"bigint", "integer", "smallint"}  -> Width(type)
        [] type = "boolean"                            -> 1
        [] type = "float"                              -> 8
        [] type = "decimal" /\ f.precision > 0         -> (f.precision + 2) \div 2
        [] type = "numeric" /\ f.precision > 0         -> f.precision
        [] type = "decfloat"                           -> IF f.precision = 34 THEN 16 ELSE 8
        [] OTHER                                       -> 0

Larger(a, b) == IF a > b THEN a ELSE b

(* encodeFixedTextBytes: padded to the field, refused when longer.         *)
encodeFixedTextBytes(size, f) ==
  IF f.length <= 0 THEN Raw(size)
  ELSE IF size > f.length THEN Refused ELSE Raw(f.length)

(* A two-byte length, in characters for graphic data, and the value.       *)
encodeVarying(size, f, unit) ==
  IF size % unit # 0 \/ (f.length > 0 /\ size + 2 > f.length) \/ size \div unit > Max16
  THEN Refused ELSE Raw(2 + size)

decfloatParameterSize(f) ==
  CASE f.length \in {8, 16} -> Raw(f.length)
    [] f.length = 0 -> Raw(IF f.precision > 16 THEN 16 ELSE 8)
    [] OTHER -> Refused

(* encodeParameterValue for a value that converts; size is that of its     *)
(* encoded text or bytes.                                                  *)
encodeParameterValue(f, size) ==
  LET type == parameterFieldDB2Type(f)
  IN  CASE type \in {"bigint", "integer", "smallint"} ->
             Raw(Larger(parameterFieldNullLength(f), Width(type)))
        [] type = "float" -> Raw(IF f.length = 4 THEN 4 ELSE 8)
        [] type = "decimal" -> Raw(IF f.length > 0 THEN f.length ELSE (f.precision + 2) \div 2)
        [] type = "numeric" -> Raw(IF f.length > 0 THEN f.length ELSE f.precision)
        [] type = "timestamp" ->
             encodeFixedTextBytes(IF f.length > 0 /\ size > f.length THEN f.length ELSE size, f)
        [] type = "binary" -> Raw(IF f.length > 0 THEN f.length ELSE size)
        [] type \in {"varbinary", "varchar"} -> encodeVarying(size, f, 1)
        [] type = "vargraphic" -> encodeVarying(size, f, 2)
        [] type = "decfloat" -> decfloatParameterSize(f)
        [] type = "boolean" -> Raw(1)
        [] OTHER -> encodeFixedTextBytes(size, f)

(* Without an input locator a LOB travels in the row behind a four-byte    *)
(* length; with one the row carries the locator.                           *)
encodeInlineLOBParameterValue(f, given, size) ==
  LET room == IF f.length > 0 THEN f.length ELSE f.lobMax + 4
  IN  IF given /\ size > room - 4 THEN Refused ELSE Raw(room)

encodeLOBParameterValue(f, given, size) ==
  IF f.locator > 0 THEN Raw(4)
  ELSE IF f.lobMax > 0 /\ parameterFieldDB2Type(f) # "xml"
       THEN encodeInlineLOBParameterValue(f, given, size)
       ELSE Refused

(* An argument: a plain value, NULL, or sql.Out with or without In.        *)
Modes == {"in", "out", "inout"}
Arguments == {"value", "null", "out", "outIn"}

(* One marker of buildParameterBindingsWithBidi: [raw length, isNull].     *)
Binding(f, arg, size) ==
  LET isOut    == arg \in {"out", "outIn"}
      noInput  == isOut /\ (f.mode = "out" \/ (f.mode = "inout" /\ arg = "out"))
      outNull  == isOut /\ f.mode = "inout" /\ arg = "out"
      given    == ~noInput /\ arg # "null"
      r        == IF isLOBParameterField(f) THEN encodeLOBParameterValue(f, given, size)
                  ELSE IF given THEN encodeParameterValue(f, size)
                  ELSE Raw(parameterFieldNullLength(f))
      null     == IF isLOBParameterField(f) THEN outNull \/ arg = "null"
                  ELSE arg = "null"
  IN  IF (isOut /\ f.mode = "in") \/ ~r.ok THEN Refused
      ELSE [ok |-> TRUE, len |-> r.len, null |-> null, out |-> isOut, field |-> f]

-----------------------------------------------------------------------------
(* Descriptor and data.  A list of bindings is given by its raw lengths.   *)
Total(lens) == FoldSeq(LAMBDA a, b : a + b, 0, lens)
Offset(lens, i) == Total(SubSeq(lens, 1, i - 1))

(* Mutant: only the single lengths are compared with the 16-bit limit.     *)
parameterMarkerPayloadLayout_NoTotal(original, lens) ==
  ~original \/ Len(lens) > Max16 \/ \E i \in DOMAIN lens : lens[i] > Max16

(* TRUE for the extended layout.                                           *)
parameterMarkerPayloadLayout(original, lens) ==
  ~original \/ Len(lens) > Max16
  \/ (\E i \in DOMAIN lens : lens[i] > Max16) \/ Total(lens) > Max16

(* A number written into two bytes.                                        *)
U16(n) == n % (Max16 + 1)
Field(ext, n) == IF ext THEN n ELSE U16(n)

buildParameterMarkerFormatPayload(original, lens) ==
  LET ext == parameterMarkerPayloadLayout(original, lens)
  IN  [ext |-> ext, count |-> Field(ext, Len(lens)), rowSize |-> Field(ext, Total(lens)),
       lens |-> [i \in DOMAIN lens |-> Field(ext, lens[i])],
       size |-> IF ext THEN 16 + 64 * Len(lens) ELSE 8 + 54 * Len(lens)]

(* rows is a sequence of rows of one shape; a single row is the data of an *)
(* ordinary execute.                                                       *)
buildBlockParameterMarkerData(original, rows) ==
  LET first  == rows[1]
      ext    == parameterMarkerPayloadLayout(original, first)
      header == IF ext THEN 20 ELSE 14
      data   == header + Len(rows) * Len(first) * 2
  IN  IF \E r \in DOMAIN rows : rows[r] # first THEN Refused
      ELSE [ok |-> TRUE, ext |-> ext, rows |-> Len(rows), columns |-> U16(Len(first)),
            rowSize |-> Field(ext, Total(first)),
            size |-> data + Len(rows) * Total(first),
            null |-> [r \in DOMAIN rows |-> [c \in DOMAIN first |->
                        header + ((r - 1) * Len(first) + (c - 1)) * 2]],
            cell |-> [r \in DOMAIN rows |-> [c \in DOMAIN first |->
                        data + Total([k \in 1..(r - 1) |-> Total(rows[k])])
                             + Offset(rows[r], c)]]]

sameBindingShape(a, b) == a = b

(* Mutant: the limit on the bytes of a block is tested one row late.       *)
blockEnd_Late(rows, start) ==
  LET fits(end) == /\ end - start <= MaxBlockRows
                   /\ \A r \in (start + 1)..(end - 1) :
                        /\ sameBindingShape(rows[start], rows[r])
                        /\ (r - start) * Total(rows[start]) <= MaxBlockBytes
  IN  CHOOSE end \in (start + 1)..(Len(rows) + 1) :
        fits(end) /\ (end = Len(rows) + 1 \/ ~fits(end + 1))

(* The end (exclusive) of the block that begins with row start.            *)
blockEnd(rows, start) ==
  LET fits(end) == /\ end - start <= MaxBlockRows
                   /\ \A r \in (start + 1)..(end - 1) :
                        /\ sameBindingShape(rows[start], rows[r])
                        /\ (r - start + 1) * Total(rows[start]) <= MaxBlockBytes
  IN  CHOOSE end \in (start + 1)..(Len(rows) + 1) :
        (end = start + 1 \/ fits(end)) /\ (end = Len(rows) + 1 \/ ~fits(end + 1))

(* execBatchBlocks: the first rows of the blocks.                          *)
execBatchBlocks(rows) ==
  LET starts[r \in 1..(Len(rows) + 1)] ==
        IF r > Len(rows) THEN <<>> ELSE <<r>> \o starts[blockEnd(rows, r)]
  IN  starts[1]

-----------------------------------------------------------------------------
(* The reply of a CALL has one column for each output parameter, or one    *)
(* for each parameter.                                                     *)
isOutputParameterField(f) == f.mode \in {"out", "inout"}

parameterFieldResultLength(f) ==
  IF isLOBParameterField(f) /\ f.locator > 0 THEN 4 ELSE parameterFieldNullLength(f)

(* Mutant: parameters without a destination take no room in the row.       *)
assignCallOutputParameters_Skips(bindings, columns, rowSize) ==
  LET reads == SelectSeq([i \in DOMAIN bindings |-> i], LAMBDA i : bindings[i].out)
      lens  == [c \in DOMAIN reads |-> parameterFieldResultLength(bindings[reads[c]].field)]
  IN  [ok |-> TRUE, reads |-> {[param |-> reads[c], at |-> Offset(lens, c)] : c \in DOMAIN reads}]

(* Which parameter is read from which offset of the row.                   *)
assignCallOutputParameters(bindings, columns, rowSize) ==
  LET all     == [i \in DOMAIN bindings |-> i]
      outputs == SelectSeq(all, LAMBDA i : isOutputParameterField(bindings[i].field))
      cols    == IF columns = Len(outputs) THEN outputs ELSE all
      lens    == [c \in DOMAIN cols |-> parameterFieldResultLength(bindings[cols[c]].field)]
  IN  IF (\A i \in DOMAIN bindings : ~bindings[i].out) \/ columns = 0
      THEN [ok |-> TRUE, reads |-> {}]
      ELSE IF columns \notin {Len(outputs), Len(all)} \/ Total(lens) > rowSize THEN Refused
      ELSE [ok |-> TRUE,
            reads |-> {[param |-> cols[c], at |-> Offset(lens, c)] :
                         c \in {k \in DOMAIN cols : bindings[cols[k]].out}}]
=============================================================================
