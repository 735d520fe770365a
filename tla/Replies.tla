------------------------------- MODULE Replies -------------------------------
(***************************************************************************)
(* The parsers of the server's replies: the code point sections of a       *)
(* payload, the column and parameter formats, blocks of rows, the values   *)
(* inside a row, the SQLCA, LOB data and package information.              *)
(*                                                                         *)
(* A payload is its length n and the numbers the parser reads out of it    *)
(* (counts, lengths, offsets); other contents are left out.  A parser      *)
(* gives the ranges of bytes it reads, counted from 0, and whether it      *)
(* reports an error.  In Go a range outside of the payload is a panic, so  *)
(* the interesting part of a parser is what it checks before it reads.     *)
(***************************************************************************)
EXTENDS Integers, Sequences, SequencesExt, FiniteSetsExt

R(at, len) == [at |-> at, len |-> len]
Fails(reads) == [err |-> TRUE, reads |-> reads]
Reads(reads) == [err |-> FALSE, reads |-> reads]

SumTo(f, k) == FoldLeft(LAMBDA a, b : a + b, 0, SubSeq(f, 1, k))

(* sliceReader: a position that moves only over bytes that are there.      *)
readBytes(r, k) ==
    IF r.err \/ k < 0 \/ r.n - r.pos < k THEN [r EXCEPT !.err = TRUE]
    ELSE [r EXCEPT !.pos = @ + k, !.reads = @ \cup {R(r.pos, k)}]

newSliceReader(n) == [n |-> n, pos |-> 0, err |-> FALSE, reads |-> {}]

(* ParseHeader, readReplyEnvelope and readSimpleReply: the fixed parts of  *)
(* a reply; a header whose length does not match is read without it.       *)
ParseHeader(n) == IF n < 20 THEN Fails({}) ELSE Reads({R(0, 20)})
readReplyEnvelope(n, id) ==
    IF n < 40 THEN Fails({})
    ELSE IF ParseHeader(n).err \/ id # "2800" THEN Fails(ParseHeader(n).reads)
         ELSE Reads({R(0, 40), R(40, n - 40)})
readSimpleReply(n) == IF n < 24 THEN Fails({}) ELSE Reads({R(20, 4), R(24, n - 24)})

(* ParseLLCP: a section with length ll at the start of the n bytes left.   *)
(* Mutant: the rest begins inside the section, without its LL and CP.      *)
ParseLLCP_Header(n, ll) ==
    IF n < 6 \/ ll < 6 \/ ll > n THEN [err |-> TRUE, payload |-> R(0, 0), rest |-> n]
    ELSE [err |-> FALSE, payload |-> R(6, ll - 6), rest |-> n - (ll - 6)]
ParseLLCP(n, ll) ==
    IF n < 6 \/ ll < 6 \/ ll > n THEN [err |-> TRUE, payload |-> R(0, 0), rest |-> n]
    ELSE [err |-> FALSE, payload |-> R(6, ll - 6), rest |-> n - ll]

(* The loop "for len(remaining) > 0 { ParseLLCP(remaining) ... }" of       *)
(* parseFetchPayload, parseSQLCAFromPayload, parsePackageInfo and the LOB   *)
(* parsers: the payload of the first section with the wanted code point.   *)
(* heads are the sections of the reply, [ll, cp] each.                     *)
FindSection(n, heads, wanted) ==
    LET Section(s, h) ==
            LET p == ParseLLCP(s.left, h.ll)
            IN  IF s.err \/ s.found # {} \/ s.left = 0 THEN s
                ELSE IF p.err THEN [s EXCEPT !.err = TRUE]
                ELSE [s EXCEPT !.left = p.rest,
                               !.found = IF h.cp = wanted
                                         THEN {R(n - s.left + p.payload.at, p.payload.len)}
                                         ELSE {}]
    IN  FoldLeft(Section, [left |-> n, err |-> FALSE, found |-> {}], heads)

-----------------------------------------------------------------------------
(* Blocks of rows.                                                         *)

(* parseResultDataPayload (a header of 20 bytes) and                       *)
(* parseOriginalResultDataPayload (14 bytes); h has the counts and sizes   *)
(* of the header.  Both go on with parseResultDataBlock.                   *)
ResultHeader(original) == IF original THEN 14 ELSE 20

Indicator(b, r, c) == R(b.start + (r * b.cols + c) * b.ind, b.ind)
DataStart(b) == b.start + b.rows * b.cols * b.ind

(* The data of row r (currentRow), counted from the start of the payload.  *)
(* Mutant: the rows are taken to follow each other with their indicators.  *)
RowData_Interleaved(b, r) ==
    R(b.start + r * (b.size + b.cols * b.ind) + b.cols * b.ind, b.size)
RowData(b, r) == R(DataStart(b) + r * b.size, b.size)

parseResultDataBlock(n, original, h) ==
    LET b == [start |-> ResultHeader(original), rows |-> h.rows, cols |-> h.cols,
              ind |-> h.ind, size |-> h.size]
    IN  IF \/ n < b.start
           \/ b.ind > 0 /\ n < DataStart(b)
           \/ n - DataStart(b) < b.rows * b.size
        THEN [err |-> TRUE, nulls |-> {}, rowData |-> <<>>]
        ELSE [err |-> FALSE,
              nulls |-> IF b.ind = 0 THEN {}
                        ELSE {Indicator(b, r, c) : r \in 0..b.rows - 1, c \in 0..b.cols - 1},
              rowData |-> [r \in 1..b.rows |-> RowData(b, r - 1)]]

-----------------------------------------------------------------------------
(* Column formats.                                                         *)

(* The variable information of one column in parseSuperExtendedDataFormat: *)
(* items of eight bytes and a name, until the declared length is used up,  *)
(* and padding.  st has the reader, the items that follow in the payload   *)
(* and the items of the columns so far.                                    *)
(* Mutant: only the name is taken off the declared length.                 *)
NameItem_NameOnly(s, item) ==
    IF s.r.err \/ s.remaining < 8 THEN s
    ELSE [r |-> readBytes(readBytes(s.r, 8), item.ll - 8),
          remaining |-> s.remaining - (item.ll - 8), took |-> s.took + 1]
NameItem(s, item) ==
    IF s.r.err \/ s.remaining < 8 THEN s
    ELSE [r |-> readBytes(readBytes(s.r, 8), item.ll - 8),
          remaining |-> s.remaining - item.ll, took |-> s.took + 1]

VariableInfo(st, declared) ==
    LET s == FoldLeft(NameItem, [r |-> st.r, remaining |-> declared, took |-> 0], st.items)
    IN  [r |-> IF s.remaining <= 0 THEN s.r ELSE readBytes(s.r, Min({s.remaining, 8})),
         items |-> SubSeq(st.items, s.took + 1, Len(st.items)),
         got |-> Append(st.got, SubSeq(st.items, 1, s.took))]

(* parseSuperExtendedDataFormat: a header of 16 bytes, 48 bytes for each   *)
(* column, the variable information, and the offsets of the columns, which *)
(* are the sums of the lengths before them.                                *)
Offsets(lengths) == [i \in DOMAIN lengths |-> SumTo(lengths, i - 1)]

parseSuperExtendedDataFormat(n, recordSize, lengths, declared, items) ==
    LET fixed == readBytes(readBytes(newSliceReader(n), 16), 48 * Len(lengths))
        st == FoldLeft(LAMBDA s, d : IF s.r.err THEN s ELSE VariableInfo(s, d),
                       [r |-> fixed, items |-> items, got |-> <<>>], declared)
    IN  [err |-> st.r.err, reads |-> st.r.reads, got |-> st.got,
         offsets |-> Offsets(lengths),
         rowSize |-> IF recordSize = 0 THEN SumTo(lengths, Len(lengths)) ELSE recordSize]

(* ensureColumns: the second of the two column sections of a reply must    *)
(* have as many columns as the first.                                      *)
ensureColumns(have, count) == have = 0 \/ have = count

(* One column of parseExtendedColumnDescriptors: the reader goes forward   *)
(* to the section of the column, and reads descriptors until its length is *)
(* used up; a label has a CCSID of two bytes before its text.              *)
Descriptor(s, item) ==
    LET left == s.stop - s.r.pos
        ccsid == IF item.cp = "label" THEN 2 ELSE 0
    IN  IF s.r.err \/ left < 6 THEN s
        ELSE [s EXCEPT !.r = readBytes(readBytes(readBytes(@, 6), ccsid), item.ll - 6 - ccsid),
                       !.took = @ + 1]

ColumnSection(st, d) ==
    LET begun == IF d.offset - 6 > st.r.pos
                 THEN readBytes(st.r, d.offset - 6 - st.r.pos) ELSE st.r
        s == FoldLeft(Descriptor, [r |-> begun, stop |-> begun.pos + d.length, took |-> 0], st.items)
    IN  [r |-> IF s.stop <= s.r.pos THEN s.r ELSE readBytes(s.r, Min({s.stop - s.r.pos, 6})),
         items |-> SubSeq(st.items, s.took + 1, Len(st.items)),
         got |-> Append(st.got, SubSeq(st.items, 1, s.took))]

parseExtendedColumnDescriptors(n, columns, items) ==
    LET fixed == readBytes(readBytes(newSliceReader(n), 10), 16 * Len(columns))
        early == \E i \in DOMAIN columns : columns[i].offset < 6
        st == FoldLeft(LAMBDA s, d : IF s.r.err THEN s ELSE ColumnSection(s, d),
                       [r |-> [fixed EXCEPT !.err = @ \/ early], items |-> items, got |-> <<>>],
                       columns)
    IN  [err |-> st.r.err, reads |-> st.r.reads, got |-> st.got]

-----------------------------------------------------------------------------
(* Tables of records of one size: the three parameter marker formats, the  *)
(* format of a package (SQLDA) and the entries of a package.               *)

Tables == [original |-> [header |-> 8, record |-> 54, name |-> 32],
           extended |-> [header |-> 16, record |-> 64, name |-> 34],
           superExtended |-> [header |-> 16, record |-> 48, name |-> 0],
           sqlda |-> [header |-> 16, record |-> 80, name |-> 66],
           package |-> [header |-> 42, record |-> 64, name |-> 0]]

(* parseOriginalParameterMarkerFormat, parseExtendedParameterMarkerFormat, *)
(* parseSuperExtendedParameterMarkerFormat, parseSQLDAFormat: the header,  *)
(* the records, and in each record a name of nameLength bytes if the       *)
(* payload has that many.                                                  *)
(* Mutant: the header is left out of the length check.                     *)
parseTable_Records(t, n, count, nameLength) ==
    IF n < Tables[t].header \/ n < count * Tables[t].record THEN Fails({})
    ELSE Reads({R(0, Tables[t].header)}
               \cup {R(Tables[t].header + i * Tables[t].record, Tables[t].record) : i \in 0..count - 1})
parseTable(t, n, count, nameLength) ==
    LET base(i) == Tables[t].header + i * Tables[t].record
        nameAt(i) == base(i) + Tables[t].name
    IN  IF n < Tables[t].header THEN Fails({})
        ELSE IF n < base(count) THEN Fails({R(0, Tables[t].header)})
        ELSE Reads({R(0, Tables[t].header)}
                   \cup {R(base(i), Tables[t].record) : i \in 0..count - 1}
                   \cup {R(nameAt(i), nameLength) : i \in {j \in 0..count - 1 :
                            /\ Tables[t].name > 0 /\ nameLength > 0
                            /\ nameAt(j) + nameLength <= n}})

(* packageRegion: the part of the package information an entry points to,  *)
(* its offset counted from six bytes before the information.               *)
packageRegion(n, offset, length) ==
    LET start == offset - 6
    IN  IF start < 0 \/ length < 0 \/ start + length > n THEN Fails({})
        ELSE Reads({R(start, length)})

(* The field of a package format as a parameter: its length in bytes.      *)
sqldaLength(type, precision, length) ==
    CASE type = "decimal" -> (precision \div 2) + 1
      [] type = "numeric" -> precision
      [] type = "graphic" -> 2 * length
      [] type = "vargraphic" -> (2 * length) + 2
      [] type \in {"varchar", "varbinary"} -> length + 2
      [] OTHER -> length

-----------------------------------------------------------------------------
(* Values.                                                                 *)

(* parseSQLCAFromPayload with sqlerrmcTokens: the fields of an SQLCA of n  *)
(* bytes with message tokens of the given length.                          *)
parseSQLCA(n, tokens) ==
    LET capped == Min({tokens, 70, n - 18})
    IN  IF n = 0 THEN Reads({})
        ELSE IF n < 136 THEN Fails({})
        ELSE Reads({R(12, 4), R(100, 8), R(131, 5), R(16, 2), R(72, 16)}
                   \cup (IF tokens > 0 THEN {R(18, capped)} ELSE {}))

(* parseLobDataFromPayload: the data of a LOB section of n bytes that says *)
(* it holds length bytes; a section that holds fewer gives what it has.    *)
parseLobData(n, length) ==
    IF n < 6 THEN Reads({}) ELSE Reads({R(2, 4), R(6, Min({length, n - 6}))})

(* parseCurrentLobLengthFromPayload.                                       *)
parseCurrentLobLength(n) ==
    IF n \notin {6, 10} THEN Fails({}) ELSE Reads({R(2, n - 2)})

(* decodeColumnValueWithBidi and inlineLOBColumnData: the bytes of the row *)
(* that make the value of a column.  said is the length in the prefix of a *)
(* varying value, in characters of two bytes for the graphic types.        *)
Prefix(kind) == IF kind \in {"blob", "dbclob"} THEN 4
                ELSE IF kind \in {"varchar", "vargraphic"} THEN 2 ELSE 0
Needs(kind) == CASE kind = "bigint" -> 8 [] kind = "integer" -> 4
                 [] kind = "smallint" -> 2 [] OTHER -> 0

decodeColumnValue(row, offset, length, kind, said) ==
    LET len == IF offset + length > row THEN row - offset ELSE length
        bytes == IF kind \in {"vargraphic", "dbclob"} THEN 2 * said ELSE said
        prefix == Prefix(kind)
    IN  IF row < offset \/ len < Needs(kind) THEN Fails({})
        ELSE IF kind \in {"blob", "dbclob"}
             THEN IF len < 4 \/ bytes > len - 4 THEN Fails({})
                  ELSE Reads({R(offset, 4), R(offset + 4, bytes)})
        ELSE IF prefix = 2
             THEN IF len < 2 THEN Reads({})
                  ELSE Reads({R(offset, 2), R(offset + 2, Min({bytes, len - 2}))})
        ELSE Reads({R(offset, IF Needs(kind) > 0 THEN Needs(kind) ELSE len)})
=============================================================================
