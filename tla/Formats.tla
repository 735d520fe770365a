------------------------------- MODULE Formats -------------------------------
(***************************************************************************)
(* The pure parts of the driver, checked over bounded inputs.  Each step   *)
(* picks one input of one area; the invariants compare what the driver's   *)
(* operators make of it with an independent statement of what they should. *)
(***************************************************************************)
EXTENDS Integers, Sequences, FiniteSets, SequencesExt, FiniteSetsExt, DataSourceName

Q == INSTANCE Requests WITH NameLen <- 2, DataLen <- 3
N == INSTANCE Numbers WITH IntDigits <- 3, IntMax <- 499, MaxExponent <- 4,
                           Declets <- 1, ExpBits <- 1, Bias <- 3, QMax <- 2
B == INSTANCE Markers WITH Max16 <- 7, MaxBlockRows <- 3, MaxBlockBytes <- 8
D == INSTANCE DateTimes WITH FracDigits <- 4, NanoDigits <- 2
S == INSTANCE SQLText
P == INSTANCE Replies
C == INSTANCE TextCodec WITH
       SB <- [a |-> 129, sp |-> 64, h |-> 66],
       DB <- [K |-> <<69, 15>>, c1 |-> <<67, 14>>, lx |-> <<66, 77>>, SUB |-> <<254, 254>>],
       Multi <- (<<"c1", "c2">> :> <<68, 15>>),
       LowPlane <- {"a", "sp", "lx", "ly", "sub"}, High <- {"hi"}, Low <- {"lo"}

Seqs(set, n) == UNION {[1..k -> set] : k \in 0..n}
Flat(seqs) == FoldLeft(LAMBDA a, b : a \o b, <<>>, seqs)
Sum(f) == FoldLeft(LAMBDA a, b : a + b, 0, f)

Areas == {"request", "integer", "decimal", "decfloat", "marker", "batch", "call",
          "shape", "date", "time", "timestamp", "sql", "insert", "text", "parse", "cells",
          "names", "sections", "options"}

(* An area is chosen first, then an input of it.                           *)
Init == it \in {[kind |-> "area", area |-> a] : a \in Areas}
In(area) == it.kind = "area" /\ it.area = area

-----------------------------------------------------------------------------
(* Requests, each with whether its sender reads an answer.                 *)
Sent(s, type, x, y) ==
  {<<Q!buildCreateRPBRequest(1, s), FALSE>>,
   <<Q!buildPrepareAndDescribeRequestCCSID(1, type, s), TRUE>>,
   <<Q!buildOpenDescribePreparedRequest(1, 1, x, y, s), TRUE>>,
   <<Q!buildExecuteImmediateRequestCCSID(type, s), TRUE>>,
   <<Q!buildExecutePreparedRequest(1, 1, type, x, s), TRUE>>,
   <<Q!buildBlockExecuteRequest(1, 1, s), TRUE>>,
   <<Q!buildExecuteCallNoParamsRequest(1, s), TRUE>>,
   <<Q!buildSendResultsSetRequest(1, x), TRUE>>}
  \cup {<<Q!buildFetchRequestForStatement(1, o), TRUE>> : o \in {"next", "relative", "direct"}}

Others ==
  {<<Q!buildCloseResultSetCursorRequest(1), FALSE>>,
   <<Q!buildChangeRPBQueryTimeoutRequest(1), FALSE>>, <<Q!buildEndJobRequest, FALSE>>}
  \cup ({Q!buildChangeDescriptorRequest(1, 1), Q!buildDeleteDescriptorRequest(1, 1),
         Q!buildCloseCursorRequest, Q!buildDeleteRPBRequest(1), Q!buildWriteLOBDataRequest,
         Q!buildRetrieveLobDataRequest, Q!buildFreeLobRequest, Q!buildAddLibraryListRequest,
         Q!buildCreatePackageRequest, Q!buildReturnPackageRequest, Q!buildSetClientInfoRequest,
         Q!buildAutoCommitRequestLevel, Q!buildCancelRequest, Q!buildCommitRequest,
         Q!buildRollbackRequest, Q!buildTestConnectionRequest} \X {TRUE})

Attributes ==
  {<<Q!buildSetServerAttributesRequestVRM(g, r, v, i, l, s), TRUE>> :
     g \in BOOLEAN, r \in BOOLEAN, v \in BOOLEAN, l \in BOOLEAN, s \in BOOLEAN,
     i \in SUBSET {"ApplicationName", "ClientUser", "ClientHostname"}}

PickRequest ==
  /\ In("request")
  /\ \E r \in Others \cup Attributes
              \cup UNION {Sent(s, type, x, y) : s \in Q!PackageSpecs, x \in BOOLEAN,
                            y \in BOOLEAN, type \in {"select", "call", "other"}} :
       it' = [kind |-> "request", req |-> r[1], waits |-> r[2]]

(* Every builder counts the attributes it writes: the number in the        *)
(* request template is the number in the body, and no attribute is given   *)
(* twice.  The server reads the body by that number; a fetch that moves    *)
(* relatively replaces an attribute already written (sql.go:1775).         *)
RequestsCounted ==
  it.kind = "request" =>
    LET cps == [i \in DOMAIN it.req.body |-> it.req.body[i].cp]
    IN  /\ it.req.parms = Len(it.req.body)
        /\ IsInjective(cps)
        /\ \A i \in DOMAIN cps : cps[i] # "torn"

(* A request asks the server for a reply exactly when its sender reads     *)
(* one: an answer nobody reads is taken for the next request's answer, and *)
(* a read without an answer blocks the connection (sql.go:541, 1842).      *)
RepliesMatchSenders ==
  it.kind = "request" => (it.waits <=> Q!Reply \in it.req.flags)

-----------------------------------------------------------------------------
(* Numbers.  Digits 0, 5 and 9 reach every rounding and every carry.       *)
DigitSeqs == Seqs({0, 5, 9}, 2)
Texts == {N!Number(neg, int, frac, exp) :
            neg \in BOOLEAN, int \in DigitSeqs, frac \in DigitSeqs, exp \in -2..2}

(* The absolute value of a text in units of 10^-4.                         *)
Units(t) == N!Num(t.int \o t.frac) * 10 ^ (t.exp - Len(t.frac) + 4)

PickInteger == In("integer") /\ \E t \in Texts : it' = [kind |-> "integer", t |-> t]

PickDecimal ==
  /\ In("decimal")
  /\ \E t \in Texts, precision \in 1..3, scale \in 0..3, packed \in BOOLEAN :
       /\ scale <= precision
       /\ it' = [kind |-> "decimal", t |-> t, precision |-> precision, scale |-> scale,
                 packed |-> packed]

(* A text bound to an integer parameter arrives as exactly that number or  *)
(* is refused: never cut, rounded or wrapped (sql.go:4123, 3829).          *)
IntegersExact ==
  it.kind = "integer" =>
    LET r == N!parameterFieldDecimalFloat(it.t)
        small == N!encodeNarrow(it.t, 49)
        u == Units(it.t)
        n == (IF it.t.neg THEN -1 ELSE 1) * (u \div 10 ^ 4)
        fits(max) == u % 10 ^ 4 = 0 /\ n <= max /\ n >= -max - 1
    IN  /\ r.ok <=> fits(499)
        /\ r.ok => r.n = n
        /\ small.ok <=> fits(49)
        /\ small.ok => small.bits = n % 100

(* A decimal parameter keeps the value it is given, cut to the scale of    *)
(* the column, or is refused when it does not fit the precision; reading   *)
(* the column back gives that value, for packed and zoned (sql.go:3889).   *)
DecimalRoundTrip ==
  it.kind = "decimal" =>
    LET e == N!encodePackedOrZonedDecimalParameter(it.t, it.precision, it.scale, it.packed)
        cut == Units(it.t) \div 10 ^ (4 - it.scale)
        back == IF it.packed THEN N!decodePackedDecimalString(e.raw, it.precision, it.scale)
                ELSE N!decodeZonedDecimalString(e.raw, it.precision, it.scale)
    IN  /\ e.ok <=> cut < 10 ^ it.precision
        /\ e.ok => /\ back.ok
                   /\ N!Num(back.int \o back.frac) = cut
                   /\ Len(back.frac) = it.scale
                   /\ back.neg <=> (it.t.neg /\ cut > 0)

PickDecfloat ==
  /\ In("decfloat")
  /\ \/ \E v \in 0..999 : it' = [kind |-> "decfloat", t |-> N!Number(TRUE, N!Digits(v), <<>>, 0)]
     \/ \E neg \in BOOLEAN, ds \in Seqs({0, 1, 5, 9}, 5), frac \in 0..2, exp \in -4..4 :
          /\ ds # <<>> /\ frac <= Len(ds)
          /\ it' = [kind |-> "decfloat",
                    t |-> N!Number(neg, SubSeq(ds, 1, Len(ds) - frac),
                                   SubSeq(ds, Len(ds) - frac + 1, Len(ds)), exp)]

(* The coefficient of c * 10^x at exponent e, rounded half to even.        *)
AtExponent(c, x, e) ==
  IF e <= x THEN c * 10 ^ (x - e)
  ELSE LET p == 10 ^ (e - x)
           near == {q \in {c \div p, (c \div p) + 1} : 2 * q * p - 2 * c \in -p..p}
       IN  IF Cardinality(near) = 1 THEN CHOOSE q \in near : TRUE
           ELSE CHOOSE q \in near : q % 2 = 0

(* A DECFLOAT parameter arrives as the nearest value the type holds, ties  *)
(* to even, and is refused only when that is too large; the text of a      *)
(* column stands for the value of the column (decfloat_encode.go:60).  A   *)
(* value cut to the precision and then again below the smallest exponent   *)
(* is rounded twice and is left out.                                       *)
DecfloatNearest ==
  it.kind = "decfloat" =>
    LET v == N!parseDecfloatText(it.t)
        w == N!encodeDecfloatFinite(v)
        d == N!decodeDecfloat(w)
        back == N!parseDecfloatText(N!formatDecfloatStr(d))
        twice == /\ N!Len10(v.coef) > 4
                 /\ v.exp + N!Len10(v.coef) - 4 < -3
    IN  /\ w.ok <=> (v.coef = 0 \/ AtExponent(v.coef, v.exp, 2) <= 9999)
        /\ w.ok => /\ d.ok /\ d.neg = it.t.neg
                   /\ ~twice => d.coef = AtExponent(v.coef, v.exp, d.exp)
                   /\ back.coef * 10 ^ (3 + back.exp) = d.coef * 10 ^ (3 + d.exp)

-----------------------------------------------------------------------------
(* Parameter markers.                                                      *)
PickMarker ==
  /\ In("marker")
  /\ \E original \in BOOLEAN, lens \in Seqs({0, 1, 3, 5, 8}, 4) :
       lens # <<>> /\ it' = [kind |-> "marker", original |-> original, lens |-> lens]

PickBatch ==
  /\ In("batch")
  /\ \E rows \in Seqs({<<1, 1>>, <<1, 2>>, <<5, 5>>}, 5) :
       rows # <<>> /\ it' = [kind |-> "batch", rows |-> rows]

FieldOf(type, mode) ==
  [type |-> type, length |-> 0, precision |-> 0, binary |-> FALSE, mode |-> mode,
   locator |-> 0, lobMax |-> 0]

PickCall ==
  /\ In("call")
  /\ \E ps \in Seqs({"integer", "smallint"} \X B!Modes \X {"value", "out"}, 3), all \in BOOLEAN,
        short \in 0..1 :
       LET b == [i \in DOMAIN ps |-> B!Binding(FieldOf(ps[i][1], ps[i][2]), ps[i][3], 0)]
       IN  /\ \A i \in DOMAIN b : b[i].ok
           /\ it' = [kind |-> "call", b |-> b, all |-> all, short |-> short]

PickShape ==
  /\ In("shape")
  /\ \E type \in B!Types \ {"blob", "clob", "dbclob", "xml", "varchar", "varbinary", "vargraphic"},
        precision \in {1, 2, 3, 16, 34}, sized \in BOOLEAN, binary \in BOOLEAN, size \in 0..4 :
       LET f == [FieldOf(type, "in") EXCEPT !.precision = precision, !.binary = binary]
           text == type \in {"char", "graphic", "binary", "timestamp"}
           own == IF text THEN 3 ELSE B!Binding(f, "value", size).len
       IN  /\ text => sized
           /\ type = "decfloat" <=> precision \in {16, 34}
           /\ it' = [kind |-> "shape", size |-> size,
                     f |-> [f EXCEPT !.length = IF sized THEN own ELSE 0]]

(* The descriptor and the data of an execute agree: both use the same      *)
(* layout, and every count and length in the descriptor is the one in the  *)
(* data, not what is left of it in sixteen bits (sql.go:4328, 4395).       *)
DescriptorDescribesData ==
  it.kind = "marker" =>
    LET f == B!buildParameterMarkerFormatPayload(it.original, it.lens)
        d == B!buildBlockParameterMarkerData(it.original, <<it.lens>>)
    IN  /\ f.ext = d.ext
        /\ f.count = Len(it.lens) /\ d.columns = Len(it.lens)
        /\ f.rowSize = Sum(it.lens) /\ d.rowSize = Sum(it.lens)
        /\ f.lens = it.lens

(* The rows of a batch are cut into blocks that follow each other without  *)
(* gap or overlap; the rows of a block have one shape and keep the limits  *)
(* on rows and bytes, a single row excepted; and the indicators and cells  *)
(* of a block fill its data exactly (batch.go:188, 216, 320).              *)
BlocksCoverRows ==
  it.kind = "batch" =>
    LET starts == B!execBatchBlocks(it.rows)
        end(k) == IF k = Len(starts) THEN Len(it.rows) + 1 ELSE starts[k + 1]
        block(k) == SubSeq(it.rows, starts[k], end(k) - 1)
    IN  /\ starts[1] = 1
        /\ \A k \in DOMAIN starts :
             LET rows == block(k)
                 d == B!buildBlockParameterMarkerData(TRUE, rows)
                 cells == {<<d.cell[r][c], rows[r][c]>> : r \in DOMAIN rows, c \in 1..2}
                          \cup {<<d.null[r][c], 2>> : r \in DOMAIN rows, c \in 1..2}
             IN  /\ rows # <<>> /\ d.ok
                 /\ Len(rows) <= 3
                 /\ Len(rows) > 1 => Sum([r \in DOMAIN rows |-> Sum(rows[r])]) <= 8
                 /\ (IF d.ext THEN 20 ELSE 14) + Sum([c \in 1..2 |-> 2 * Len(rows)])
                      + Sum([r \in DOMAIN rows |-> Sum(rows[r])]) = d.size
                 /\ \A x, y \in cells :
                      x = y \/ x[1] + x[2] <= y[1] \/ y[1] + y[2] <= x[1]

(* The output parameters of a CALL are read from the columns the server    *)
(* puts them in, parameters nobody asked for included, and a row too short *)
(* for them is refused (sql.go:3568).                                      *)
OutputsReadInPlace ==
  it.kind = "call" =>
    LET outs == SelectSeq([i \in DOMAIN it.b |-> i],
                          LAMBDA i : it.b[i].field.mode # "in")
        cols == IF it.all /\ Len(outs) < Len(it.b) THEN [i \in DOMAIN it.b |-> i] ELSE outs
        width(i) == IF it.b[i].field.type = "integer" THEN 4 ELSE 2
        size == Sum([k \in DOMAIN cols |-> width(cols[k])])
        r == B!assignCallOutputParameters(it.b, Len(cols), size - it.short)
        wanted == {i \in DOMAIN it.b : it.b[i].out}
        at(i) == Sum([k \in 1..(SelectInSeq(cols, LAMBDA j : j = i) - 1) |-> width(cols[k])])
    IN  IF wanted = {} THEN r = [ok |-> TRUE, reads |-> {}]
        ELSE /\ r.ok <=> it.short = 0
             /\ r.ok => r.reads = {[param |-> i, at |-> at(i)] : i \in wanted}

(* NULL takes the same room as a value in every field of fixed size, so a  *)
(* batch with NULLs keeps its shape and its cells their place              *)
(* (sql.go:3463, batch.go:235).                                            *)
NullKeepsShape ==
  it.kind = "shape" =>
    LET null == B!Binding(it.f, "null", 0)
        value == B!Binding(it.f, "value", it.size)
    IN  null.ok /\ (value.ok => value.len = null.len)

-----------------------------------------------------------------------------
(* Dates and times.                                                        *)
PickDate ==
  /\ In("date")
  /\ \E y \in {1899, 1939, 1940, 1999, 2000, 2004, 2039, 2040}, m \in 1..12,
        d \in {1, 9, 28, 29, 30, 31}, format \in D!DateFormats :
       D!IsDate(y, m, d) /\ it' = [kind |-> "date", date |-> <<y, m, d>>, format |-> format]

PickTime ==
  /\ In("time")
  /\ \E h \in 0..23, m \in {0, 9, 59}, s \in {0, 9, 59}, format \in D!TimeFormats :
       it' = [kind |-> "time", time |-> <<h, m, s>>, format |-> format]

PickTimestamp ==
  /\ In("timestamp")
  /\ \E date \in {<<1, 1, 1>>, <<2000, 2, 29>>, <<9999, 12, 31>>}, h \in {0, 12, 23},
        picos \in {0, 1, 9, 50, 99, 100, 909, 1000, 9900, 9999}, digits \in 0..4 :
       it' = [kind |-> "timestamp", digits |-> digits,
              ts |-> [date |-> date, time |-> <<h, 59, 9>>, nanos |-> picos \div 100,
                      picos |-> picos]]

(* A date written in a format is read back from it; the formats with two   *)
(* digits for the year do so from 1940 to 2039 (datetime_format.go:129).   *)
DateRoundTrip ==
  it.kind = "date" =>
    LET r == D!parseDate(D!formatDate(it.date, it.format), it.format)
        short == it.format \in {"julian", "mdy", "dmy", "ymd"}
    IN  r.ok /\ (~short \/ it.date[1] \in 1940..2039 => r.v = it.date)

(* A time written in a format is read back from it; the USA format has no  *)
(* seconds (datetime_format.go:152).                                       *)
TimeRoundTrip ==
  it.kind = "time" =>
    LET r == D!parseTimeFields(D!formatTime(it.time, it.format), it.format)
    IN  r.ok /\ r.v = (IF it.format = "usa" THEN [it.time EXCEPT ![3] = 0] ELSE it.time)

(* A timestamp bound to a column with fewer fractional digits loses only   *)
(* those digits, and both readers of timestamps give the same instant      *)
(* (timestamp.go:107, 123, sql.go:3927, 4217).                             *)
TimestampRoundTrip ==
  it.kind = "timestamp" =>
    LET text == D!timestampText(it.ts).v
        column == D!encodeTimestampParameter(text, IF it.digits = 0 THEN 19 ELSE 20 + it.digits)
        full == D!parseTimestampText(column)
        nano == D!parseIBMiTimestamp(column)
        kept == (it.ts.picos \div 10 ^ (4 - it.digits)) * 10 ^ (4 - it.digits)
    IN  /\ full.ok /\ nano.ok
        /\ full.v = [it.ts EXCEPT !.picos = kept, !.nanos = kept \div 100]
        /\ nano.v = [date |-> it.ts.date, time |-> it.ts.time, nanos |-> kept \div 100]

-----------------------------------------------------------------------------
(* SQL text, put together from pieces whose meaning is known: markers,     *)
(* casts, literals and comments full of what would be markers elsewhere.   *)
Pieces ==
  {[text |-> <<"?">>, mark |-> <<"?">>, name |-> <<>>],
   [text |-> <<":", "a", "1">>, mark |-> <<"?">>, name |-> <<<<"a", "1">>>>],
   [text |-> <<":", "a">>, mark |-> <<"?">>, name |-> <<<<"a">>>>]}
  \cup {[text |-> t, mark |-> t, name |-> <<>>] : t \in
         {<<":", ":", "a">>, <<"-", "1">>, <<"/", "a">>, <<":", "1">>,
          <<"'", "?", "'", "'", ":", "a", "'">>, <<"'", "'">>,
          <<"dq", "?", "'", "-", "-", "dq">>,
          <<"-", "-", "?", "'", "/", "*", "nl">>,
          <<"/", "*", "'", "?", "-", "-", "*", "/">>}}

PickSQL ==
  /\ In("sql")
  /\ \E ps \in Seqs(Pieces, 3) : it' = [kind |-> "sql", ps |-> ps]

Spaced(p) == Append(p, "sp")
SQLOf(ps) == Flat([i \in DOMAIN ps |-> Spaced(ps[i].text)])
MarksOf(ps) == Len(SelectSeq(ps, LAMBDA p : p.mark = <<"?">>))

(* Counting and rewriting see exactly the markers outside of literals and  *)
(* comments: a name becomes one marker, its value is sent at the marker's  *)
(* place, and everything else is left as it is (stmt.go:351, 480).         *)
MarkersFound ==
  it.kind = "sql" =>
    LET q == SQLOf(it.ps)
        r == S!rewriteNamedParams(q)
        names == Flat([i \in DOMAIN it.ps |-> it.ps[i].name])
    IN  /\ S!countSQLPlaceholders(q) = MarksOf(it.ps)
        /\ r.ok
        /\ r.names = names
        /\ r.text = Flat([i \in DOMAIN it.ps |-> Spaced(it.ps[i].mark)])

(* The tokenizer that decides whether a statement goes into the package    *)
(* finds the same markers in the rewritten text as the statement was       *)
(* prepared with (package.go:254).                                         *)
PackagingAgrees ==
  it.kind = "sql" =>
    S!packageTokens(S!rewriteNamedParams(SQLOf(it.ps)).text) = MarksOf(it.ps)

PickInsert ==
  /\ In("insert")
  /\ \E head \in {<<>>, <<"nl">>, <<"-", "-", "a", "nl">>, <<"/", "*", "-", "-", "*", "/">>},
        ps \in Seqs({<<"a">>, <<";">>, <<"nl">>, <<"sp">>, <<"-", "-">>, <<"'", ";", "'">>,
                     <<"/", "*", ";", "*", "/">>, <<"-">>}, 4) :
       it' = [kind |-> "insert", q |-> head \o <<"INSERT", "sp">> \o Flat(ps)]

(* The parenthesis that closes a wrapped INSERT is read as one, even after *)
(* a line comment without an end: the server sees the statement the        *)
(* application wrote and nothing of the wrapper in it                      *)
(* (generatedkeys.go:74).                                                  *)
WrappedInsertCloses ==
  it.kind = "insert" =>
    LET w == S!wrapInsertForGeneratedKeys(it.q)
    IN  /\ S!isInsertStatement(it.q) /\ w.ok
        /\ Last(w.text) = ")"
        /\ S!Scan(it.q).state \notin S!Unterminated => S!Scan(Front(w.text)).state = "normal"

-----------------------------------------------------------------------------
(* Character conversion.  hi and lo only occur as a pair, as in the UTF-16 *)
(* form of a Go string.                                                    *)
PickText ==
  /\ In("text")
  /\ \E cs \in Seqs({<<"a">>, <<"K">>, <<"c1">>, <<"c2">>, <<"hi", "lo">>, <<"x">>, <<"lx">>,
                     <<"ly">>, <<"h">>, <<"SUB">>, <<"sub">>}, 4), blanks \in 0..1 :
       it' = [kind |-> "text", cs |-> cs, blanks |-> blanks]

Substitutes == {"sub", "SUB"}
Representable(cs, i) ==
  \/ cs[i][1] \in {"a", "K", "c1", "lx", "h", "SUB", "sub"}
  \/ cs[i][1] = "c2" /\ i > 1 /\ cs[i - 1][1] = "c1"

(* Text converted to a mixed CCSID and back is the same text, with one     *)
(* substitution character for each character neither table has, wherever   *)
(* in a run of single or double bytes it stands (ccsid.go:305, 346, 373).  *)
MixedRoundTrip ==
  it.kind = "text" =>
    LET back == C!DecodeMixed(C!EncodeMixed(Flat(it.cs)))
    IN  /\ Len(back) = Len(it.cs)
        /\ \A i \in DOMAIN it.cs :
             IF Representable(it.cs, i) THEN back[i] = it.cs[i][1] ELSE back[i] \in Substitutes

(* A fixed-length field padded with the blanks of its CCSID reads as the   *)
(* text and blanks: the padding never continues a run of double bytes      *)
(* (sql.go:4052).                                                          *)
PaddingIsBlank ==
  it.kind = "text" =>
    LET raw == C!EncodeMixed(Flat(it.cs))
        fit == C!fitTextBytesToLength(raw, Len(raw) + it.blanks, <<64>>)
        double == C!EncodeDouble(Flat(it.cs))
        wide == C!fitTextBytesToLength(double, Len(double) + it.blanks, <<69, 15>>)
    IN  /\ C!DecodeMixed(fit) = C!DecodeMixed(raw) \o [i \in 1..it.blanks |-> "sp"]
        /\ C!DecodeDouble(wide) = C!DecodeDouble(double)

-----------------------------------------------------------------------------
(* Replies.                                                                *)
Near(n) == {k \in (n - 1)..(n + 1) : k >= 0}
Kinds == {"bigint", "integer", "smallint", "char", "varchar", "vargraphic", "blob", "dbclob"}

PickParse ==
  /\ In("parse")
  /\ \/ \E t \in DOMAIN P!Tables, count \in 0..2, name \in {0, 1, 20, 60} :
          \E n \in Near(P!Tables[t].header) \cup Near(P!Tables[t].header + count * P!Tables[t].record) :
            it' = [kind |-> "parse", n |-> n, res |-> P!parseTable(t, n, count, name)]
     \/ \E row \in 0..10, offset \in 0..10, length \in {0, 1, 3, 4, 8, 10}, k \in Kinds,
           said \in {0, 1, 3, 9} :
          it' = [kind |-> "parse", n |-> row,
                 res |-> P!decodeColumnValue(row, offset, length, k, said)]
     \/ \E n \in {0, 135, 136, 140}, tokens \in {0, 1, 70, 200} :
          it' = [kind |-> "parse", n |-> n, res |-> P!parseSQLCA(n, tokens)]
     \/ \E n \in 0..12, x \in 0..8, y \in -1..8 :
          \E res \in {P!packageRegion(n, x, y), P!parseLobData(n, x), P!parseCurrentLobLength(n)} :
            it' = [kind |-> "parse", n |-> n, res |-> res]
     \/ \E n \in 18..42, id \in {"2800", "other"} :
          \E res \in {P!ParseHeader(n), P!readReplyEnvelope(n, id), P!readSimpleReply(n)} :
            it' = [kind |-> "parse", n |-> n, res |-> res]

(* No parser reads past the end of the reply it was given: a reply that is *)
(* shorter than its own counts and lengths say is an error or is cut,      *)
(* never a panic of the driver (sql.go:2415, 2504, 2621, wire.go:81).      *)
ReadsStayInside ==
  it.kind = "parse" =>
    \A r \in it.res.reads : r.at >= 0 /\ r.len >= 0 /\ r.at + r.len <= it.n

PickCells ==
  /\ In("cells")
  /\ \E lengths \in Seqs({1, 2, 4}, 3), more \in -1..1, given \in BOOLEAN, rows \in 0..2,
        ind \in {0, 2}, original \in BOOLEAN, cut \in -1..1 :
       /\ lengths # <<>>
       /\ it' = [kind |-> "cells", lengths |-> lengths, rows |-> rows, ind |-> ind,
                 original |-> original, cut |-> cut,
                 size |-> IF given THEN Sum(lengths) + more ELSE 0]

(* Each column of each row of a block is read from the bytes the server    *)
(* put it in: after all indicators, in its row, after the columns before   *)
(* it; a column the row has no room for is cut at the end of its row and   *)
(* never reaches into the next, and a block that is cut off is an error    *)
(* (sql.go:2131, 2381, 2621).                                              *)
CellsInPlace ==
  it.kind = "cells" =>
    LET cols == Len(it.lengths)
        meta == P!parseSuperExtendedDataFormat(16 + 48 * cols, it.size, it.lengths,
                                               [i \in 1..cols |-> 0], <<>>)
        start == (IF it.original THEN 14 ELSE 20) + it.rows * cols * it.ind
        n == start + it.rows * meta.rowSize - it.cut
        block == P!parseResultDataBlock(n, it.original,
                   [rows |-> it.rows, cols |-> cols, ind |-> it.ind, size |-> meta.rowSize])
    IN  /\ ~meta.err
        /\ block.err <=> it.cut > 0
        /\ ~block.err =>
             \A r \in 1..it.rows, c \in 1..cols :
               LET row == block.rowData[r]
                   value == P!decodeColumnValue(row.len, meta.offsets[c], it.lengths[c], "char", 0)
                   from == start + (r - 1) * meta.rowSize
               IN  /\ row = P!R(from, meta.rowSize)
                   /\ meta.offsets[c] = Sum(SubSeq(it.lengths, 1, c - 1))
                   /\ \A v \in value.reads : v.at + v.len <= meta.rowSize
                   /\ meta.rowSize >= Sum(it.lengths) =>
                        value.reads = {P!R(meta.offsets[c], it.lengths[c])}

PickNames ==
  /\ In("names")
  /\ \E cols \in Seqs([items : Seqs({[ll |-> 8, cp |-> "name"], [ll |-> 11, cp |-> "label"]}, 2),
                       pad : {0, 3}], 3), cut \in 0..1, gap \in {0, 2} :
       cols # <<>> /\ it' = [kind |-> "names", cols |-> cols, cut |-> cut, gap |-> gap]

(* The names and labels in a reply go to the columns they were sent for,   *)
(* with any padding between them, and a reply that ends early is an error  *)
(* and not a shifted name (sql.go:2007, 2131).                             *)
NamesToColumns ==
  it.kind = "names" =>
    LET k == Len(it.cols)
        items(i) == it.cols[i].items
        len(i) == Sum([j \in DOMAIN items(i) |-> items(i)[j].ll]) + it.cols[i].pad
        all == Flat([i \in 1..k |-> items(i)])
        lens == [i \in 1..k |-> len(i)]
        super == P!parseSuperExtendedDataFormat(16 + 48 * k + Sum(lens) - it.cut, 0,
                   [i \in 1..k |-> 1], lens, all)
        at(i) == 10 + 16 * k + it.gap * i + Sum(SubSeq(lens, 1, i - 1))
        ext == P!parseExtendedColumnDescriptors(at(k) + len(k) - it.cut,
                   [i \in 1..k |-> [offset |-> 6 + at(i), length |-> len(i)]], all)
        want == [i \in 1..k |-> items(i)]
    IN  /\ super.err <=> it.cut > 0
        /\ ~super.err => super.got = want
        /\ ext.err <=> it.cut > 0
        /\ ~ext.err => ext.got = want

PickSections ==
  /\ In("sections")
  /\ \E heads \in Seqs([ll : {5, 6, 7, 9}, cp : {"A", "B"}], 3), less \in 0..7 :
       /\ Sum([i \in DOMAIN heads |-> heads[i].ll]) >= less
       /\ it' = [kind |-> "sections", heads |-> heads, less |-> less]

(* The section of a reply is found at the place the server put it, the     *)
(* first when there are several, and a broken section before it is an      *)
(* error and never skipped (wire.go ParseLLCP, sql.go:2304).               *)
SectionFound ==
  it.kind = "sections" =>
    LET end(i) == Sum([k \in 1..i |-> it.heads[k].ll])
        n == end(Len(it.heads)) - it.less
        r == P!FindSection(n, it.heads, "A")
        whole(i) == it.heads[i].ll >= 6 /\ end(i) <= n
        first == {i \in DOMAIN it.heads : it.heads[i].cp = "A" /\ \A k \in 1..i : whole(k)}
        broken == {i \in DOMAIN it.heads : end(i - 1) < n /\ ~whole(i)}
    IN  IF first # {} /\ \A i \in broken : Min(first) < i
        THEN ~r.err /\ r.found = {P!R(end(Min(first) - 1) + 6, it.heads[Min(first)].ll - 6)}
        ELSE r.found = {} /\ (r.err <=> broken # {})

-----------------------------------------------------------------------------
(* Options: one or two entries of a query for the same setting, or for two *)
(* settings that are used together.                                        *)
Values == [form : {"number"}, n : {-1, 0, 4, 31, 32, 63, 64, 600, 65536, 20000000}]
          \cup [form : {"name"}, n : {0, 1}]
          \cup [form : {"text"}, n : {255, 256}] \cup {O!Blank}
Partners == [decimalMaxScale |-> "decimalMaxPrecision", portNumber |-> "port",
             urlPort |-> "portNumber", timeout |-> "connectTimeout", secure |-> "tls",
             commitControl |-> "commitmentControl"]
Fits(key, v) == /\ v.form = "text" => key \in O!ClientInfoKeys
                /\ key \in O!ClientInfoKeys => v.form \in {"text", "blank"}
Entries(key) == {[key |-> key, exact |-> x, value |-> v] :
                   x \in BOOLEAN, v \in {w \in Values : Fits(key, w)}}
Seconds == {O!Blank, [form |-> "number", n |-> 63], [form |-> "number", n |-> 65536],
            [form |-> "name", n |-> 1], [form |-> "text", n |-> 256]}

PickOptions ==
  /\ In("options")
  /\ \E key \in O!Keys :
       \E e \in Entries(key),
          f \in Entries(IF key \in DOMAIN Partners THEN Partners[key] ELSE key) :
         /\ f = e \/ (f.value \in Seconds /\ (e.key = f.key => e.exact /\ ~f.exact))
         /\ it' = [kind |-> "options", query |-> {e, f}]

-----------------------------------------------------------------------------
(* What the driver sends, the server can read: a builder announces the     *)
(* attributes it writes, and an answer is asked for exactly when somebody  *)
(* reads it (sql.go:1775, 541, 1842).                                      *)
RequestsReadable == RequestsCounted /\ RepliesMatchSenders

(* A number bound to a parameter arrives as itself, cut or rounded as its  *)
(* column says, or is refused, and is read back as what is stored: never   *)
(* wrapped, and no high digit lost (sql.go:3889, 4123,                     *)
(* decfloat_encode.go:60).                                                 *)
NumbersKept == IntegersExact /\ DecimalRoundTrip /\ DecfloatNearest

(* A date, time or timestamp is read back as it was written, to the digits *)
(* its format or column has (datetime_format.go:129, timestamp.go:107).    *)
DateTimesKept == DateRoundTrip /\ TimeRoundTrip /\ TimestampRoundTrip

(* The parameters of an execute lie where the descriptor says, row by row  *)
(* and block by block, NULL or not (sql.go:4328, batch.go:216).            *)
ParametersInPlace == DescriptorDescribesData /\ BlocksCoverRows /\ NullKeepsShape

(* The driver's scanners read SQL as the server does: literals, comments   *)
(* and casts are left alone, names become markers, both counts of markers  *)
(* agree, and a wrapped INSERT stays itself (stmt.go:351, 480,             *)
(* package.go:254, generatedkeys.go:74).                                   *)
StatementTextKept == MarkersFound /\ PackagingAgrees /\ WrappedInsertCloses

(* Text in a mixed CCSID is read back as written, padded or not            *)
(* (ccsid.go:305, sql.go:4052).                                            *)
TextKept == MixedRoundTrip /\ PaddingIsBlank

(* Values, names, sections and output parameters are read from where the   *)
(* server put them, and a reply that is too short is an error or is cut,   *)
(* never read past its end (sql.go:2131, 2304, 2381, 3568).                *)
RepliesInPlace ==
  CellsInPlace /\ NamesToColumns /\ SectionFound /\ OutputsReadInPlace /\ ReadsStayInside

-----------------------------------------------------------------------------
Next ==
  \/ PickRequest \/ PickInteger \/ PickDecimal \/ PickDecfloat
  \/ PickMarker \/ PickBatch \/ PickCall \/ PickShape
  \/ PickDate \/ PickTime \/ PickTimestamp \/ PickSQL \/ PickInsert \/ PickText
  \/ PickParse \/ PickCells \/ PickNames \/ PickSections \/ PickOptions

Spec == Init /\ [][Next]_it
=============================================================================
