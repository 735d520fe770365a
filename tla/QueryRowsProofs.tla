-------------------------- MODULE QueryRowsProofs --------------------------
(***************************************************************************)
(* What QueryRows keeps, proved for result sets of any number and size and *)
(* for blocks of any size, and that it implements RowStream.               *)
(*                                                                         *)
(* The inductive invariant ties the reader's position to the server's: as  *)
(* long as rows are due, the undelivered rest of the block ends where the  *)
(* server's cursor is, so the next fetch continues after the last row of   *)
(* the block, and after an end mark that is on the last row.               *)
(***************************************************************************)
EXTENDS QueryRows, SequenceTheorems, TLAPS

(* The result set that is read exists. *)
SetInv == set <= Len(sizes)

(* The driver's view of the cursor; a scrolling cursor is never closed by  *)
(* the server.                                                             *)
CursorInv ==
  /\ ~closed => (serverClosed <=> cursor = "closed")
  /\ scrollable => ~serverClosed

(* Reader, block and cursor, while Next has rows to look for. *)
PositionInv ==
  ~done /\ ~closed =>
    /\ delivered <= Rows
    /\ block # NoBlock => /\ block.lo = delivered + 1
                          /\ block.lo <= block.hi
                          /\ block.hi = cursorRow
                          /\ block.hi <= Rows
    /\ block = NoBlock => cursorRow = delivered
    /\ (endOfData \/ serverClosed) /\ ~stale => cursorRow = Rows

IInv ==
  TypeOK /\ SetInv /\ CursorInv /\ NothingLeftOpen /\ PositionInv /\ RowIsDelivered

-----------------------------------------------------------------------------
(* One to MaxSets result sets.                                             *)
LEMMA SizesType ==
  ASSUME NEW s \in Sizes
  PROVE  Len(s) \in 1..MaxSets /\ \A i \in 1..Len(s) : s[i] \in NoColumns..MaxRows
<1>1. PICK m \in 1..MaxSets : s \in [1..m -> NoColumns..MaxRows]
  BY DEF Sizes
<1>2. s \in Seq(NoColumns..MaxRows)
  <2>1. m \in Nat
    BY <1>1, RowsAssumption
  <2> QED BY <1>1, <2>1, SeqDef
<1>3. Len(s) = m
  BY <1>1, <1>2
<1> QED BY <1>1, <1>3

(* The current result set is one of the statement's.                       *)
LEMMA RowsType ==
  ASSUME TypeOK, SetInv
  PROVE  /\ Rows \in NoColumns..MaxRows
         /\ Len(sizes) \in 1..MaxSets
         /\ \A i \in 1..Len(sizes) : sizes[i] \in NoColumns..MaxRows
<1>1. Len(sizes) \in 1..MaxSets /\ \A i \in 1..Len(sizes) : sizes[i] \in NoColumns..MaxRows
  BY SizesType DEF TypeOK
<1>2. set \in 1..Len(sizes)
  BY <1>1 DEF TypeOK, SetInv
<1> QED BY <1>1, <1>2 DEF Rows

(* The replies to a fetch at row p: rows from p on, of which a mark says   *)
(* that they are the last, or none when p is not a row.                    *)
LEMMA Replies ==
  ASSUME Rows \in NoColumns..MaxRows, NEW p \in Int, NEW b \in FetchReplies(p)
  PROVE  /\ b.mark \in {"none", "700", "701"}
         /\ scrollable => b.mark # "700"
         /\ Empty(b) => b.lo = 1 /\ b.hi = 0 /\ (p < 1 \/ p > Rows)
         /\ ~Empty(b) => /\ b.lo = p /\ b.hi \in p..Rows /\ p >= 1
                         /\ b.mark # "none" => b.hi = Rows
<1> DEFINE marks == IF scrollable THEN {"none", "701"} ELSE {"none", "700", "701"}
           hits  == {h \in p..(p + MaxBlock - 1) : p > 0 /\ h <= Rows}
<1>1. marks \subseteq {"none", "700", "701"} /\ (scrollable => "700" \notin marks) /\ "none" \in marks
  OBVIOUS
<1>2. CASE hits = {}
  <2>1. PICK m \in marks : b = [lo |-> 1, hi |-> 0, mark |-> m]
    BY <1>2 DEF FetchReplies
  <2>2. p < 1 \/ p > Rows
    <3>1. p \in p..(p + MaxBlock - 1)
      BY RowsAssumption
    <3> QED BY <1>2, <3>1 DEF NoColumns
  <2> QED BY <1>1, <2>1, <2>2 DEF Empty
<1>3. CASE hits # {}
  <2>1. PICK h \in hits : b \in {[lo |-> p, hi |-> h, mark |-> m] :
                                    m \in IF h = Rows THEN marks ELSE {"none"}}
    BY <1>3 DEF FetchReplies
  <2>2. PICK m \in marks : b = [lo |-> p, hi |-> h, mark |-> m] /\ (m # "none" => h = Rows)
    BY <1>1, <2>1
  <2>3. h \in p..Rows /\ p >= 1
    BY RowsAssumption DEF NoColumns
  <2> QED BY <1>1, <2>2, <2>3 DEF Empty, NoColumns
<1> QED BY <1>2, <1>3

(* The row a scroll asks for.                                              *)
LEMMA TargetType ==
  ASSUME TypeOK, SetInv, NEW option \in Options, NEW k \in Arguments(option)
  PROVE  k \in Int /\ Target(option, k) \in Int
<1>1. k \in Int
  BY RowsAssumption DEF Arguments, Options, Absolute, RowBound
<1>2. Rows \in Int /\ cursorRow \in Int
  BY RowsType, RowsAssumption DEF TypeOK, NoColumns
<1> QED BY <1>1, <1>2 DEF Target, Options, Absolute

-----------------------------------------------------------------------------
(* A block of the reply, and what is left of it after the first row.       *)
LEMMA BlockType ==
  /\ \A l, h \in 1..MaxRows : l <= h => [lo |-> l, hi |-> h] \in Blocks
  /\ [lo |-> 1, hi |-> 0] \in Blocks
  /\ NoBlock \notin Blocks
<1>1. NoBlock \notin Blocks
  <2>1. \A b \in Blocks : DOMAIN b = {"lo", "hi"}
    BY DEF Blocks
  <2>2. DOMAIN NoBlock = {}
    BY DEF NoBlock
  <2> QED BY <2>1, <2>2
<1> QED BY <1>1 DEF Blocks

Flags ==
  {scrollable, done, closed, serverClosed, endOfData, held, exact, stale, failed,
   abandoned} \subseteq BOOLEAN

LEMMA FlagsStep ==
  ASSUME TypeOK, [Next]_vars
  PROVE  Flags'
<1>0. Flags
  BY Zenon DEF TypeOK, Flags
<1> USE <1>0 DEF Flags
<1>1. ASSUME NextFromBlock PROVE Flags'
  BY <1>1 DEF NextFromBlock, Consume, CloseRows
<1>2. ASSUME NextFetch PROVE Flags'
  BY <1>2 DEF NextFetch, Consume, EndOfResultSet, CloseRows
<1>3. ASSUME NextExhausted PROVE Flags'
  BY <1>3 DEF NextExhausted, EndOfResultSet, CloseRows
<1>4. ASSUME NextFetchError \/ ScrollError PROVE Flags'
  BY <1>4 DEF NextFetchError, ScrollError, FetchError, position
<1>5. ASSUME NEW option, NEW k, Scroll(option, k) PROVE Flags'
  BY <1>5 DEF Scroll, Empty
<1>6. ASSUME NextResultSet PROVE Flags'
  BY <1>6 DEF NextResultSet
<1>7. ASSUME NextResultSetError \/ Close PROVE Flags'
  BY <1>7 DEF NextResultSetError, Close, CloseRows, position
<1>8. ASSUME UNCHANGED vars PROVE Flags'
  BY <1>8 DEF vars, rowVars, position
<1> QED BY <1>1, <1>2, <1>3, <1>4, <1>5, <1>6, <1>7, <1>8 DEF Next, NextRow, Finished

-----------------------------------------------------------------------------
(* The invariant without the flags, which FlagsStep has. *)
Ranges ==
  /\ sizes \in Sizes
  /\ set \in 1..MaxSets
  /\ block \in Blocks \cup {NoBlock}
  /\ currentRow \in Int
  /\ cursor \in {"open", "closed"}
  /\ cursorRow \in 0..(MaxRows + 1)
  /\ delivered \in 0..MaxRows

Core == Ranges /\ SetInv /\ CursorInv /\ NothingLeftOpen /\ PositionInv /\ RowIsDelivered

(* Next consumes block b, at hand or just fetched, whose last row the      *)
(* cursor is on: the row after the last one delivered.                     *)
LEMMA ConsumeStep ==
  ASSUME IInv, ~closed, ~done,
         UNCHANGED <<scrollable, sizes, set, done, exact, stale, abandoned>>,
         NEW b, b.lo = delivered + 1, b.hi \in b.lo..Rows, cursorRow' = b.hi,
         NEW isClosed \in BOOLEAN, serverClosed' = isClosed, scrollable => ~isClosed,
         NEW cur \in {"open", "closed"}, isClosed <=> cur = "closed",
         (endOfData' \/ isClosed) /\ ~stale => b.hi = Rows,
         Consume(b, isClosed, cur)
  PROVE  Core'
<1>0. Rows' = Rows /\ Rows \in NoColumns..MaxRows
  BY RowsType DEF IInv, Rows
<1>1. /\ delivered \in 0..MaxRows /\ currentRow \in Int /\ b.lo \in 1..MaxRows
      /\ b.hi \in 1..MaxRows /\ b.lo <= b.hi
  <2>1. delivered \in 0..MaxRows /\ currentRow \in Int
    BY DEF IInv, TypeOK
  <2> QED BY <1>0, <2>1, RowsAssumption DEF NoColumns
<1>2. sizes' \in Sizes /\ set' \in 1..MaxSets /\ SetInv'
  BY DEF IInv, TypeOK, SetInv
<1>3. cursorRow' \in 0..(MaxRows + 1)
  BY <1>1, RowsAssumption
<1>4. CASE /\ delivered' = b.lo
           /\ currentRow' = currentRow + 1
           /\ block' = IF b.lo = b.hi THEN NoBlock ELSE [lo |-> b.lo + 1, hi |-> b.hi]
           /\ cursor' = cur
           /\ UNCHANGED <<closed, held, failed>>
  <2>0. b.lo # b.hi => /\ b.lo + 1 \in 1..MaxRows /\ b.lo + 1 <= b.hi
                       /\ [lo |-> b.lo + 1, hi |-> b.hi] \in Blocks
    <3>1. b.lo # b.hi => b.lo + 1 \in 1..MaxRows /\ b.lo + 1 <= b.hi
      BY <1>1, RowsAssumption
    <3> QED BY <1>1, <3>1, BlockType
  <2>1. block' \in Blocks \cup {NoBlock}
    BY <1>4, <2>0
  <2>2. Ranges'
    BY <1>1, <1>2, <1>3, <1>4, <2>1 DEF Ranges
  <2>3. block' # NoBlock => block' = [lo |-> b.lo + 1, hi |-> b.hi] /\ b.lo + 1 <= b.hi
    BY <1>4, <2>0
  <2>4. block' = NoBlock => b.lo = b.hi
    BY <1>4, <2>0, BlockType
  <2>5. PositionInv'
    BY <1>0, <1>1, <1>4, <2>3, <2>4 DEF PositionInv
  <2>6. CursorInv' /\ NothingLeftOpen' /\ RowIsDelivered'
    BY <1>1, <1>4 DEF CursorInv, NothingLeftOpen, RowIsDelivered, IInv
  <2> QED BY <1>2, <2>2, <2>5, <2>6 DEF Core
<1>5. CASE /\ block' = [lo |-> b.lo, hi |-> b.hi]
           /\ CloseRows(isClosed, cur)
           /\ UNCHANGED <<currentRow, delivered>>
  <2>1. block' \in Blocks \cup {NoBlock}
    BY <1>1, <1>5, BlockType
  <2>2. closed' /\ cursor' \in {"open", "closed"} /\ NothingLeftOpen'
    BY <1>5 DEF CloseRows, NothingLeftOpen
  <2>3. Ranges'
    BY <1>1, <1>2, <1>3, <1>5, <2>1, <2>2 DEF Ranges
  <2> QED BY <1>2, <2>2, <2>3 DEF Core, CursorInv, PositionInv, RowIsDelivered
<1> QED BY <1>4, <1>5 DEF Consume

(* Next finds no row: the end of the result set, and of the rows.          *)
LEMMA EndStep ==
  ASSUME IInv, ~closed, UNCHANGED <<scrollable, sizes, set, exact, stale, abandoned>>,
         NEW isClosed \in BOOLEAN, serverClosed' = isClosed, scrollable => ~isClosed,
         NEW cur \in {"open", "closed"}, isClosed <=> cur = "closed",
         cursorRow' \in 0..(MaxRows + 1),
         EndOfResultSet(isClosed, cur)
  PROVE  Core'
<1>1. /\ done' /\ block' = NoBlock /\ UNCHANGED <<currentRow, delivered>>
      /\ cursor' \in {"open", "closed"}
  BY DEF EndOfResultSet, CloseRows
<1>2. Ranges' /\ SetInv'
  BY <1>1 DEF IInv, TypeOK, SetInv, Ranges
<1>3. NothingLeftOpen' /\ CursorInv'
  BY <1>1 DEF EndOfResultSet, CloseRows, NothingLeftOpen, CursorInv
<1> QED BY <1>1, <1>2, <1>3 DEF Core, PositionInv, RowIsDelivered

-----------------------------------------------------------------------------
LEMMA NextFromBlockStep ==
  ASSUME IInv, NextFromBlock
  PROVE  Core'
<1>1. /\ ~closed /\ ~done /\ Consume(block, serverClosed, cursor)
      /\ UNCHANGED <<scrollable, sizes, set, done, serverClosed, endOfData, cursorRow, exact,
                     stale, abandoned>>
  BY DEF NextFromBlock
<1>2. /\ block.lo = delivered + 1 /\ block.hi \in block.lo..Rows /\ cursorRow = block.hi
      /\ (endOfData \/ serverClosed) /\ ~stale => block.hi = Rows
  <2>1. /\ block.lo = delivered + 1 /\ block.lo <= block.hi /\ block.hi = cursorRow
        /\ block.hi <= Rows /\ ((endOfData \/ serverClosed) /\ ~stale => cursorRow = Rows)
    BY <1>1 DEF NextFromBlock, IInv, PositionInv
  <2>2. delivered \in Int /\ cursorRow \in Int /\ Rows \in Int
    BY RowsType, RowsAssumption DEF IInv, TypeOK, NoColumns
  <2> QED BY <2>1, <2>2
<1>3. serverClosed \in BOOLEAN /\ cursor \in {"open", "closed"}
  BY DEF IInv, TypeOK
<1>4. (scrollable => ~serverClosed) /\ (serverClosed <=> cursor = "closed")
  BY <1>1 DEF IInv, CursorInv
<1> QED BY <1>1, <1>2, <1>3, <1>4, ConsumeStep

(* The reply to Next's fetch, which starts after the last row delivered.   *)
LEMMA NextReply ==
  ASSUME IInv, ~closed, ~done, block = NoBlock, ~serverClosed,
         NEW b \in FetchReplies(cursorRow + 1)
  PROVE  /\ cursorRow = delivered /\ cursor = "open" /\ Rows \in 0..MaxRows
         /\ delivered \in 0..Rows
         /\ b.mark \in {"none", "700", "701"}
         /\ scrollable => b.mark # "700"
         /\ Empty(b) => delivered = Rows
         /\ ~Empty(b) => /\ b.lo = delivered + 1 /\ b.hi \in b.lo..Rows
                         /\ b.mark # "none" => b.hi = Rows
<1>1. Rows \in NoColumns..MaxRows
  BY RowsType DEF IInv
<1>2. cursorRow = delivered /\ delivered <= Rows /\ cursor = "open"
  BY DEF IInv, PositionInv, CursorInv, TypeOK
<1>3. delivered \in 0..MaxRows
  BY DEF IInv, TypeOK
<1>4. Rows \in 0..MaxRows /\ delivered \in 0..Rows /\ cursorRow + 1 \in Int
  BY <1>1, <1>2, <1>3, RowsAssumption DEF NoColumns
<1>5. /\ b.mark \in {"none", "700", "701"}
      /\ scrollable => b.mark # "700"
      /\ Empty(b) => cursorRow + 1 < 1 \/ cursorRow + 1 > Rows
      /\ ~Empty(b) => /\ b.lo = cursorRow + 1 /\ b.hi \in (cursorRow + 1)..Rows
                      /\ b.mark # "none" => b.hi = Rows
  BY <1>1, <1>4, Replies
<1>6. Empty(b) => delivered = Rows
  BY <1>2, <1>4, <1>5
<1> QED BY <1>2, <1>4, <1>5, <1>6

LEMMA NextFetchStep ==
  ASSUME IInv, NextFetch
  PROVE  Core'
<1>1. PICK b \in FetchReplies(cursorRow + 1) :
        /\ serverClosed' = (b.mark = "700" /\ ~scrollable)
        /\ endOfData' = (b.mark = "701")
        /\ cursorRow' = RowAfter(cursorRow + 1, b)
        /\ IF Empty(b)
           THEN EndOfResultSet(serverClosed', CursorAfter(b))
           ELSE Consume(b, serverClosed', CursorAfter(b)) /\ UNCHANGED done
  BY DEF NextFetch
<1>2. /\ ~closed /\ ~done /\ block = NoBlock /\ ~serverClosed
      /\ UNCHANGED <<scrollable, sizes, set, exact, stale, abandoned>>
  BY DEF NextFetch
<1>3. /\ cursorRow = delivered /\ cursor = "open" /\ Rows \in 0..MaxRows
      /\ delivered \in 0..Rows
      /\ b.mark \in {"none", "700", "701"}
      /\ scrollable => b.mark # "700"
      /\ Empty(b) => delivered = Rows
      /\ ~Empty(b) => /\ b.lo = delivered + 1 /\ b.hi \in b.lo..Rows
                      /\ b.mark # "none" => b.hi = Rows
  BY <1>2, NextReply
<1>4. /\ serverClosed' \in BOOLEAN /\ CursorAfter(b) \in {"open", "closed"}
      /\ serverClosed' <=> CursorAfter(b) = "closed"
      /\ scrollable => ~serverClosed'
  BY <1>1, <1>3 DEF CursorAfter
<1>5. CASE Empty(b)
  <2>1. cursorRow' \in 0..(MaxRows + 1)
    BY <1>1, <1>3, <1>5, RowsAssumption DEF RowAfter
  <2> QED BY <1>1, <1>2, <1>4, <1>5, <2>1, EndStep
<1>6. CASE ~Empty(b)
  <2>1. cursorRow' = b.hi
    BY <1>1, <1>6 DEF RowAfter
  <2>2. (endOfData' \/ serverClosed') /\ ~stale => b.hi = Rows
    BY <1>1, <1>3, <1>6
  <2> QED BY <1>1, <1>2, <1>3, <1>4, <1>6, <2>1, <2>2, ConsumeStep
<1> QED BY <1>5, <1>6

LEMMA NextExhaustedStep ==
  ASSUME IInv, NextExhausted
  PROVE  Core'
<1>1. /\ ~closed /\ EndOfResultSet(serverClosed, cursor)
      /\ UNCHANGED <<scrollable, sizes, set, serverClosed, cursorRow, exact, stale, abandoned>>
  BY DEF NextExhausted
<1>2. /\ serverClosed \in BOOLEAN /\ cursor \in {"open", "closed"}
      /\ cursorRow' \in 0..(MaxRows + 1)
  BY <1>1 DEF IInv, TypeOK
<1>3. (scrollable => ~serverClosed) /\ (serverClosed <=> cursor = "closed")
  BY <1>1 DEF IInv, CursorInv
<1> QED BY <1>1, <1>2, <1>3, EndStep

-----------------------------------------------------------------------------
(* What a scroll to row p finds: the row, which Next delivers next, or     *)
(* none, at either end of the result set.                                  *)
LEMMA ScrollReply ==
  ASSUME IInv, NEW p \in Int, NEW b \in FetchReplies(p)
  PROVE  /\ [lo |-> b.lo, hi |-> b.hi] \in Blocks
         /\ RowAfter(p, b) \in 0..(MaxRows + 1)
         /\ RowBefore(p, b) \in 0..MaxRows
         /\ Empty(b) => RowBefore(p, b) = 0 \/ RowBefore(p, b) = Rows
         /\ ~Empty(b) => /\ RowBefore(p, b) = p - 1 /\ p - 1 \in 0..(Rows - 1)
                         /\ b.lo = p /\ b.hi \in p..Rows /\ RowAfter(p, b) = b.hi
<1>1. Rows \in NoColumns..MaxRows
  BY RowsType DEF IInv
<1>2. /\ Empty(b) => b.lo = 1 /\ b.hi = 0 /\ (p < 1 \/ p > Rows)
      /\ ~Empty(b) => b.lo = p /\ b.hi \in p..Rows /\ p >= 1
  BY <1>1, Replies
<1>3. CASE Empty(b)
  BY <1>1, <1>2, <1>3, BlockType, RowsAssumption DEF RowAfter, RowBefore, NoColumns
<1>4. CASE ~Empty(b)
  <2>1. /\ b.lo = p /\ b.hi \in p..Rows /\ p \in 1..MaxRows /\ b.hi \in 1..MaxRows
        /\ p - 1 \in 0..(Rows - 1) /\ p - 1 \in 0..MaxRows /\ b.lo <= b.hi
    BY <1>1, <1>2, <1>4, RowsAssumption DEF NoColumns
  <2>2. RowAfter(p, b) = b.hi /\ RowBefore(p, b) = p - 1
    BY <1>4, <2>1 DEF RowAfter, RowBefore
  <2>3. b.hi \in 0..(MaxRows + 1)
    BY <2>1, RowsAssumption
  <2> QED BY <1>4, <2>1, <2>2, <2>3, BlockType
<1> QED BY <1>3, <1>4

LEMMA ScrollStep ==
  ASSUME IInv, NEW option \in Options, NEW k \in Arguments(option), Scroll(option, k)
  PROVE  Core'
<1> DEFINE p == Target(option, k)
<1>0. k \in Int /\ p \in Int
  BY TargetType DEF IInv
<1>1. PICK b \in FetchReplies(p) :
        /\ block' = [lo |-> b.lo, hi |-> b.hi]
        /\ cursorRow' = RowAfter(p, b)
        /\ done' = Empty(b)
        /\ delivered' = RowBefore(p, b)
  BY DEF Scroll
<1>2. /\ scrollable /\ ~closed
      /\ exact' = (option \in Absolute)
      /\ stale' = (stale \/ endOfData)
      /\ UNCHANGED <<scrollable, sizes, set, closed, serverClosed, endOfData, held, cursor,
                     failed, abandoned>>
  BY DEF Scroll
<1>3. /\ [lo |-> b.lo, hi |-> b.hi] \in Blocks
      /\ RowAfter(p, b) \in 0..(MaxRows + 1)
      /\ RowBefore(p, b) \in 0..MaxRows
      /\ ~Empty(b) => /\ RowBefore(p, b) = p - 1 /\ p - 1 \in 0..(Rows - 1)
                      /\ b.lo = p /\ b.hi \in p..Rows /\ RowAfter(p, b) = b.hi
  BY <1>0, ScrollReply
<1>4. currentRow \in Int /\ Rows \in Int /\ Rows' = Rows
  BY <1>2, RowsType, RowsAssumption DEF IInv, TypeOK, NoColumns, Rows
<1>5. currentRow' \in Int
  BY <1>0, <1>4 DEF Scroll, Options, Absolute
<1>6. Ranges' /\ SetInv'
  BY <1>1, <1>2, <1>3, <1>5 DEF IInv, TypeOK, SetInv, Ranges
<1>7. CursorInv' /\ NothingLeftOpen'
  BY <1>2 DEF IInv, CursorInv, NothingLeftOpen
<1>8. PositionInv'
  <2> SUFFICES ASSUME ~Empty(b) PROVE PositionInv'
    BY <1>1 DEF PositionInv
  <2>1. block' # NoBlock /\ block'.lo = p /\ block'.hi = b.hi
    BY <1>1, <1>3, BlockType
  <2>2. ~serverClosed' /\ (endOfData' => stale')
    BY <1>2 DEF IInv, CursorInv
  <2> QED BY <1>0, <1>1, <1>3, <1>4, <2>1, <2>2 DEF PositionInv
<1>9. RowIsDelivered'
  <2> SUFFICES ASSUME ~Empty(b), option \in Absolute PROVE currentRow' = p - 1
    BY <1>1, <1>2, <1>3 DEF RowIsDelivered
  <2>1. p \in 1..Rows
    BY <1>0, <1>3, <1>4
  <2>2. option \in {"first", "direct"}
    BY <1>4, <2>1 DEF Absolute, Target
  <2> QED BY <1>0, <2>2 DEF Scroll, Target
<1> QED BY <1>6, <1>7, <1>8, <1>9 DEF Core

LEMMA NextResultSetStep ==
  ASSUME IInv, NextResultSet
  PROVE  Core'
<1>1. /\ Len(sizes) \in 1..MaxSets /\ set \in Int
      /\ \A i \in 1..Len(sizes) : sizes[i] \in NoColumns..MaxRows
  BY RowsType DEF IInv, TypeOK
<1>2. set' \in 1..MaxSets /\ SetInv' /\ set' \in 1..Len(sizes)
  <2>1. set \in 1..MaxSets /\ set' = set + 1 /\ ~(set >= Len(sizes)) /\ sizes' = sizes
    BY DEF NextResultSet, LastSet, IInv, TypeOK
  <2>2. set' \in 1..Len(sizes) /\ set' \in 1..MaxSets
    BY <1>1, <2>1, RowsAssumption
  <2> QED BY <1>1, <2>1, <2>2 DEF SetInv
<1>3. Ranges'
  BY <1>2, RowsAssumption DEF NextResultSet, IInv, TypeOK, Ranges
<1>4. CursorInv' /\ NothingLeftOpen' /\ RowIsDelivered'
  BY DEF NextResultSet, CursorInv, NothingLeftOpen, RowIsDelivered
<1>5. PositionInv'
  <2>1. Rows' \in NoColumns..MaxRows /\ (~done' => Rows' # NoColumns)
    BY <1>1, <1>2 DEF NextResultSet, Rows
  <2>2. ~done' => 0 <= Rows'
    BY <2>1, RowsAssumption DEF NoColumns
  <2> QED BY <2>2 DEF NextResultSet, PositionInv
<1> QED BY <1>2, <1>3, <1>4, <1>5 DEF Core

LEMMA CoreStep ==
  ASSUME IInv, [Next]_vars
  PROVE  Core'
<1>0. Core
  BY DEF IInv, TypeOK, Core, Ranges
<1>1. ASSUME NextFetchError \/ ScrollError \/ NextResultSetError \/ Close
      PROVE  Core'
  <2>1. UNCHANGED <<scrollable, sizes, set, block, currentRow, done, serverClosed, endOfData,
                    cursorRow, delivered, exact, stale>>
    BY <1>1 DEF NextFetchError, ScrollError, NextResultSetError, Close, position
  <2>2. closed' /\ cursor' \in {cursor, "closed"}
    BY <1>1 DEF NextFetchError, ScrollError, NextResultSetError, Close, FetchError, CloseRows
  <2>3. Ranges' /\ SetInv'
    BY <1>0, <2>1, <2>2 DEF Core, Ranges, SetInv
  <2>4. CursorInv' /\ PositionInv' /\ RowIsDelivered'
    BY <1>0, <2>1, <2>2 DEF Core, CursorInv, PositionInv, RowIsDelivered
  <2>5. NothingLeftOpen'
    <3>1. CASE NextFetchError \/ ScrollError \/ NextResultSetError
      BY <3>1 DEF NextFetchError, ScrollError, NextResultSetError, FetchError, NothingLeftOpen
    <3>2. CASE Close
      <4>1. serverClosed <=> cursor = "closed"
        BY <1>0, <3>2 DEF Close, Core, CursorInv
      <4> QED BY <3>2, <4>1 DEF Close, CloseRows, NothingLeftOpen
    <3> QED BY <1>1, <3>1, <3>2
  <2> QED BY <2>3, <2>4, <2>5 DEF Core
<1>2. ASSUME UNCHANGED vars
      PROVE  Core'
  <2>1. /\ Ranges' /\ SetInv'
    BY <1>0, <1>2 DEF Core, Ranges, SetInv, vars, rowVars, position
  <2>2. CursorInv' /\ NothingLeftOpen' /\ RowIsDelivered'
    BY <1>0, <1>2 DEF Core, CursorInv, NothingLeftOpen, RowIsDelivered, vars, rowVars, position
  <2>3. PositionInv'
    BY <1>0, <1>2 DEF Core, PositionInv, Rows, vars, rowVars, position
  <2> QED BY <2>1, <2>2, <2>3 DEF Core
<1> QED BY <1>1, <1>2, NextFromBlockStep, NextFetchStep, NextExhaustedStep, ScrollStep,
           NextResultSetStep
   DEF Next, NextRow, Finished

-----------------------------------------------------------------------------
(* The inductive invariant of QueryRows.                                   *)
THEOREM QueryRowsInvariant == Spec => []IInv
<1>1. Init => IInv
  <2> SUFFICES ASSUME Init PROVE IInv
    OBVIOUS
  <2>1. Len(sizes) \in 1..MaxSets /\ \A i \in 1..Len(sizes) : sizes[i] \in NoColumns..MaxRows
    BY SizesType DEF Init
  <2>2. SetInv /\ sizes[1] \in NoColumns..MaxRows
    BY <2>1 DEF Init, SetInv
  <2>3. Flags
    BY DEF Flags, Init
  <2>4. TypeOK
    BY <2>3, RowsAssumption DEF Init, TypeOK, Flags
  <2>5. CursorInv /\ NothingLeftOpen /\ RowIsDelivered
    BY DEF Init, CursorInv, NothingLeftOpen, RowIsDelivered
  <2>6. PositionInv
    <3>1. ~done => 0 <= Rows
      <4>1. Rows = sizes[1] /\ (~done => sizes[1] # NoColumns)
        BY DEF Init, Rows
      <4> QED BY <2>2, <4>1, RowsAssumption DEF NoColumns
    <3> QED BY <3>1 DEF Init, PositionInv
  <2> QED BY <2>2, <2>4, <2>5, <2>6 DEF IInv
<1>2. IInv /\ [Next]_vars => IInv'
  <2> SUFFICES ASSUME IInv, [Next]_vars PROVE IInv'
    OBVIOUS
  <2>1. Flags' /\ Core'
    BY FlagsStep, CoreStep DEF IInv
  <2>2. TypeOK'
    BY <2>1 DEF TypeOK, Flags, Core, Ranges
  <2> QED BY <2>1, <2>2 DEF IInv, Core
<1> QED BY <1>1, <1>2, PTL DEF Spec

(* sql.go serverClosed: while the rows are open the driver knows whether    *)
(* the cursor is, for any number of result sets, rows and block sizes.      *)
THEOREM CursorKnown == Spec => []CursorDiscipline
<1>1. IInv => CursorDiscipline
  BY DEF IInv, CursorInv, CursorDiscipline
<1> QED BY <1>1, QueryRowsInvariant, PTL

(* sql.go Close: whichever method closes the rows, no cursor, cursor name   *)
(* or statement is left behind unless a request has failed.                 *)
THEOREM ClosedLeavesNothing == Spec => []NothingLeftOpen
<1>1. IInv => NothingLeftOpen
  BY DEF IInv
<1> QED BY <1>1, QueryRowsInvariant, PTL

(* sql.go ScrollableRows.Row: the number of the row delivered last, after   *)
(* any sequence of Next and of absolute scrolls.                            *)
THEOREM RowNumber == Spec => []RowIsDelivered
<1>1. IInv => RowIsDelivered
  BY DEF IInv
<1> QED BY <1>1, QueryRowsInvariant, PTL

-----------------------------------------------------------------------------
(* The refinement, step by step.                                           *)
Eof == done /\ ~(stale /\ delivered < Rows)

(* Next consumes the first row of a block: Deliver, or Stop when the row   *)
(* cannot be decoded.                                                      *)
LEMMA ConsumeRefines ==
  ASSUME IInv, ~closed, ~done, UNCHANGED <<sizes, set, done, stale>>,
         NEW b, b.lo = delivered + 1, b.hi \in b.lo..Rows,
         NEW isClosed, NEW cur, Consume(b, isClosed, cur)
  PROVE  Stream!Deliver \/ Stream!Stop
<1>1. delivered \in Int /\ Rows \in Int
  BY RowsType, RowsAssumption DEF IInv, TypeOK, NoColumns
<1>2. delivered < sizes[set]
  BY <1>1 DEF Rows
<1>3. CASE delivered' = b.lo /\ UNCHANGED closed
  BY <1>2, <1>3 DEF Stream!Deliver
<1>4. CASE closed' /\ UNCHANGED delivered
  BY <1>4 DEF Stream!Stop
<1> QED BY <1>3, <1>4 DEF Consume, CloseRows

(* The end of a result set after its last row.                             *)
LEMMA EndRefines ==
  ASSUME IInv, ~closed, ~done, UNCHANGED <<sizes, set, stale>>, delivered = Rows,
         NEW isClosed, NEW cur, EndOfResultSet(isClosed, cur)
  PROVE  Stream!End
<1>1. delivered' = delivered /\ done' /\ Rows' = Rows /\ Rows \in Int
  BY RowsType, RowsAssumption DEF EndOfResultSet, Rows, IInv, NoColumns
<1>2. Eof' /\ ~(delivered' < Rows')
  BY <1>1 DEF Eof
<1>3. Len(sizes) \in Int /\ set \in Int
  BY RowsType DEF IInv, TypeOK
<1>4. (~closed)' = (set < Len(sizes))
  BY <1>3 DEF EndOfResultSet, LastSet, CloseRows
<1> QED BY <1>1, <1>2, <1>4 DEF Stream!End, Eof, Rows

LEMMA NextRowRefines ==
  ASSUME IInv, NextRow
  PROVE  Stream!Next \/ UNCHANGED Stream!vars
<1>1. CASE NextFromBlock
  <2>1. delivered \in Int /\ cursorRow \in Int /\ Rows \in Int
    BY RowsType, RowsAssumption DEF IInv, TypeOK, NoColumns
  <2>2. block.lo = delivered + 1 /\ block.hi \in block.lo..Rows
    BY <1>1, <2>1 DEF NextFromBlock, IInv, PositionInv
  <2> QED BY <1>1, <2>2, ConsumeRefines DEF NextFromBlock, Stream!Next
<1>2. CASE NextFetch
  <2>1. PICK b \in FetchReplies(cursorRow + 1) :
          IF Empty(b)
          THEN EndOfResultSet(serverClosed', CursorAfter(b))
          ELSE Consume(b, serverClosed', CursorAfter(b)) /\ UNCHANGED done
    BY <1>2 DEF NextFetch
  <2>2. /\ ~closed /\ ~done /\ block = NoBlock /\ ~serverClosed
        /\ UNCHANGED <<sizes, set, stale>>
    BY <1>2 DEF NextFetch
  <2>3. /\ Empty(b) => delivered = Rows
        /\ ~Empty(b) => b.lo = delivered + 1 /\ b.hi \in b.lo..Rows
    BY <2>2, NextReply
  <2>4. CASE Empty(b)
    BY <2>1, <2>2, <2>3, <2>4, EndRefines DEF Stream!Next
  <2>5. CASE ~Empty(b)
    BY <2>1, <2>2, <2>3, <2>5, ConsumeRefines DEF Stream!Next
  <2> QED BY <2>4, <2>5
<1>3. CASE NextExhausted
  <2>1. /\ ~closed /\ ~done /\ block = NoBlock /\ (serverClosed \/ endOfData)
        /\ EndOfResultSet(serverClosed, cursor) /\ UNCHANGED <<sizes, set, stale>>
    BY <1>3 DEF NextExhausted
  <2>2. CASE delivered = Rows
    BY <2>1, <2>2, EndRefines DEF Stream!Next
  (* An end mark that a scroll has moved back from. *)
  <2>3. CASE delivered # Rows
    <3>1. stale /\ delivered < Rows
      <4>1. delivered \in Int /\ Rows \in Int
        BY RowsType, RowsAssumption DEF IInv, TypeOK, NoColumns
      <4> QED BY <2>1, <2>3, <4>1 DEF IInv, PositionInv
    <3>2. UNCHANGED <<sizes, set, delivered>> /\ ~Eof /\ ~Eof'
      BY <2>1, <3>1 DEF EndOfResultSet, Eof, Rows
    <3>3. closed' \/ UNCHANGED closed
      BY <2>1 DEF EndOfResultSet, CloseRows
    <3>4. CASE closed'
      BY <2>1, <3>2, <3>4 DEF Stream!Stop, Stream!Next, Eof, Rows
    <3>5. CASE UNCHANGED closed
      BY <3>2, <3>5 DEF Stream!vars, Eof, Rows
    <3> QED BY <3>3, <3>4, <3>5
  <2> QED BY <2>2, <2>3
<1>4. CASE NextFetchError
  BY <1>4 DEF NextFetchError, FetchError, position, Stream!Stop, Stream!Next
<1> QED BY <1>1, <1>2, <1>3, <1>4 DEF NextRow

LEMMA ScrollRefines ==
  ASSUME IInv, NEW option \in Options, NEW k \in Arguments(option), Scroll(option, k)
  PROVE  Stream!Scroll
<1> DEFINE p == Target(option, k)
<1>0. p \in Int /\ Rows \in NoColumns..MaxRows
  BY TargetType, RowsType DEF IInv
<1>1. PICK b \in FetchReplies(p) : done' = Empty(b) /\ delivered' = RowBefore(p, b)
  BY DEF Scroll
<1>2. ~closed /\ UNCHANGED <<sizes, set, closed>> /\ Rows' = Rows
  BY DEF Scroll, Rows
<1>3. /\ RowBefore(p, b) \in 0..MaxRows
      /\ Empty(b) => RowBefore(p, b) = 0 \/ RowBefore(p, b) = Rows
      /\ ~Empty(b) => RowBefore(p, b) \in 0..(Rows - 1)
  BY <1>0, ScrollReply
<1>4. \/ delivered' \in 0..(Rows - 1) /\ Eof' = FALSE
      \/ delivered' \in {0, Rows} /\ Eof' = TRUE
  <2>1. CASE ~Empty(b)
    BY <1>1, <1>3, <2>1 DEF Eof
  <2>2. CASE Empty(b) /\ ~(stale' /\ delivered' < Rows)
    BY <1>1, <1>2, <1>3, <2>2 DEF Eof
  <2>3. CASE Empty(b) /\ stale' /\ delivered' < Rows
    <3>1. delivered' \in 0..(Rows - 1)
      BY <1>0, <1>1, <1>3, <2>3, RowsAssumption DEF NoColumns
    <3> QED BY <1>2, <2>3, <3>1 DEF Eof
  <2> QED BY <2>1, <2>2, <2>3
<1> QED BY <1>2, <1>4 DEF Stream!Scroll, Eof, Rows

(* Every step of QueryRows is a step of RowStream or leaves it unchanged.  *)
LEMMA StreamStep ==
  ASSUME IInv, [Next]_vars
  PROVE  [Stream!Next]_(Stream!vars)
<1>1. CASE NextRow
  BY <1>1, NextRowRefines
<1>2. ASSUME NEW option \in Options, NEW k \in Arguments(option), Scroll(option, k)
      PROVE  Stream!Next
  BY <1>2, ScrollRefines DEF Stream!Next
<1>3. CASE ScrollError \/ NextResultSetError \/ Close
  <2>1. ~closed /\ closed' /\ UNCHANGED <<sizes, set, delivered, done, stale>>
    BY <1>3 DEF ScrollError, FetchError, NextResultSetError, Close, CloseRows, position
  <2>2. Eof' = Eof
    BY <2>1 DEF Eof, Rows
  <2> QED BY <2>1, <2>2 DEF Stream!Stop, Stream!Next, Eof, Rows
<1>4. CASE NextResultSet
  <2>1. /\ ~closed /\ UNCHANGED <<sizes, closed>> /\ set' = set + 1 /\ delivered' = 0
        /\ stale' = FALSE /\ done' = (sizes[set'] = NoColumns) /\ ~(set >= Len(sizes))
    BY <1>4 DEF NextResultSet, LastSet
  <2>2. set < Len(sizes)
    BY <2>1, RowsType DEF IInv, TypeOK
  <2>3. Eof' = (sizes[set'] = -1)
    BY <2>1 DEF Eof, NoColumns
  <2> QED BY <2>1, <2>2, <2>3 DEF Stream!NextResultSet, Stream!Next, Stream!NoColumns, Eof, Rows
<1>5. CASE UNCHANGED vars
  BY <1>5 DEF vars, rowVars, position, Stream!vars, Rows
<1> QED BY <1>1, <1>2, <1>3, <1>4, <1>5 DEF Next, Finished

(* sql.go Next, scroll, NextResultSet and Close implement the stream of     *)
(* rows that driver.Rows promises: every row once and in order, the end     *)
(* only after the last, whatever the server puts into its blocks.           *)
THEOREM Refinement == Spec => RowsInOrder
<1>1. Init => Stream!Init
  <2> SUFFICES ASSUME Init PROVE Stream!Init
    OBVIOUS
  <2>1. set = 1 /\ delivered = 0 /\ (~closed) = TRUE
    BY DEF Init
  <2>2. Eof = (sizes[1] = -1)
    BY DEF Init, Eof, NoColumns
  <2> QED BY <2>1, <2>2 DEF Stream!Init, Stream!NoColumns, Eof, Rows
<1>2. IInv /\ [Next]_vars => [Stream!Next]_(Stream!vars)
  BY StreamStep
<1> QED BY <1>1, <1>2, QueryRowsInvariant, PTL DEF Spec, RowsInOrder, Stream!Spec
=============================================================================
