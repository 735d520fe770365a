----------------------------- MODULE QueryRows -----------------------------
(***************************************************************************)
(* queryRows: the rows of one open cursor, read in blocks, through one or  *)
(* several result sets, forward or scrolling.                              *)
(*                                                                         *)
(* One goroutine owns the rows, so every method is one step.  A fetched    *)
(* block is the range of row numbers that Next has not delivered yet.  The *)
(* server ends a result set in three ways: an empty block, a block marked  *)
(* 701 (last rows, the cursor stays open), or a block marked 700 (the      *)
(* server has closed a forward-only cursor).                               *)
(***************************************************************************)
EXTENDS Integers, Sequences

CONSTANTS
  MaxRows,     \* rows of a result set
  MaxSets,     \* result sets of a statement
  MaxBlock     \* rows of a block

ASSUME RowsAssumption ==
  /\ MaxRows \in Nat
  /\ MaxSets \in Nat \ {0}
  /\ MaxBlock \in Nat \ {0}

(* The scroll options.  Absolute ones renumber the current row.            *)
Absolute == {"first", "beforeFirst", "afterLast", "direct"}
Options == Absolute \cup {"last", "current", "relative"}

VARIABLES
  scrollable,    \* cfg.ScrollableCursors
  sizes,         \* rows of each result set on the server, NoColumns if none
  set,           \* resultSetIndex
  block,         \* the rows lo..hi of the block, or NoBlock
  currentRow,    \* what Row() returns while the rows are open
  done,          \* currentResultSetDone
  closed,
  serverClosed,
  endOfData,
  held,          \* the rows still hold cursor name and statement
  cursor,        \* server: "open" or "closed"
  cursorRow,     \* server: the row the cursor is on
  delivered,     \* the row before the one that Next delivers next
  exact,         \* the row number has been set, and not moved by an unknown step
  stale,         \* a scroll has moved back from the last block
  failed,        \* a request has failed
  abandoned      \* NextResultSet has failed

rowVars == <<set, block, currentRow, done, closed, serverClosed, endOfData, held>>
position == <<delivered, exact, stale>>
vars == <<scrollable, rowVars, sizes, cursor, cursorRow, position, failed, abandoned>>

NoBlock == <<>>
NoColumns == -1
(* The sizes of one or more result sets. *)
Sizes == UNION {[1..n -> NoColumns..MaxRows] : n \in 1..MaxSets}
(* A block has a row left, or it is the empty block of a scroll.           *)
Blocks == {b \in [lo : 1..MaxRows, hi : 1..MaxRows] : b.lo <= b.hi} \cup {[lo |-> 1, hi |-> 0]}

TypeOK ==
  /\ sizes \in Sizes
  /\ set \in 1..MaxSets
  /\ block \in Blocks \cup {NoBlock}
  /\ currentRow \in Int
  /\ {scrollable, done, closed, serverClosed, endOfData, held, exact, stale, failed,
      abandoned} \subseteq BOOLEAN
  /\ cursor \in {"open", "closed"}
  /\ cursorRow \in 0..(MaxRows + 1)
  /\ delivered \in 0..MaxRows

(* queryRowsForStatement has opened the cursor of the first result set.    *)
Init ==
  /\ scrollable \in BOOLEAN
  /\ sizes \in Sizes \ {<<NoColumns>>}
  /\ set = 1
  /\ block = NoBlock
  /\ currentRow = 0
  /\ done = (sizes[1] = NoColumns)
  /\ closed = FALSE
  /\ serverClosed = FALSE
  /\ endOfData = FALSE
  /\ held = TRUE
  /\ cursor = "open"
  /\ cursorRow = 0
  /\ delivered = 0
  /\ exact = TRUE
  /\ stale = FALSE
  /\ failed = FALSE
  /\ abandoned = FALSE

-----------------------------------------------------------------------------
Rows == sizes[set]
LastSet == set >= Len(sizes)

(* The replies to a fetch that starts at row p: up to MaxBlock rows, and   *)
(* at the end of the result set perhaps a mark.                            *)
FetchReplies(p) ==
  LET marks == IF scrollable THEN {"none", "701"} ELSE {"none", "700", "701"}
      hits  == {h \in p..(p + MaxBlock - 1) : p > 0 /\ h <= Rows}
  IN  IF hits = {}
      THEN {[lo |-> 1, hi |-> 0, mark |-> m] : m \in marks}
      ELSE UNION {{[lo |-> p, hi |-> h, mark |-> m] :
                      m \in IF h = Rows THEN marks ELSE {"none"}} : h \in hits}

Empty(b) == b.hi < b.lo

(* Where the server leaves the cursor after a reply to a fetch at row p.   *)
RowAfter(p, b) ==
  IF ~Empty(b) THEN b.hi ELSE IF p < 1 THEN 0 ELSE Rows + 1

(* The row before the one that Next delivers after that reply.             *)
RowBefore(p, b) ==
  IF ~Empty(b) THEN b.lo - 1 ELSE IF p < 1 \/ Rows < 0 THEN 0 ELSE Rows

CursorAfter(b) == IF b.mark = "700" THEN "closed" ELSE cursor

(* Mutant: the last block counts as a closed cursor. *)
CloseRows_SkipsAtEnd(isServerClosed, cur) ==
  /\ closed' = TRUE
  /\ held' = FALSE
  /\ \/ cursor' = (IF isServerClosed \/ endOfData THEN cur ELSE "closed") /\ UNCHANGED failed
     \/ ~isServerClosed /\ cursor' = cur /\ failed' = TRUE

(* queryRows.Close on rows that are open: close the cursor unless the      *)
(* server has, delete or release the statement, free the cursor name.  A   *)
(* close that fails is reported and nothing more.                          *)
CloseRows(isServerClosed, cur) ==
  /\ closed' = TRUE
  /\ held' = FALSE
  /\ \/ cursor' = (IF isServerClosed THEN cur ELSE "closed") /\ UNCHANGED failed
     \/ ~isServerClosed /\ cursor' = cur /\ failed' = TRUE

(* A fetch fails and the rows are closed; the close may fail as well.      *)
FetchError ==
  /\ closed' = TRUE
  /\ held' = FALSE
  /\ failed' = TRUE
  /\ cursor' \in {cursor, "closed"}

-----------------------------------------------------------------------------
(* Mutant: a block that has been read is not dropped. *)
Consume_KeepsBlock(b, isServerClosed, cur) ==
  \/ /\ delivered' = b.lo
     /\ currentRow' = currentRow + 1
     /\ block' = [lo |-> b.lo + 1, hi |-> b.hi]
     /\ cursor' = cur
     /\ UNCHANGED <<closed, held, failed>>
  \/ /\ block' = [lo |-> b.lo, hi |-> b.hi]
     /\ CloseRows(isServerClosed, cur)
     /\ UNCHANGED <<currentRow, delivered>>

(* The row at the head of block b is delivered, or cannot be decoded, and  *)
(* then the rows are closed.                                               *)
Consume(b, isServerClosed, cur) ==
  \/ /\ delivered' = b.lo
     /\ currentRow' = currentRow + 1
     /\ block' = IF b.lo = b.hi THEN NoBlock ELSE [lo |-> b.lo + 1, hi |-> b.hi]
     /\ cursor' = cur
     /\ UNCHANGED <<closed, held, failed>>
  \/ /\ block' = [lo |-> b.lo, hi |-> b.hi]
     /\ CloseRows(isServerClosed, cur)
     /\ UNCHANGED <<currentRow, delivered>>

(* Next reports the end of the result set; after the last one the rows are *)
(* closed.                                                                 *)
EndOfResultSet(isServerClosed, cur) ==
  /\ done' = TRUE
  /\ block' = NoBlock
  /\ IF LastSet THEN CloseRows(isServerClosed, cur)
                ELSE cursor' = cur /\ UNCHANGED <<closed, held, failed>>
  /\ UNCHANGED <<currentRow, delivered>>

(* Next consumes the block it has ...                                      *)
NextFromBlock ==
  /\ ~closed /\ ~done
  /\ block # NoBlock
  /\ Consume(block, serverClosed, cursor)
  /\ UNCHANGED <<scrollable, sizes, set, done, serverClosed, endOfData, cursorRow, exact,
                 stale, abandoned>>

(* ... or fetches one and consumes that, or finds it empty ...             *)
NextFetch ==
  /\ ~closed /\ ~done
  /\ block = NoBlock
  /\ ~serverClosed /\ ~endOfData
  /\ \E b \in FetchReplies(cursorRow + 1) :
       /\ serverClosed' = (b.mark = "700" /\ ~scrollable)
       /\ endOfData' = (b.mark = "701")
       /\ cursorRow' = RowAfter(cursorRow + 1, b)
       /\ IF Empty(b)
          THEN EndOfResultSet(serverClosed', CursorAfter(b))
          ELSE Consume(b, serverClosed', CursorAfter(b)) /\ UNCHANGED done
  /\ UNCHANGED <<scrollable, sizes, set, exact, stale, abandoned>>

(* ... or knows that there is none left ...                                *)
NextExhausted ==
  /\ ~closed /\ ~done
  /\ block = NoBlock
  /\ serverClosed \/ endOfData
  /\ EndOfResultSet(serverClosed, cursor)
  /\ UNCHANGED <<scrollable, sizes, set, serverClosed, endOfData, cursorRow, exact, stale,
                 abandoned>>

(* ... or the fetch fails, which closes the rows.                          *)
NextFetchError ==
  /\ ~closed /\ ~done
  /\ block = NoBlock
  /\ ~serverClosed /\ ~endOfData
  /\ FetchError
  /\ UNCHANGED <<scrollable, sizes, set, block, currentRow, done, serverClosed, endOfData,
                 cursorRow, position, abandoned>>

NextRow == NextFromBlock \/ NextFetch \/ NextExhausted \/ NextFetchError

-----------------------------------------------------------------------------
(* The row a scroll option asks the server for, k its argument.            *)
Target(option, k) ==
  CASE option = "first"       -> 1
    [] option = "last"        -> Rows
    [] option = "beforeFirst" -> 0
    [] option = "afterLast"   -> Rows + 1
    [] option = "current"     -> cursorRow
    [] option = "direct"      -> k
    [] option = "relative"    -> cursorRow + k

(* Mutant: Absolute(k) makes k the row before the next. *)
Scroll_DirectOffByOne(option, k) ==
  /\ scrollable
  /\ ~closed
  /\ \E b \in FetchReplies(Target(option, k)) :
       /\ block' = [lo |-> b.lo, hi |-> b.hi]
       /\ cursorRow' = RowAfter(Target(option, k), b)
       /\ done' = Empty(b)
       /\ delivered' = RowBefore(Target(option, k), b)
  /\ currentRow' = CASE option \in {"first", "beforeFirst", "afterLast"} -> 0
                     [] option = "direct"             -> k
                     [] option = "relative"           -> currentRow + k
                     [] option \in {"last", "current"} -> currentRow
  /\ exact' = (option \in Absolute)
  /\ stale' = (stale \/ endOfData)
  /\ UNCHANGED <<scrollable, sizes, set, closed, serverClosed, endOfData, held, cursor,
                 failed, abandoned>>

(* scroll: position the server's cursor, take the block it returns, and    *)
(* renumber the current row.  Marks of the reply are not looked at.        *)
Scroll(option, k) ==
  /\ scrollable
  /\ ~closed
  /\ \E b \in FetchReplies(Target(option, k)) :
       /\ block' = [lo |-> b.lo, hi |-> b.hi]
       /\ cursorRow' = RowAfter(Target(option, k), b)
       /\ done' = Empty(b)
       /\ delivered' = RowBefore(Target(option, k), b)
  /\ currentRow' = CASE option \in {"first", "beforeFirst", "afterLast"} -> 0
                     [] option = "direct"             -> k - 1
                     [] option = "relative"           -> currentRow + k
                     [] option \in {"last", "current"} -> currentRow
  /\ exact' = (option \in Absolute)
  /\ stale' = (stale \/ endOfData)
  /\ UNCHANGED <<scrollable, sizes, set, closed, serverClosed, endOfData, held, cursor,
                 failed, abandoned>>

ScrollError ==
  /\ scrollable
  /\ ~closed
  /\ FetchError
  /\ UNCHANGED <<scrollable, sizes, set, block, currentRow, done, serverClosed, endOfData,
                 cursorRow, position, abandoned>>

(* Mutant: serverClosed is not reset. *)
NextResultSet_KeepsServerClosed ==
  /\ ~closed
  /\ ~LastSet
  /\ set' = set + 1
  /\ cursor' = "open"
  /\ cursorRow' = 0
  /\ endOfData' = FALSE
  /\ block' = NoBlock
  /\ done' = (sizes[set'] = NoColumns)
  /\ delivered' = 0
  /\ exact' = FALSE
  /\ stale' = FALSE
  /\ UNCHANGED <<scrollable, sizes, serverClosed, currentRow, closed, held, failed, abandoned>>

(* Mutant: endOfData is not reset. *)
NextResultSet_KeepsEndOfData ==
  /\ ~closed
  /\ ~LastSet
  /\ set' = set + 1
  /\ cursor' = "open"
  /\ cursorRow' = 0
  /\ serverClosed' = FALSE
  /\ block' = NoBlock
  /\ done' = (sizes[set'] = NoColumns)
  /\ delivered' = 0
  /\ exact' = FALSE
  /\ stale' = FALSE
  /\ UNCHANGED <<scrollable, sizes, endOfData, currentRow, closed, held, failed, abandoned>>

(* NextResultSet closes the cursor without a reply, unless the server has, *)
(* and opens the next result set under the same name.                      *)
NextResultSet ==
  /\ ~closed
  /\ ~LastSet
  /\ set' = set + 1
  /\ cursor' = "open"
  /\ cursorRow' = 0
  /\ serverClosed' = FALSE
  /\ endOfData' = FALSE
  /\ block' = NoBlock
  /\ done' = (sizes[set'] = NoColumns)
  /\ delivered' = 0
  /\ exact' = FALSE
  /\ stale' = FALSE
  /\ UNCHANGED <<scrollable, sizes, currentRow, closed, held, failed, abandoned>>

(* When the close or the open fails the rows are marked closed, and        *)
(* nothing is released.                                                    *)
NextResultSetError ==
  /\ ~closed
  /\ ~LastSet
  /\ closed' = TRUE
  /\ cursor' \in {cursor, "closed"}
  /\ failed' = TRUE
  /\ abandoned' = TRUE
  /\ UNCHANGED <<scrollable, sizes, set, block, currentRow, done, serverClosed, endOfData,
                 held, cursorRow, position>>

(* Close, also through NextResultSet after the last result set.            *)
Close ==
  /\ ~closed
  /\ CloseRows(serverClosed, cursor)
  /\ UNCHANGED <<scrollable, sizes, set, block, currentRow, done, serverClosed, endOfData,
                 cursorRow, position, abandoned>>

(* Every method of closed rows returns at once; Next after the end too.    *)
Finished == closed /\ UNCHANGED vars

(* Last, Current and Relative move the row number without limit; the model *)
(* takes them only while it is in this range.                              *)
RowBound == -1..(MaxRows + 1)

Arguments(option) ==
  CASE option = "direct"             -> 1..(MaxRows + 1)
    [] option = "relative"           -> {k \in -1..1 : currentRow + k \in RowBound}
    [] option \in {"last", "current"} -> {k \in {0} : currentRow \in RowBound}
    [] OTHER                         -> {0}

Next ==
  \/ NextRow
  \/ \E option \in Options : \E k \in Arguments(option) : Scroll(option, k)
  \/ ScrollError
  \/ NextResultSet
  \/ NextResultSetError
  \/ Close
  \/ Finished

Spec == Init /\ [][Next]_vars

-----------------------------------------------------------------------------
(* sql.go Next, scroll and NextResultSet against driver.Rows: whatever the *)
(* sizes of the blocks and the way the server marks the end, the reader    *)
(* gets every row from where it is positioned once and in order, and       *)
(* io.EOF only after the last.  An io.EOF after the end mark of a block    *)
(* that was scrolled back from (sql.go:1497) is the one exception: the     *)
(* stream counts it as a reader that stops.                                *)
Stream == INSTANCE RowStream WITH
            pos  <- delivered,
            eof  <- done /\ ~(stale /\ delivered < Rows),
            open <- ~closed

RowsInOrder == Stream!Spec

(* sql.go serverClosed: while the rows are open, the driver knows whether   *)
(* their cursor is open on the server.  So Next and scroll never fetch     *)
(* from a closed cursor, Close and NextResultSet never close one twice,    *)
(* and NextResultSet never reopens one that is still open (PWS0002).       *)
(* (With the types of all variables.)                                      *)
CursorDiscipline == TypeOK /\ (~closed => (serverClosed <=> cursor = "closed"))

(* sql.go Close: rows that are closed, by whichever path, and with no      *)
(* failed request leave no cursor open on the server and hold neither the  *)
(* cursor name nor the statement.                                          *)
NothingLeftOpen ==
  closed => \/ abandoned
            \/ ~held /\ (failed \/ cursor = "closed")

(* sql.go ScrollableRows: Row() is the number of the row that Next has     *)
(* delivered last, also after First, BeforeFirst, AfterLast and Absolute;  *)
(* Last, Current and Relative renumber by less than the driver can know,   *)
(* and a second result set counts on.                                      *)
RowIsDelivered == exact /\ ~done /\ ~closed => currentRow = delivered
=============================================================================
