----------------------------- MODULE RowStream -----------------------------
(***************************************************************************)
(* What driver.Rows promises its reader: the rows of each result set in    *)
(* order and once each, the end of a result set only after its last row,   *)
(* and nothing after an error or a close.                                  *)
(***************************************************************************)
EXTENDS Integers, Sequences

VARIABLES
  sizes,  \* the number of rows of each result set, NoColumns if it has none
  set,    \* the result set being read
  pos,    \* the last row delivered
  eof,    \* the end of the result set has been reported
  open    \* the stream has not been closed

vars == <<sizes, set, pos, eof, open>>

(* A result set without columns, such as the update count of a CALL. *)
NoColumns == -1

Init ==
  /\ set = 1
  /\ pos = 0
  /\ eof = (sizes[1] = NoColumns)
  /\ open = TRUE

Deliver ==
  /\ open /\ ~eof
  /\ pos < sizes[set]
  /\ pos' = pos + 1
  /\ UNCHANGED <<sizes, set, eof, open>>

(* The end of the last result set also closes the stream. *)
End ==
  /\ open /\ ~eof
  /\ pos = sizes[set]
  /\ eof' = TRUE
  /\ open' = (set < Len(sizes))
  /\ UNCHANGED <<sizes, set, pos>>

NextResultSet ==
  /\ open
  /\ set < Len(sizes)
  /\ set' = set + 1
  /\ pos' = 0
  /\ eof' = (sizes[set'] = NoColumns)
  /\ UNCHANGED <<sizes, open>>

(* A scroll: to a row that is delivered next, or out of the rows at either *)
(* end, which counts as the end of them.                                   *)
Scroll ==
  /\ open
  /\ \/ pos' \in 0..(sizes[set] - 1) /\ eof' = FALSE
     \/ pos' \in {0, sizes[set]} /\ eof' = TRUE
  /\ UNCHANGED <<sizes, set, open>>

(* An error or the reader's Close, which reports no end of the rows. *)
Stop ==
  /\ open
  /\ open' = FALSE
  /\ UNCHANGED <<sizes, set, pos, eof>>

Next == Deliver \/ End \/ NextResultSet \/ Scroll \/ Stop

Spec == Init /\ [][Next]_vars
=============================================================================
