---------------------------- MODULE PreparedStmt ----------------------------
(***************************************************************************)
(* Stmt: a prepared statement that several calls use, with rows that stay  *)
(* open after QueryContext has returned, and a Close that waits for all of *)
(* them.  active counts the users; the rows of a query give their part     *)
(* back when they are closed.                                              *)
(***************************************************************************)
EXTENDS Naturals, FiniteSets

CONSTANTS
  Calls,    \* ExecContext and QueryContext calls, each made once
  Closers   \* goroutines that call Close

ASSUME StmtAssumption ==
  /\ IsFiniteSet(Calls)
  /\ Calls \cap Closers = {}

VARIABLES
  pc,       \* where each call and each closer is
  closed,   \* Stmt.closed
  active,   \* Stmt.active
  valid,    \* Conn.IsValid()
  deleted,  \* Close has deleted the statement's RPB
  leaked    \* calls that have ended without giving their count back

vars == <<pc, closed, active, valid, deleted, leaked>>

TypeOK ==
  /\ pc \in [Calls \cup Closers -> {"idle", "running", "rows", "wait", "done"}]
  /\ active \in 0..Cardinality(Calls)
  /\ {closed, valid, deleted} \subseteq BOOLEAN
  /\ leaked \subseteq Calls

Init ==
  /\ pc = [p \in Calls \cup Closers |-> "idle"]
  /\ closed = FALSE
  /\ active = 0
  /\ valid = TRUE
  /\ deleted = FALSE
  /\ leaked = {}

Goto(p, l) == pc' = [pc EXCEPT ![p] = l]

release == active' = IF active > 0 THEN active - 1 ELSE 0

(* acquire: refused once the statement is closed, and given back when the  *)
(* connection is not valid.                                                *)
Acquire(c) ==
  /\ pc[c] = "idle"
  /\ IF closed \/ ~valid
     THEN Goto(c, "done") /\ UNCHANGED active
     ELSE Goto(c, "running") /\ active' = active + 1
  /\ UNCHANGED <<closed, valid, deleted, leaked>>

(* ExecContext returns, or QueryContext fails or has no rows to hand out.  *)
Return(c) ==
  /\ pc[c] = "running"
  /\ Goto(c, "done")
  /\ release
  /\ UNCHANGED <<closed, valid, deleted, leaked>>

(* Mutant: QueryContext defers release, as ExecContext does. *)
OpenRows_Releases(c) ==
  /\ pc[c] = "running"
  /\ Goto(c, "rows")
  /\ release
  /\ UNCHANGED <<closed, valid, deleted, leaked>>

(* QueryContext hands out rows that will call release ...                  *)
OpenRows(c) ==
  /\ pc[c] = "running"
  /\ Goto(c, "rows")
  /\ UNCHANGED <<closed, active, valid, deleted, leaked>>

(* Mutant: the count is taken back twice. *)
CloseRows_ReleasesTwice(c) ==
  /\ pc[c] = "rows"
  /\ Goto(c, "done")
  /\ active' = active - 2
  /\ UNCHANGED <<closed, valid, deleted, leaked>>

(* Mutant: the rows do not give their count back. *)
CloseRows_NoRelease(c) ==
  /\ pc[c] = "rows"
  /\ Goto(c, "done")
  /\ UNCHANGED active
  /\ UNCHANGED <<closed, valid, deleted, leaked>>

(* ... when queryRows.Close runs, for the first time.                      *)
CloseRows(c) ==
  /\ pc[c] = "rows"
  /\ Goto(c, "done")
  /\ release
  /\ UNCHANGED <<closed, valid, deleted, leaked>>

(* reorderNamedArgs fails in QueryContext: it returns without release.     *)
ArgsFail(c) ==
  /\ pc[c] = "running"
  /\ Goto(c, "done")
  /\ leaked' = leaked \cup {c}
  /\ UNCHANGED <<closed, active, valid, deleted>>

(* NextResultSet fails and marks the rows closed: Close then does nothing. *)
NextResultSetFails(c) ==
  /\ pc[c] = "rows"
  /\ Goto(c, "done")
  /\ leaked' = leaked \cup {c}
  /\ UNCHANGED <<closed, active, valid, deleted>>

(* Close: the first marks the statement closed, the others return ...      *)
Close(p) ==
  /\ pc[p] = "idle"
  /\ closed' = TRUE
  /\ Goto(p, IF closed THEN "done" ELSE "wait")
  /\ UNCHANGED <<active, valid, deleted, leaked>>

(* Mutant: the RPB is deleted at once. *)
CloseEnd_NoWait(p) ==
  /\ pc[p] = "wait"
  /\ deleted' = (deleted \/ valid)
  /\ Goto(p, "done")
  /\ UNCHANGED <<closed, active, valid, leaked>>

(* ... and waits on cond until nobody uses it, then deletes the RPB.       *)
CloseEnd(p) ==
  /\ pc[p] = "wait"
  /\ active = 0
  /\ deleted' = (deleted \/ valid)
  /\ Goto(p, "done")
  /\ UNCHANGED <<closed, active, valid, leaked>>

ConnLost ==
  /\ valid
  /\ valid' = FALSE
  /\ UNCHANGED <<pc, closed, active, deleted, leaked>>

Call(c) ==
  \/ Acquire(c) \/ Return(c) \/ OpenRows(c) \/ CloseRows(c)
  \/ ArgsFail(c) \/ NextResultSetFails(c)

Finished == (\A p \in Calls \cup Closers : pc[p] = "done") /\ UNCHANGED vars

Next ==
  \/ \E c \in Calls : Call(c)
  \/ \E p \in Closers : Close(p) \/ CloseEnd(p)
  \/ ConnLost
  \/ Finished

Spec == Init /\ [][Next]_vars

(* Calls return, their rows are closed, and a waiting Close is woken.      *)
Fairness ==
  /\ \A c \in Calls : WF_vars(Call(c))
  /\ \A p \in Closers : WF_vars(CloseEnd(p))

LiveSpec == Spec /\ Fairness

-----------------------------------------------------------------------------
InUse == {c \in Calls : pc[c] \in {"running", "rows"}}

(* stmt.go Close: the RPB is never deleted under a call or under open rows, *)
(* and a closed statement lets nobody in.                                   *)
NotDeletedInUse == deleted => InUse = {}

(* stmt.go acquire and release: active is the number of calls and open     *)
(* rows, however calls, failures and closes of rows interleave, but for the *)
(* two error paths that keep their count: QueryContext when                 *)
(* reorderNamedArgs fails, and NextResultSet.  (With the types of all       *)
(* variables.)                                                              *)
ActiveCountsCalls == TypeOK /\ active = Cardinality(InUse \cup leaked)

(* stmt_test.go:147, "Close() did not finish after operation release":      *)
(* Close returns once the calls have returned and their rows are closed,    *)
(* unless one of them has kept its count.                                   *)
CloseReturns ==
  \A p \in Closers : pc[p] = "wait" ~> pc[p] = "done" \/ leaked # {}
=============================================================================
