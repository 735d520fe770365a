------------------------- MODULE PreparedStmtProofs -------------------------
(***************************************************************************)
(* Proofs about PreparedStmt for any number of calls and closers: active   *)
(* counts the users, and the RPB is not deleted under one.                 *)
(***************************************************************************)
EXTENDS PreparedStmt, FiniteSetTheorems, TLAPS

Holders == InUse \cup leaked

(* What makes the two properties inductive: a call that has kept its count *)
(* is over, and only a statement marked closed is waited for or deleted.   *)
IInv ==
  /\ TypeOK
  /\ active = Cardinality(Holders)
  /\ \A c \in leaked : pc[c] = "done"
  /\ \A p \in Closers : pc[p] = "wait" => closed
  /\ deleted => closed /\ InUse = {}

-----------------------------------------------------------------------------
(* The number of holders is a number, at most that of the calls, and 0     *)
(* only if there is none; one more or one less holder changes it by one.   *)
LEMMA HoldersCount ==
  ASSUME TypeOK
  PROVE  /\ Holders \subseteq Calls
         /\ IsFiniteSet(Holders)
         /\ Cardinality(Holders) \in Nat
         /\ Cardinality(Holders) <= Cardinality(Calls)
         /\ Cardinality(Calls) \in Nat
         /\ Cardinality(Holders) = 0 => Holders = {}
         /\ \A c \in Holders : Cardinality(Holders \ {c}) = Cardinality(Holders) - 1
         /\ \A c \in Calls \ Holders :
              Cardinality(Holders \cup {c}) = Cardinality(Holders) + 1
<1>1. Holders \subseteq Calls
  BY DEF TypeOK, Holders, InUse
<1>2. IsFiniteSet(Calls)
  BY StmtAssumption
<1>3. /\ IsFiniteSet(Holders) /\ Cardinality(Holders) \in Nat
      /\ Cardinality(Holders) <= Cardinality(Calls)
      /\ Cardinality(Calls) \in Nat
  BY <1>1, <1>2, FS_Subset, FS_CardinalityType
<1>4. Cardinality(Holders) = 0 => Holders = {}
  BY <1>3, FS_EmptySet
<1>5. \A c \in Holders : Cardinality(Holders \ {c}) = Cardinality(Holders) - 1
  BY <1>3, FS_RemoveElement
<1>6. \A c \in Calls \ Holders : Cardinality(Holders \cup {c}) = Cardinality(Holders) + 1
  BY <1>3, FS_AddElement
<1> QED BY <1>1, <1>3, <1>4, <1>5, <1>6

(* A call moves; nobody else does.                                         *)
LEMMA OneMoves ==
  ASSUME TypeOK, NEW c \in Calls, NEW l \in {"running", "rows", "done"}, Goto(c, l)
  PROVE  /\ pc' \in [Calls \cup Closers -> {"idle", "running", "rows", "wait", "done"}]
         /\ InUse' = IF l = "done" THEN InUse \ {c} ELSE InUse \cup {c}
         /\ pc'[c] = l
         /\ \A d \in Calls : d # c => pc'[d] = pc[d]
         /\ \A p \in Closers : pc'[p] = pc[p]
BY StmtAssumption DEF TypeOK, Goto, InUse

(* What is left to show for the step of a call that returns or begins.     *)
LEMMA CountStep ==
  ASSUME IInv, NEW c \in Calls, Call(c)
  PROVE  IInv'
<1> USE DEF IInv
<1>1. CASE Acquire(c) /\ (closed \/ ~valid)
  <2>1. Goto(c, "done") /\ UNCHANGED <<active, closed, valid, deleted, leaked>>
    BY <1>1 DEF Acquire
  <2>2. c \notin InUse /\ InUse' = InUse
    BY <1>1, <2>1, OneMoves DEF Acquire, InUse
  <2>3. Holders' = Holders
    BY <2>1, <2>2 DEF Holders
  <2> QED BY <2>1, <2>2, <2>3, OneMoves, HoldersCount DEF TypeOK
<1>2. CASE Acquire(c) /\ ~(closed \/ ~valid)
  <2>1. /\ Goto(c, "running") /\ active' = active + 1 /\ pc[c] = "idle" /\ ~closed
        /\ UNCHANGED <<closed, valid, deleted, leaked>>
    BY <1>2 DEF Acquire
  <2>2. c \notin Holders
    BY <2>1 DEF Holders, InUse
  <2>3. Holders' = Holders \cup {c}
    BY <2>1, OneMoves DEF Holders
  <2>4. active' = Cardinality(Holders')
    BY <2>1, <2>2, <2>3, HoldersCount
  <2>5. c \notin leaked
    BY <2>2 DEF Holders
  <2>6. TypeOK'
    <3>1. active' <= Cardinality(Calls)
      <4>1. Holders' \subseteq Calls /\ IsFiniteSet(Calls)
        BY <2>3, HoldersCount, StmtAssumption
      <4> QED BY <4>1, <2>4, FS_Subset
    <3> QED BY <2>1, <3>1, OneMoves, HoldersCount DEF TypeOK
  <2>7. \A d \in leaked' : pc'[d] = "done"
    BY <2>1, <2>5, OneMoves DEF TypeOK
  <2>8. \A p \in Closers : pc'[p] = "wait" => closed'
    BY <2>1, OneMoves
  <2>9. ~deleted'
    BY <2>1
  <2> QED BY <2>4, <2>6, <2>7, <2>8, <2>9
<1>3. CASE Return(c) \/ CloseRows(c)
  <2>1. /\ Goto(c, "done") /\ release /\ pc[c] \in {"running", "rows"}
        /\ UNCHANGED <<closed, valid, deleted, leaked>>
    BY <1>3 DEF Return, CloseRows
  <2>2. c \in Holders /\ c \notin leaked
    BY <2>1 DEF Holders, InUse
  <2>3. Holders' = Holders \ {c} /\ InUse' = InUse \ {c}
    BY <2>1, <2>2, OneMoves DEF Holders
  <2>4. active > 0
    BY <2>2, HoldersCount
  <2>5. active' = Cardinality(Holders') /\ active' = active - 1
    BY <2>1, <2>2, <2>3, <2>4, HoldersCount DEF release
  <2>6. TypeOK'
    BY <2>1, <2>4, <2>5, OneMoves, HoldersCount DEF TypeOK
  <2>7. \A d \in leaked' : pc'[d] = "done"
    BY <2>1, <2>2, OneMoves DEF TypeOK
  <2>8. \A p \in Closers : pc'[p] = "wait" => closed'
    BY <2>1, OneMoves
  <2>9. deleted' => closed' /\ InUse' = {}
    BY <2>1, <2>3
  <2> QED BY <2>5, <2>6, <2>7, <2>8, <2>9
<1>4. CASE OpenRows(c)
  <2>1. /\ Goto(c, "rows") /\ pc[c] = "running"
        /\ UNCHANGED <<closed, active, valid, deleted, leaked>>
    BY <1>4 DEF OpenRows
  <2>2. InUse' = InUse /\ c \in InUse /\ c \notin leaked
    BY <2>1, OneMoves DEF InUse
  <2>3. Holders' = Holders
    BY <2>1, <2>2 DEF Holders
  <2> QED BY <2>1, <2>2, <2>3, OneMoves DEF TypeOK
<1>5. CASE ArgsFail(c) \/ NextResultSetFails(c)
  <2>1. /\ Goto(c, "done") /\ pc[c] \in {"running", "rows"} /\ leaked' = leaked \cup {c}
        /\ UNCHANGED <<closed, active, valid, deleted>>
    BY <1>5 DEF ArgsFail, NextResultSetFails
  <2>2. InUse' = InUse \ {c} /\ c \in InUse
    BY <2>1, OneMoves DEF InUse
  <2>3. Holders' = Holders
    BY <2>1, <2>2 DEF Holders
  <2>4. \A d \in leaked' : pc'[d] = "done"
    BY <2>1, OneMoves DEF TypeOK
  <2> QED BY <2>1, <2>2, <2>3, <2>4, OneMoves DEF TypeOK
<1> QED BY <1>1, <1>2, <1>3, <1>4, <1>5 DEF Call

(* The first Close marks the statement, and deletes it when active is 0.   *)
LEMMA CloserStep ==
  ASSUME IInv, NEW p \in Closers, Close(p) \/ CloseEnd(p)
  PROVE  IInv'
<1> USE DEF IInv
<1>1. PICK l \in {"wait", "done"} : Goto(p, l)
  BY DEF Close, CloseEnd
<1>2. /\ pc' \in [Calls \cup Closers -> {"idle", "running", "rows", "wait", "done"}]
      /\ \A c \in Calls : pc'[c] = pc[c]
      /\ \A q \in Closers : q # p => pc'[q] = pc[q]
  BY <1>1, StmtAssumption DEF TypeOK, Goto
<1>3. active' = active /\ valid' = valid /\ leaked' = leaked /\ (closed => closed')
  BY DEF Close, CloseEnd
<1>4. InUse' = InUse /\ Holders' = Holders
  BY <1>2, <1>3 DEF InUse, Holders
<1>5. CASE Close(p)
  <2>1. closed' /\ closed' \in BOOLEAN /\ deleted' = deleted
    BY <1>5 DEF Close
  <2> QED BY <1>2, <1>3, <1>4, <2>1 DEF TypeOK
<1>6. CASE CloseEnd(p)
  <2>1. closed' = closed /\ closed /\ deleted' \in BOOLEAN /\ active = 0 /\ pc'[p] = "done"
    BY <1>6, StmtAssumption DEF CloseEnd, TypeOK, Goto
  <2>2. InUse = {}
    BY <2>1, HoldersCount DEF Holders
  <2> QED BY <1>2, <1>3, <1>4, <2>1, <2>2 DEF TypeOK
<1> QED BY <1>5, <1>6

-----------------------------------------------------------------------------
(* The counting invariant of Stmt: every step of every call and closer     *)
(* keeps active the number of holders.                                     *)
THEOREM Counting == Spec => []IInv
<1>1. Init => IInv
  <2> SUFFICES ASSUME Init PROVE IInv
    OBVIOUS
  <2>1. InUse = {} /\ Holders = {}
    BY DEF Init, InUse, Holders
  <2>2. Cardinality(Holders) = 0 /\ Cardinality(Calls) \in Nat
    BY <2>1, FS_EmptySet, FS_CardinalityType, StmtAssumption
  <2>3. TypeOK
    <3>1. {closed, valid, deleted} \subseteq BOOLEAN
      BY Zenon DEF Init
    <3>2. pc \in [Calls \cup Closers -> {"idle", "running", "rows", "wait", "done"}]
      BY DEF Init
    <3> QED BY <2>2, <3>1, <3>2 DEF Init, TypeOK
  <2> QED BY <2>1, <2>2, <2>3 DEF Init, IInv
<1>2. IInv /\ [Next]_vars => IInv'
  <2> SUFFICES ASSUME IInv, [Next]_vars PROVE IInv'
    OBVIOUS
  <2>1. CASE \E c \in Calls : Call(c)
    BY <2>1, CountStep
  <2>2. CASE \E p \in Closers : Close(p) \/ CloseEnd(p)
    BY <2>2, CloserStep
  <2>3. CASE ConnLost
    <3>1. valid' = FALSE /\ UNCHANGED <<pc, closed, active, deleted, leaked>>
      BY <2>3 DEF ConnLost
    <3> QED BY <3>1 DEF IInv, TypeOK, Holders, InUse
  <2>4. CASE UNCHANGED vars
    BY <2>4 DEF IInv, TypeOK, Holders, InUse, vars
  <2> QED BY <2>1, <2>2, <2>3, <2>4 DEF Next, Finished
<1> QED BY <1>1, <1>2, PTL DEF Spec

(* stmt.go acquire and release: active is the number of calls and open     *)
(* rows, plus the calls that have ended on one of the two paths that keep  *)
(* their count, for any number of calls and closers.                       *)
THEOREM ActiveCounts == Spec => []ActiveCountsCalls
<1>1. IInv => ActiveCountsCalls
  BY DEF IInv, ActiveCountsCalls, Holders
<1> QED BY <1>1, Counting, PTL

(* stmt.go Close: no call and no open rows use a statement whose RPB is    *)
(* deleted, for any number of calls and closers.                           *)
THEOREM NeverDeletedInUse == Spec => []NotDeletedInUse
<1>1. IInv => NotDeletedInUse
  BY DEF IInv, NotDeletedInUse
<1> QED BY <1>1, Counting, PTL
=============================================================================
