------------------------ MODULE StatementExecProofs ------------------------
(***************************************************************************)
(* What StatementExec keeps, proved for any statements, ids, settings and  *)
(* bounds: the RPBs, the package and the limit, the inductive invariant,   *)
(* and the theorems that follow from it.                                   *)
(***************************************************************************)
EXTENDS StatementIdsProofs

(* The RPBs. *)
Active == T # {} \/ ~(U \subseteq {"releaseName"}) \/ op.kind = "prepare"

RpbInv ==
  valid =>
    /\ \A s \in cli.stmts : srv.rpb[s.h] # None /\ srv.rpb[s.h].sql = s.q /\ srv.rpb[s.h].name = s.name
    /\ \A r \in OwnRows : srv.rpb[r.h] # None /\ srv.rpb[r.h].name = r.name
    /\ \A h \in Handles \ cli.used : srv.rpb[h] # None => srv.rpb[h].name = "package"
    /\ op # None /\ op.kind \notin {"exec", "ping", "closeStmt", "closeRows"} /\ err = "none" /\ Active
         /\ T \cap {"prepare", "prepareOrReuse"} = {}
         => srv.rpb[op.h] # None /\ srv.rpb[op.h].sql = op.q /\ srv.rpb[op.h].name = op.name
    /\ Holds /\ (op.name = "package" \/ "releaseId" \in U) /\ srv.rpb[op.h] # None
         => srv.rpb[op.h].name = "package"

(* The limit: the driver knows of every limit that is in an RPB. *)
LimitInv ==
  valid =>
    /\ \A h \in Handles : srv.rpb[h] # None /\ srv.rpb[h].limit # 0 => cli.timeouts[h] = 1
    /\ ~cfg.qqrytimlmt => \A h \in Handles : cli.timeouts[h] # 1
    /\ op # None /\ op.limit = 0 /\ ~(op.kind = "batch" /\ cfg.blocks) /\ op.h \in Handles
         => SyncFirst(todo) \/ cli.timeouts[op.h] # 1

IInv ==
  /\ TypeInv
  /\ ControlInv
  /\ DescriptorInv
  /\ BatchInv
  /\ NameInv
  /\ ServerInv
  /\ IdsInv
  /\ RpbInv
  /\ PackageInv
  /\ LimitInv

-----------------------------------------------------------------------------
(* The RPBs.                                                               *)
Rpb(h, q, name) == srv.rpb[h] # None /\ srv.rpb[h].sql = q /\ srv.rpb[h].name = name

HeldRpbs ==
  /\ \A s \in cli.stmts : Rpb(s.h, s.q, s.name)
  /\ \A r \in OwnRows : srv.rpb[r.h] # None /\ srv.rpb[r.h].name = r.name

FreeRpbs == \A h \in Handles \ cli.used : srv.rpb[h] # None => srv.rpb[h].name = "package"

(* The operation has its statement prepared. *)
Ready ==
  /\ op # None /\ op.kind \notin {"exec", "ping", "closeStmt", "closeRows"} /\ err = "none" /\ Active
  /\ T \cap {"prepare", "prepareOrReuse"} = {}

StaysPackage == Holds /\ (op.name = "package" \/ "releaseId" \in U) /\ srv.rpb[op.h] # None => srv.rpb[op.h].name = "package"

LEMMA RpbParts ==
  ASSUME RpbInv, valid
  PROVE  HeldRpbs /\ FreeRpbs /\ (Ready => Rpb(op.h, op.q, op.name)) /\ StaysPackage
BY DEF RpbInv, HeldRpbs, FreeRpbs, Ready, Rpb, StaysPackage

LEMMA RpbMade ==
  ASSUME HeldRpbs', FreeRpbs', Ready' => Rpb(op.h, op.q, op.name)', StaysPackage'
  PROVE  RpbInv'
BY DEF RpbInv, HeldRpbs, FreeRpbs, Ready, Rpb, StaysPackage

LEMMA RpbBegin ==
  ASSUME TypeInv, ControlInv, IdsInv, RpbInv, BeginOutcome
  PROVE  RpbInv'
<1>0. op = None /\ valid /\ op' # None /\ err' = "none" /\ srv' = srv
  BY BeginFrame
<1>1. HeldRpbs /\ FreeRpbs
  BY <1>0, RpbParts
<1>2. ASSUME cli.used \subseteq cli'.used, cli'.stmts \subseteq cli.stmts, cli'.rows \subseteq cli.rows PROVE HeldRpbs' /\ FreeRpbs'
  <2>1. OwnRows' \subseteq OwnRows
    BY <1>2 DEF OwnRows
  <2> QED BY <1>0, <1>1, <1>2, <2>1 DEF HeldRpbs, FreeRpbs, Rpb
<1>3. CASE BegunPlain
  <2>1. cli' = cli /\ op'.kind \in {"exec", "ping"} /\ U' = {}
    BY <1>3 DEF BegunPlain, Begun
  <2>2. ~Ready' /\ StaysPackage'
    BY <2>1 DEF Ready, StaysPackage, Holds
  <2> QED BY <1>2, <2>1, <2>2, RpbMade
<1>4. CASE \E q \in Queries, h \in Handles : Taken(h) /\ (BegunQuery(q, h) \/ BegunPrepare(q, h))
  <2>1. PICK q \in Queries, h \in Handles : Taken(h) /\ (BegunQuery(q, h) \/ BegunPrepare(q, h))
    BY <1>4
  <2>2. cli'.used = cli.used \cup {h} /\ h \notin cli.used /\ cli'.stmts = cli.stmts /\ cli'.rows = cli.rows
    BY <2>1, IdTaken
  <2>3. op'.h = h /\ op'.name = "own" /\ T' \cap {"prepare", "prepareOrReuse"} # {}
    <3>1. CASE BegunQuery(q, h)
      BY <3>1 DEF BegunQuery, Begun
    <3>2. CASE BegunPrepare(q, h)
      BY Zenon, <3>2 DEF BegunPrepare, Begun
    <3> QED BY <2>1, <3>1, <3>2
  <2>4. ~Ready'
    BY <2>3 DEF Ready
  <2>5. StaysPackage'
    BY Zenon, <1>0, <1>1, <2>1, <2>2, <2>3 DEF StaysPackage, FreeRpbs
  <2> QED BY <1>2, <2>2, <2>4, <2>5, RpbMade
<1>5. CASE \E s \in cli.stmts : BegunStmt(s)
  <2>1. PICK s \in cli.stmts : BegunStmt(s)
    BY <1>5
  <2>2. cli' = cli /\ U' = {} /\ op'.kind # "prepare" /\ op'.h = s.h /\ op'.q = s.q /\ op'.name = s.name
    BY <2>1 DEF BegunStmt, Begun
  <2>3. Rpb(op.h, op.q, op.name)'
    BY <1>0, <1>1, <2>1, <2>2 DEF HeldRpbs, Rpb
  <2>4. StaysPackage'
    BY <2>2 DEF StaysPackage, Holds
  <2> QED BY Zenon, <1>2, <2>2, <2>3, <2>4, RpbMade
<1>6. CASE \E s \in cli.stmts : ClosingStmt(s)
  <2>1. PICK s \in cli.stmts : ClosingStmt(s)
    BY <1>6
  <2>2. cli'.used = cli.used /\ cli'.stmts = cli.stmts \ {s} /\ cli'.rows = cli.rows
    BY <2>1, StmtTaken DEF ClosingStmt
  <2>3. op'.h = s.h /\ U' = {"closeStatement"} /\ op'.kind = "closeStmt" /\ op'.name = s.name
    BY <2>1 DEF ClosingStmt, Begun
  <2>4. ~Ready'
    BY <2>3 DEF Ready
  <2>5. StaysPackage'
    BY Zenon, <1>0, <1>1, <2>1, <2>3 DEF StaysPackage, HeldRpbs, Rpb
  <2> QED BY Zenon, <1>2, <2>2, <2>4, <2>5, RpbMade
<1>7. CASE \E r \in cli.rows : ClosingRows(r)
  <2>1. PICK r \in cli.rows : ClosingRows(r)
    BY Zenon, <1>7
  <2>2. cli'.used = cli.used /\ cli'.stmts = cli.stmts /\ cli'.rows = cli.rows \ {r}
    BY <2>1, RowTaken DEF ClosingRows
  <2>3. /\ op'.h = r.h /\ op'.kind = "closeRows" /\ op'.name = r.name
        /\ U' = {"closeCursor"} \cup (IF r.own THEN {"closeStatement"} ELSE {}) \cup {"releaseName"}
    BY <2>1 DEF ClosingRows, Begun
  <2>4. ~Ready'
    BY <2>3 DEF Ready
  <2>5. StaysPackage'
    <3>1. Holds' => r \in OwnRows
      BY <2>1, <2>3 DEF Holds, OwnRows
    <3> QED BY <1>0, <1>1, <2>3, <3>1 DEF StaysPackage, HeldRpbs
  <2> QED BY Zenon, <1>2, <2>2, <2>4, <2>5, RpbMade
<1> QED BY Zenon, <1>3, <1>4, <1>5, <1>6, <1>7 DEF BeginOutcome

LEMMA RpbStep ==
  ASSUME TypeInv, ControlInv, BatchInv, NameInv, PackageInv, IdsInv, RpbInv, [Next]_vars
  PROVE  RpbInv'
(* Only the prepare gets past the prepare. *)
<1>PrepareGoes. ASSUME StepOutcome, ~PrepareStep, err' = "none", T' \cap {"prepare", "prepareOrReuse"} = {}
                PROVE  T \cap {"prepare", "prepareOrReuse"} = {}
  <2> USE <1>PrepareGoes
  <2>0. op # None /\ valid /\ todo # <<>>
    BY Going
  <2>1. T = {Head(todo)} \cup Range(Tail(todo)) /\ \A b \in Range(Tail(todo)) : Follows(Head(todo), b)
    BY <2>0, Popped DEF TypeInv, ControlInv, T
  <2>2. CASE T = {Head(todo)} \cup T' /\ Continue
    <3>1. Head(todo) \notin {"prepare", "prepareOrReuse"}
      BY Zenon DEF StepOutcome, Stopped, Stops, Passed, Quiet, PackageKnown, PackageAsked, PrepareStep, SyncSkipped, Synced,
         NextDescriptorHandle, DescriptorChanged, OpenCursorName, Executed, ExecutedLob, ExecuteStopped, OpenedRows,
         OpenedKeys, OpenedNothing, OpenInterrupted, Fail, NextRows, Step
    <3> QED BY <2>2, <3>1
  <2>3. CASE ExecutedLob \/ NextRows
    <3>1. Head(todo) \in {"execute", "nextRows"}
      BY <2>3 DEF ExecutedLob, NextRows, Step
    <3> QED BY <2>1, <3>1 DEF Follows
  <2>4. CASE PackageAsked /\ T' = {"returnPackage"} \cup (T \ {"ensurePackage"})
    BY <2>4
  <2> QED BY <2>2, <2>3, <2>4, NextSteps
<1>RpbGoes. ASSUME StepOutcome
            PROVE  RpbInv'
  <2> USE <1>RpbGoes
  <2>0. /\ op # None /\ valid /\ op' # None /\ op'.kind = op.kind /\ op'.h = op.h /\ op'.q = op.q
        /\ Head(todo) \in T /\ cli'.used = cli.used /\ cli'.stmts = cli.stmts
    BY Going, StepOp, NextSteps, StepFrame
  <2>1. HeldRpbs /\ FreeRpbs /\ (Ready => Rpb(op.h, op.q, op.name)) /\ StaysPackage
    BY <2>0, RpbParts
  <2>2. (Holds' <=> Holds) /\ ~Handed
    BY HoldsGo
  <2>3. cli \in CliType /\ srv \in SrvType
    BY TypeParts
  <2>4. \A s \in cli.stmts : s.h \in Handles
    BY <2>3 DEF CliType, StmtsOf
  <2>5. \A r \in cli.rows : r.h \in Handles
    BY <2>3 DEF CliType, RowsOf
  <2>6. CASE PrepareStep
    <3>1. PICK x \in {"prepare", "prepareOrReuse"} : PrepareRejected(x) \/ \E n \in {"own", "package"} : Prepared(x, n)
      BY <2>6 DEF PrepareStep
    <3>2. Step(x) /\ x \in T /\ op.h \in Handles
      BY Zenon, <3>1, StepIn, StepHasId DEF PrepareRejected, Prepared
    <3>3. Holds /\ op.h \notin Base /\ op.h \in cli.used
      <4>1. Holds
        BY <2>0, <3>2 DEF IdsInv
      <4> QED BY <2>0, <2>2, <4>1, IdsParts
    <3>4. cli'.rows = cli.rows
      <4>1. OpenedRows => Head(todo) = "open"
        BY DEF OpenedRows, Step
      <4> QED BY Zenon, <3>2, <4>1, StepFrame DEF Step
    <3>5. OwnRows' = OwnRows
      BY <3>4 DEF OwnRows
    <3>6. ASSUME \A k \in Handles : k # op.h => srv'.rpb[k] = srv.rpb[k] PROVE HeldRpbs' /\ FreeRpbs'
      <4>1. (\A s \in cli.stmts : s.h # op.h) /\ \A r \in OwnRows : r.h # op.h
        BY <3>3 DEF Base
      <4>2. \A s \in cli.stmts : srv'.rpb[s.h] = srv.rpb[s.h]
        BY <2>4, <3>6, <4>1
      <4>3. \A r \in OwnRows : srv'.rpb[r.h] = srv.rpb[r.h]
        BY <2>5, <3>6, <4>1 DEF OwnRows
      <4>4. HeldRpbs'
        BY Zenon, <2>0, <2>1, <3>5, <4>2, <4>3 DEF HeldRpbs, Rpb
      <4>5. FreeRpbs'
        BY Zenon, <2>0, <2>1, <3>3, <3>6 DEF FreeRpbs
      <4> QED BY <4>4, <4>5
    <3>7. "releaseId" \notin U'
      BY <2>6, StepCalls
    <3>8. CASE PrepareRejected(x)
      <4>1. (\A k \in Handles : k # op.h => srv'.rpb[k] = srv.rpb[k]) /\ op' = op /\ err' = "sql"
        BY <3>8, RejectedRpb DEF PrepareRejected, Rejected
      <4>2. op.name = "own"
        BY <2>0, <3>2 DEF ControlInv
      <4>3. ~Ready' /\ StaysPackage'
        BY <3>7, <4>1, <4>2 DEF Ready, StaysPackage
      <4> QED BY <3>6, <4>1, <4>3, RpbMade
    <3>9. ASSUME NEW n \in {"own", "package"}, Prepared(x, n) PROVE RpbInv'
      <4>1. PICK packaged \in BOOLEAN :
              /\ NewRPB(op.q, n, packaged) \in RPBs
              /\ \A k \in Handles : srv'.rpb[k] = IF k = op.h THEN NewRPB(op.q, n, packaged) ELSE srv.rpb[k]
        BY <3>9, PreparedRpb
      <4>2. srv'.rpb[op.h] # None /\ srv'.rpb[op.h].sql = op.q /\ srv'.rpb[op.h].name = n
        <5>1. srv'.rpb[op.h] = NewRPB(op.q, n, packaged)
          BY <3>2, <4>1
        <5>2. NewRPB(op.q, n, packaged) # None
          BY <4>1, ExecAssumption
        <5> QED BY <5>1, <5>2 DEF NewRPB
      <4>3. op'.name = n
        BY <2>0, <3>9, OpType DEF Prepared, Operations
      <4>4. Rpb(op.h, op.q, op.name)' /\ StaysPackage'
        BY <2>0, <3>7, <4>2, <4>3 DEF Rpb, StaysPackage
      <4> QED BY Zenon, <3>6, <4>1, <4>4, RpbMade
    <3> QED BY <3>1, <3>8, <3>9
  <2>7. ASSUME ~PrepareStep
        PROVE  /\ Ready' => Ready
               /\ op'.name = op.name
               /\ "releaseId" \in U' => "releaseId" \in U
    <3>1. op'.name = op.name /\ ("releaseId" \in U' => "releaseId" \in U)
      BY <2>7, StepOp, StepCalls
    <3>2. ASSUME Ready' PROVE Ready
      <4>1. err' = "none" /\ T' \cap {"prepare", "prepareOrReuse"} = {}
        BY <3>2 DEF Ready
      <4>2. err = "none" /\ T \cap {"prepare", "prepareOrReuse"} = {}
        BY <2>7, <4>1, NoError, <1>PrepareGoes
      <4> QED BY <2>0, <3>2, <4>2 DEF Ready, Active
    <3> QED BY <3>1, <3>2
  <2>8. CASE Synced
    <3>1. ~PrepareStep /\ ~OpenedRows
      BY <2>8 DEF Synced, PrepareStep, PrepareRejected, Prepared, OpenedRows, Step
    <3>2. op' = op /\ op.h \in Handles /\ cli'.rows = cli.rows
      BY <2>8, <3>1, StepHasId, StepFrame DEF Synced
    <3>3. \A k \in Handles : /\ srv'.rpb[k] = None <=> srv.rpb[k] = None
                             /\ srv.rpb[k] # None => srv'.rpb[k].sql = srv.rpb[k].sql /\ srv'.rpb[k].name = srv.rpb[k].name
      BY <2>8, <3>2, SyncedRpb
    <3>4. OwnRows' = OwnRows
      BY <3>2 DEF OwnRows
    <3>5. HeldRpbs'
      <4>1. \A r \in OwnRows : r.h \in Handles
        BY <2>5 DEF OwnRows
      <4> QED BY <2>0, <2>1, <2>4, <3>3, <3>4, <4>1 DEF HeldRpbs, Rpb
    <3>6. FreeRpbs'
      BY <2>0, <2>1, <3>3 DEF FreeRpbs
    <3>7. (Ready' => Rpb(op.h, op.q, op.name)') /\ StaysPackage'
      BY Zenon, <2>1, <2>2, <2>7, <3>1, <3>2, <3>3 DEF Rpb, StaysPackage
    <3> QED BY <3>5, <3>6, <3>7, RpbMade
  <2>9. CASE ~PrepareStep /\ ~Synced
    <3>1. srv'.rpb = srv.rpb
      BY <2>9, StepFrame
    <3>2. (Ready' => Rpb(op.h, op.q, op.name)') /\ StaysPackage'
      BY Zenon, <2>0, <2>1, <2>2, <2>7, <2>9, <3>1 DEF Rpb, StaysPackage
    <3>3. FreeRpbs'
      BY Zenon, <2>0, <2>1, <3>1 DEF FreeRpbs
    <3>4. \A r \in OwnRows' : srv.rpb[r.h] # None /\ srv.rpb[r.h].name = r.name
      <4>1. CASE OpenedRows
        <5>1. Step("open") /\ cli' = [cli EXCEPT !.rows = cli.rows \cup {NewRow}]
          BY <4>1 DEF OpenedRows
        <5>2. cli'.rows = cli.rows \cup {NewRow}
          BY <2>3, <5>1 DEF CliType
        <5>3. OwnRows' \subseteq OwnRows \cup {NewRow}
          BY <5>2 DEF OwnRows
        <5>4. Ready
          BY <2>0, <5>1, OpenTop DEF Ready, Active
        <5>5. srv.rpb[NewRow.h] # None /\ srv.rpb[NewRow.h].name = NewRow.name
          BY <2>1, <5>4 DEF NewRow, Rpb
        <5> HIDE DEF NewRow
        <5> QED BY <2>1, <5>3, <5>5 DEF HeldRpbs
      <4>2. CASE ~OpenedRows
        <5>1. OwnRows' = OwnRows
          BY <4>2, StepFrame DEF OwnRows
        <5> QED BY <2>1, <5>1 DEF HeldRpbs
      <4> QED BY <4>1, <4>2
    <3>5. HeldRpbs'
      BY Zenon, <2>0, <2>1, <3>1, <3>4 DEF HeldRpbs, Rpb
    <3> QED BY <3>2, <3>3, <3>5, RpbMade
  <2> QED BY <2>6, <2>8, <2>9
<1>RpbBack. ASSUME NEW x \in Calls, Undone(x), UndoneThere(x)
            PROVE  RpbInv'
  <2> USE <1>RpbBack
  <2>0. /\ op # None /\ valid /\ op' # None /\ U = {x} \cup U' /\ (\A b \in U' : Follows(x, b)) /\ T = {} /\ x \in U
        /\ (x # "rowsDone" => T' = {}) /\ err' = err /\ op'.kind = op.kind /\ op'.h = op.h /\ op'.q = op.q
        /\ op'.name = op.name /\ cli'.stmts = cli.stmts /\ cli'.rows = cli.rows
        /\ cli'.used = IF GivesUp(x) \/ x = "releaseId" THEN cli.used \ {op.h} ELSE cli.used
    BY DEF Undone, UndoneOp
  <2>1. HeldRpbs /\ FreeRpbs /\ (Ready => Rpb(op.h, op.q, op.name)) /\ StaysPackage
    BY <2>0, RpbParts
  <2>2. \A h \in Handles : srv'.rpb[h] = IF GivesUp(x) /\ op.name # "package" /\ h = op.h THEN None ELSE srv.rpb[h]
    BY DEF UndoneThere
  <2>3. cli \in CliType
    BY TypeParts
  <2>4. (\A s \in cli.stmts : s.h \in Handles) /\ \A r \in OwnRows : r.h \in Handles
    BY <2>3 DEF CliType, StmtsOf, RowsOf, OwnRows
  <2>5. OwnRows' = OwnRows
    BY <2>0, BaseKept
  <2>6. CASE GivesUp(x) \/ x = "releaseId"
    <3>1. /\ Holds /\ ~Handed /\ ~Holds'
          /\ ~(op.kind = "prepare" /\ err = "none") /\ U' \subseteq {"releaseName"} /\ T' = {}
      BY <2>6, IdGivenUp
    <3>2. op.h \notin Base
      BY <2>0, <3>1, IdsParts
    <3>3. (\A s \in cli.stmts : s.h # op.h) /\ \A r \in OwnRows : r.h # op.h
      BY <3>2 DEF Base
    <3>4. HeldRpbs'
      <4>1. (\A s \in cli.stmts : srv'.rpb[s.h] = srv.rpb[s.h]) /\ \A r \in OwnRows : srv'.rpb[r.h] = srv.rpb[r.h]
        BY <2>2, <2>4, <3>3
      <4> QED BY Zenon, <2>0, <2>1, <2>5, <4>1 DEF HeldRpbs, Rpb
    <3>5. ASSUME NEW h \in Handles, h \notin cli'.used, srv'.rpb[h] # None PROVE srv'.rpb[h].name = "package"
      <4>1. CASE h = op.h
        <5>1. srv'.rpb[h] = srv.rpb[h] /\ (op.name = "package" \/ "releaseId" \in U)
          BY <2>0, <2>2, <2>6, <3>5, <4>1
        <5> QED BY <2>1, <3>1, <3>5, <4>1, <5>1 DEF StaysPackage
      <4>2. CASE h # op.h
        <5>1. srv'.rpb[h] = srv.rpb[h] /\ h \notin cli.used
          BY <2>0, <2>2, <3>5, <4>2
        <5> QED BY <2>1, <3>5, <5>1 DEF FreeRpbs
      <4> QED BY <4>1, <4>2
    <3>6. FreeRpbs'
      BY <3>5 DEF FreeRpbs
    <3>7. ~Ready' /\ StaysPackage'
      BY <2>0, <3>1 DEF Ready, Active, StaysPackage
    <3> QED BY <3>4, <3>6, <3>7, RpbMade
  <2>7. CASE ~GivesUp(x) /\ x # "releaseId"
    <3>1. (\A h \in Handles : srv'.rpb[h] = srv.rpb[h]) /\ cli'.used = cli.used
      BY <2>0, <2>2, <2>7
    <3>2. HeldRpbs'
      <4>1. (\A s \in cli.stmts : srv'.rpb[s.h] = srv.rpb[s.h]) /\ \A r \in OwnRows : srv'.rpb[r.h] = srv.rpb[r.h]
        BY <2>4, <3>1
      <4> QED BY <2>0, <2>1, <2>5, <4>1 DEF HeldRpbs, Rpb
    <3>3. FreeRpbs'
      BY <2>1, <3>1 DEF FreeRpbs
    <3>4. op.h \in Handles
      BY <2>0, <2>7, UndoHasId DEF Calls
    <3>5. srv'.rpb[op.h] = srv.rpb[op.h]
      BY <3>1, <3>4
    <3>6. ASSUME Ready' PROVE Ready
      <4>1. CASE x = "releaseName"
        <5>1. U' = {} /\ T' = {}
          BY <2>0, <4>1 DEF Follows
        <5> QED BY <2>0, <3>6, <5>1 DEF Ready, Active
      <4>2. CASE x # "releaseName"
        BY <2>0, <3>6, <4>2 DEF Ready, Active
      <4> QED BY <4>1, <4>2
    <3>7. (Ready' => Rpb(op.h, op.q, op.name)') /\ StaysPackage'
      <4>1. (Holds' => Holds) /\ ("releaseId" \in U' => "releaseId" \in U)
        BY <2>0 DEF Holds
      <4> QED BY <2>0, <2>1, <3>5, <3>6, <4>1 DEF Rpb, StaysPackage
    <3> QED BY <3>2, <3>3, <3>7, RpbMade
  <2> QED BY <2>6, <2>7
<1>1. CASE Begin
  BY <1>1, BeginCases, RpbBegin
<1>2. CASE Steps
  BY <1>2, StepCases, <1>RpbGoes
<1>3. CASE Cleanup
  <2>1. PICK x \in Calls : Undone(x) /\ (valid' => UndoneThere(x))
    BY <1>3, UndoCases, UndoFrame
  <2>2. CASE valid'
    BY <2>1, <2>2, <1>RpbBack
  <2>3. CASE ~valid'
    BY <2>3 DEF RpbInv
  <2> QED BY <2>2, <2>3
<1>4. CASE Return
  <2>1. /\ op # None /\ valid /\ op' = None /\ srv' = srv /\ T = {} /\ U = {}
        /\ cli'.used = cli.used /\ cli'.rows = cli.rows
        /\ cli'.stmts = IF op.kind = "prepare" /\ err = "none"
                        THEN cli.stmts \cup {[q |-> op.q, h |-> op.h, name |-> op.name]} ELSE cli.stmts
    BY <1>4, ReturnFrame
  <2>2. HeldRpbs /\ FreeRpbs /\ (Ready => Rpb(op.h, op.q, op.name))
    BY <2>1, RpbParts
  <2>3. ~Ready' /\ StaysPackage' /\ OwnRows' = OwnRows
    BY <2>1 DEF Ready, StaysPackage, Holds, OwnRows
  <2>4. FreeRpbs'
    BY <2>1, <2>2 DEF FreeRpbs
  <2>5. \A s \in cli'.stmts : Rpb(s.h, s.q, s.name)
    <3>1. CASE op.kind = "prepare" /\ err = "none"
      <4> DEFINE s == [q |-> op.q, h |-> op.h, name |-> op.name]
      <4>1. cli'.stmts = cli.stmts \cup {s} /\ s.h = op.h /\ s.q = op.q /\ s.name = op.name
        BY <2>1, <3>1
      <4> HIDE DEF s
      <4>2. Ready
        BY <2>1, <3>1 DEF Ready, Active
      <4> QED BY <2>2, <4>1, <4>2 DEF HeldRpbs
    <3>2. CASE ~(op.kind = "prepare" /\ err = "none")
      BY <2>1, <2>2, <3>2 DEF HeldRpbs
    <3> QED BY <3>1, <3>2
  <2>6. HeldRpbs'
    BY <2>1, <2>2, <2>3, <2>5 DEF HeldRpbs, Rpb
  <2> QED BY <2>3, <2>4, <2>6, RpbMade
<1>5. CASE Replace
  <2>1. op' = None /\ cli'.rows = {} /\ cli'.stmts = {} /\ \A h \in Handles : srv'.rpb[h] = None
    BY <1>5 DEF Replace, NewConn, NewJob
  <2>2. OwnRows' = {}
    BY <2>1 DEF OwnRows
  <2>3. HeldRpbs' /\ FreeRpbs' /\ ~Ready' /\ StaysPackage'
    BY <2>1, <2>2 DEF HeldRpbs, FreeRpbs, Ready, StaysPackage, Holds
  <2> QED BY <2>3, RpbMade
<1>6. CASE CtxEnds \/ UNCHANGED vars
  <2>1. UNCHANGED <<valid, op, todo, undo, err, cli, srv>>
    BY <1>6 DEF CtxEnds, vars, data
  <2>2. T' = T /\ U' = U /\ OwnRows' = OwnRows
    BY <2>1 DEF T, U, OwnRows
  <2>3. (Holds' <=> Holds) /\ (Active' <=> Active)
    BY <2>1, <2>2 DEF Holds, Active
  <2> QED BY <2>1, <2>2, <2>3 DEF RpbInv
<1> HIDE DEF RpbInv
<1> QED BY <1>1, <1>2, <1>3, <1>4, <1>5, <1>6 DEF Next

-----------------------------------------------------------------------------
(* The package.                                                            *)
Untouched == cfg.extended /\ ~pkg.created => \A h \in Handles : srv.rpb[h] = None

Settled ==
  op # None /\ T \cap {"prepare", "prepareOrReuse"} # {} /\ T \cap {"ensurePackage", "returnPackage"} = {}
    => ~cfg.extended \/ pkg.created

Asking == op # None /\ "returnPackage" \in T => cfg.extended /\ ~pkg.created

Marked == \A h \in Handles : srv.rpb[h] # None /\ srv.rpb[h].sql # None => (srv.rpb[h].packaged <=> pkg.enabled /\ cli.packaged[h])

LEMMA PackageParts ==
  ASSUME PackageInv, valid
  PROVE  (~cfg.extended => ~pkg.enabled) /\ Untouched /\ Settled /\ Asking /\ Marked
BY DEF PackageInv, Untouched, Settled, Asking, Marked

LEMMA PackageMade ==
  ASSUME ~cfg'.extended => ~pkg'.enabled, Untouched', Settled', Asking', Marked'
  PROVE  PackageInv'
BY DEF PackageInv, Untouched, Settled, Asking, Marked

LEMMA PackageStep ==
  ASSUME TypeInv, ControlInv, BatchInv, NameInv, PackageInv, [Next]_vars
  PROVE  PackageInv'
<1>PackageChanges. ASSUME StepOutcome
                   PROVE  \/ pkg' = pkg /\ Head(todo) \notin {"ensurePackage", "returnPackage"}
                          \/ \E x \in {"ensurePackage", "returnPackage"} : PackageKnown(x)
                          \/ PackageAsked
                          \/ Stopped
  BY Zenon, <1>PackageChanges DEF StepOutcome, Passed, PackageAsked, Prepared, PrepareRejected, SyncSkipped, Synced, DescriptorChanged,
     NextDescriptorHandle, OpenCursorName, Executed, ExecutedLob, ExecuteStopped, OpenedRows, OpenedKeys, OpenedNothing,
     OpenInterrupted, NextRows, Step, data, Quiet
(* The statement of a prepare is noted as the RPB says. *)
<1>PrepareNotes. ASSUME PrepareStep, Marked
                 PROVE  Marked'
  <2> USE <1>PrepareNotes
  <2>1. PICK x \in {"prepare", "prepareOrReuse"} : PrepareRejected(x) \/ \E n \in {"own", "package"} : Prepared(x, n)
    BY DEF PrepareStep
  <2>2. Step(x) /\ NoteForPrepare(op.h, op.q) /\ pkg' = pkg
    BY Zenon, <2>1 DEF PrepareRejected, Prepared
  <2>3. op.h \in Handles /\ cli \in CliType
    BY <2>2, StepHasId, TypeParts
  <2>4. \A h \in Handles : h # op.h => cli'.packaged[h] = cli.packaged[h]
    BY <2>2, <2>3 DEF NoteForPrepare, CliType
  <2>5. pkg.enabled => (cli'.packaged[op.h] <=> packageCriteriaMatches(op.q))
    BY <2>2, <2>3 DEF NoteForPrepare, CliType
  <2>6. CASE PrepareRejected(x)
    <3>1. \A k \in Handles : srv'.rpb[k] = IF k = op.h THEN NewRPB(None, "own", FALSE) ELSE srv.rpb[k]
      BY Zenon, <2>6, RejectedRpb
    <3>2. srv'.rpb[op.h].sql = None
      BY <2>3, <3>1 DEF NewRPB
    <3>3. \A k \in Handles : k # op.h => srv'.rpb[k] = srv.rpb[k]
      BY Zenon, <3>1
    <3> QED BY <2>2, <2>4, <3>2, <3>3 DEF Marked
  <2>7. ASSUME NEW n \in {"own", "package"}, Prepared(x, n) PROVE Marked'
    <3>1. PICK packaged \in BOOLEAN :
            /\ packaged <=> specForPrepare(op.q)
            /\ \A k \in Handles : srv'.rpb[k] = IF k = op.h THEN NewRPB(op.q, n, packaged) ELSE srv.rpb[k]
      BY <2>7, PreparedRpb
    <3>2. srv'.rpb[op.h].packaged = packaged
      BY <2>3, <3>1 DEF NewRPB
    <3>3. \A k \in Handles : k # op.h => srv'.rpb[k] = srv.rpb[k]
      BY <3>1
    <3>4. srv'.rpb[op.h].packaged <=> pkg.enabled /\ cli'.packaged[op.h]
      BY <2>5, <3>1, <3>2 DEF specForPrepare
    <3> QED BY <2>2, <2>4, <3>3, <3>4 DEF Marked
  <2> QED BY <2>1, <2>6, <2>7
<1>PackageGoes. ASSUME StepOutcome
                PROVE  PackageInv'
  <2> USE <1>PackageGoes
  <2>0. op # None /\ valid /\ op' # None /\ todo # <<>> /\ cfg' = cfg /\ Head(todo) \in T
    BY Going, StepOp, NextSteps, StepFrame
  <2>1. (~cfg.extended => ~pkg.enabled) /\ Untouched /\ Settled /\ Asking /\ Marked
    BY <2>0, PackageParts
  <2>2. CASE PackageLearned /\ srv' = srv /\ pkg' # pkg
    <3>1. \A h \in Handles : srv'.rpb[h] = None
      BY <2>1, <2>2 DEF PackageLearned, Untouched
    <3>2. Untouched' /\ Marked' /\ (~cfg'.extended => ~pkg'.enabled)
      BY <2>0, <2>2, <3>1 DEF PackageLearned, Untouched, Marked
    <3>3. CASE Stopped
      <4>1. T' \subseteq {"message"}
        BY <3>3, StopsAt DEF Stopped
      <4>2. Settled' /\ Asking'
        BY <4>1 DEF Settled, Asking
      <4> QED BY <3>2, <4>2, PackageMade
    <3>4. ASSUME NEW x \in {"ensurePackage", "returnPackage"}, PackageKnown(x), pkg' # pkg PROVE PackageInv'
      <4>1. \A b \in T' : Follows(x, b)
        BY <3>4, Went DEF PackageKnown
      <4>2. "returnPackage" \notin T' /\ pkg'.created
        BY <3>4, <4>1 DEF Follows, PackageKnown
      <4>3. Settled' /\ Asking'
        BY <4>2 DEF Settled, Asking
      <4> QED BY <3>2, <4>3, PackageMade
    <3> QED BY <2>2, <3>3, <3>4, <1>PackageChanges DEF PackageAsked
  <2>3. CASE pkg' = pkg
    <3>1. Untouched'
      <4>1. CASE PrepareStep
        <5>1. PICK x \in {"prepare", "prepareOrReuse"} : Step(x)
          BY Zenon, <4>1 DEF PrepareStep, Prepared, PrepareRejected
        <5>2. T = {x} \cup Range(Tail(todo)) /\ \A b \in Range(Tail(todo)) : Follows(x, b)
          BY <5>1, Popped DEF Step, TypeInv, ControlInv, T
        <5>3. T \cap {"ensurePackage", "returnPackage"} = {}
          BY <5>2 DEF Follows
        <5> QED BY Zenon, <2>0, <2>1, <2>3, <5>2, <5>3 DEF Settled, Untouched
      <4>2. CASE Synced
        BY <2>0, <2>1, <2>3, <4>2, SyncedRpb DEF Untouched
      <4>3. CASE ~PrepareStep /\ ~Synced
        BY <2>0, <2>1, <2>3, <4>3, StepFrame DEF Untouched
      <4> QED BY <4>1, <4>2, <4>3
    <3>2. Marked'
      <4>1. CASE PrepareStep
        BY <2>1, <4>1, <1>PrepareNotes
      <4>2. CASE Synced
        <5>1. ~PrepareStep /\ op.h \in Handles
          BY <4>2, StepHasId DEF Synced, PrepareStep, PrepareRejected, Prepared, Step
        <5>2. cli'.packaged = cli.packaged
          BY <5>1, StepFrame
        <5>3. \A k \in Handles : /\ srv'.rpb[k] # None => srv.rpb[k] # None
                                 /\ srv.rpb[k] # None => srv'.rpb[k].sql = srv.rpb[k].sql /\ srv'.rpb[k].packaged = srv.rpb[k].packaged
          BY <4>2, <5>1, SyncedRpb
        <5> QED BY <2>1, <2>3, <5>2, <5>3 DEF Marked
      <4>3. CASE ~PrepareStep /\ ~Synced
        <5>1. srv'.rpb = srv.rpb /\ cli'.packaged = cli.packaged
          BY <4>3, StepFrame
        <5> QED BY <2>1, <2>3, <5>1 DEF Marked
      <4> QED BY <4>1, <4>2, <4>3
    <3>3. Asking'
      <4>1. CASE PackageAsked
        BY <2>3, <4>1 DEF PackageAsked, Asking
      <4>2. CASE ~PackageAsked
        <5>1. "returnPackage" \in T' => "returnPackage" \in T
          BY <4>2, NextSteps, NextList
        <5> QED BY <2>0, <2>1, <2>3, <5>1 DEF Asking
      <4> QED BY <4>1, <4>2
    <3>4. Settled'
      <4>0. SUFFICES ASSUME T' \cap {"prepare", "prepareOrReuse"} # {}, T' \cap {"ensurePackage", "returnPackage"} = {}
                     PROVE  ~cfg.extended \/ pkg.created
        BY <2>0, <2>3 DEF Settled
      <4>1. T \cap {"prepare", "prepareOrReuse"} # {}
        BY <4>0, StepsLeft
      <4>2. CASE T \cap {"ensurePackage", "returnPackage"} = {}
        BY <2>0, <2>1, <4>1, <4>2 DEF Settled
      <4>3. CASE T \cap {"ensurePackage", "returnPackage"} # {}
        <5>0. ~PackageAsked
          <6>1. ASSUME PackageAsked PROVE "returnPackage" \in T'
            <7>1. /\ Tail(todo) \in Seq(Names) /\ Ordered(Tail(todo))
                  /\ \A b \in Range(Tail(todo)) : Follows("ensurePackage", b)
              BY <6>1, Popped DEF PackageAsked, Step, TypeInv, ControlInv
            <7>2. "returnPackage" \in Names /\ \A b \in Range(Tail(todo)) : Follows("returnPackage", b)
              BY <7>1 DEF Follows, Names
            <7> QED BY Zenon, <6>1, <7>1, <7>2, Pushed DEF PackageAsked, T
          <6> QED BY <4>0, <6>1
        <5>1. Head(todo) \in {"ensurePackage", "returnPackage"}
          <6>1. ~NextRows
            BY <4>0, NextList
          <6> QED BY <4>0, <4>3, <5>0, <6>1, NextSteps
        <5>2. ~Stopped
          BY <4>0, StopsAt DEF Stopped
        <5>3. PICK x \in {"ensurePackage", "returnPackage"} : PackageKnown(x)
          BY <5>0, <5>1, <5>2, <1>PackageChanges
        <5> QED BY <2>3, <5>3 DEF PackageKnown
      <4> QED BY <4>2, <4>3
    <3> QED BY <2>0, <2>1, <2>3, <3>1, <3>2, <3>3, <3>4, PackageMade
  <2>4. (PackageLearned /\ srv' = srv) \/ pkg' = pkg
    BY <1>PackageChanges DEF PackageKnown, PackageAsked, Stopped
  <2> QED BY <2>2, <2>3, <2>4
<1>1. CASE Begin
  <2>0. BeginOutcome
    BY <1>1, BeginCases
  <2>1. op = None /\ valid /\ UNCHANGED <<cfg, pkg, srv>> /\ cli'.packaged = cli.packaged
    BY <2>0, BeginFrame
  <2>2. (~cfg.extended => ~pkg.enabled) /\ Untouched /\ Marked
    BY <2>1, PackageParts
  <2>3. "returnPackage" \notin T' /\ (T' \cap {"prepare", "prepareOrReuse"} # {} => "ensurePackage" \in T')
    <3>1. CASE BegunPlain
      BY <3>1 DEF BegunPlain
    <3>2. ASSUME NEW q, NEW h, BegunQuery(q, h) PROVE "returnPackage" \notin T' /\ "ensurePackage" \in T'
      BY <3>2 DEF BegunQuery
    <3>3. ASSUME NEW q, NEW h, BegunPrepare(q, h) PROVE "returnPackage" \notin T' /\ "ensurePackage" \in T'
      BY <3>3 DEF BegunPrepare, Binding
    <3>4. ASSUME NEW s, BegunStmt(s) PROVE T' \cap {"returnPackage", "prepare", "prepareOrReuse"} = {}
      BY <3>4 DEF BegunStmt, Binding
    <3>5. ASSUME NEW s, ClosingStmt(s) \/ ClosingRows(s) PROVE T' = {}
      BY <3>5 DEF ClosingStmt, ClosingRows
    <3> QED BY <2>0, <3>1, <3>2, <3>3, <3>4, <3>5 DEF BeginOutcome
  <2>4. Untouched' /\ Marked' /\ Settled' /\ Asking'
    BY <2>1, <2>2, <2>3 DEF Untouched, Marked, Settled, Asking
  <2> QED BY <2>1, <2>2, <2>4, PackageMade
<1>2. CASE Steps
  BY <1>2, StepCases, <1>PackageGoes
<1>3. CASE Cleanup
  <2>1. PICK x \in Calls : Undone(x) /\ (valid' => UndoneThere(x))
    BY <1>3, UndoCases, UndoFrame
  <2>2. valid /\ cfg' = cfg /\ pkg' = pkg /\ T' \subseteq {"nextRows"} /\ cli'.packaged = cli.packaged
    BY <2>1 DEF Undone, UndoneOp
  <2>3. (~cfg.extended => ~pkg.enabled) /\ Untouched /\ Marked
    BY <2>2, PackageParts
  <2>4. CASE valid'
    <3>1. \A h \in Handles : srv'.rpb[h] = None \/ srv'.rpb[h] = srv.rpb[h]
      BY <2>1, <2>4 DEF UndoneThere
    <3>2. Untouched' /\ Marked' /\ Settled' /\ Asking'
      BY <2>2, <2>3, <3>1 DEF Untouched, Marked, Settled, Asking
    <3> QED BY <2>2, <2>3, <3>2, PackageMade
  <2>5. CASE ~valid'
    BY <2>5 DEF PackageInv
  <2> QED BY <2>4, <2>5
<1>4. CASE Return
  <2>1. valid /\ op' = None /\ UNCHANGED <<cfg, pkg, srv>> /\ cli'.packaged = cli.packaged
    BY <1>4, ReturnFrame
  <2>2. (~cfg.extended => ~pkg.enabled) /\ Untouched /\ Marked
    BY <2>1, PackageParts
  <2>3. Untouched' /\ Marked' /\ Settled' /\ Asking'
    BY <2>1, <2>2 DEF Untouched, Marked, Settled, Asking
  <2> QED BY <2>1, <2>2, <2>3, PackageMade
<1>5. CASE Replace
  <2>1. op' = None /\ cfg' = cfg /\ pkg'.enabled = cfg.extended /\ \A h \in Handles : srv'.rpb[h] = None
    BY <1>5 DEF Replace, NewPackageState, NewJob
  <2>2. Untouched' /\ Marked' /\ Settled' /\ Asking'
    BY <2>1 DEF Untouched, Marked, Settled, Asking
  <2> QED BY <2>1, <2>2, PackageMade
<1>6. CASE CtxEnds \/ UNCHANGED vars
  <2>1. UNCHANGED <<valid, cfg, op, todo, pkg, cli, srv>>
    BY <1>6 DEF CtxEnds, vars, data
  <2> QED BY <2>1 DEF PackageInv, T
<1> HIDE DEF PackageInv
<1> QED BY <1>1, <1>2, <1>3, <1>4, <1>5, <1>6 DEF Next

-----------------------------------------------------------------------------
(* The limit.                                                              *)
Noted == \A h \in Handles : srv.rpb[h] # None /\ srv.rpb[h].limit # 0 => cli.timeouts[h] = 1

NeverSet == ~cfg.qqrytimlmt => \A h \in Handles : cli.timeouts[h] # 1

Unlimited ==
  op # None /\ op.limit = 0 /\ ~(op.kind = "batch" /\ cfg.blocks) /\ op.h \in Handles
    => SyncFirst(todo) \/ cli.timeouts[op.h] # 1

LEMMA LimitParts ==
  ASSUME LimitInv, valid
  PROVE  Noted /\ NeverSet /\ Unlimited
BY DEF LimitInv, Noted, NeverSet, Unlimited

LEMMA LimitMade ==
  ASSUME Noted', NeverSet', Unlimited'
  PROVE  LimitInv'
BY DEF LimitInv, Noted, NeverSet, Unlimited

LEMMA SyncPopped ==
  ASSUME NEW s \in Seq(Names), s # <<>>, SyncFirst(s), Head(s) # "sync"
  PROVE  SyncFirst(Tail(s)) /\ Head(s) \notin Runs
<1>1. Len(s) \in Nat /\ Len(s) # 0 /\ Head(s) = s[1]
  OBVIOUS
<1>2. Len(Tail(s)) = Len(s) - 1 /\ \A i \in 1..(Len(s) - 1) : Tail(s)[i] = s[i + 1]
  OBVIOUS
<1>3. s[1] \notin Runs
  BY <1>1 DEF SyncFirst
<1>4. ASSUME NEW i \in 1..Len(Tail(s)), Tail(s)[i] \in Runs PROVE \E j \in 1..(i - 1) : Tail(s)[j] = "sync"
  <2>1. i + 1 \in 1..Len(s) /\ s[i + 1] \in Runs
    BY <1>1, <1>2, <1>4
  <2>2. PICK j \in 1..i : s[j] = "sync"
    BY <2>1 DEF SyncFirst
  <2>3. j # 1
    BY <1>1, <2>2
  <2>4. j - 1 \in 1..(i - 1) /\ j - 1 \in 1..(Len(s) - 1)
    BY <1>1, <1>2, <2>2, <2>3
  <2>5. Tail(s)[j - 1] = "sync"
    BY <1>2, <2>2, <2>4
  <2> QED BY Zenon, <2>4, <2>5
<1> QED BY <1>1, <1>3, <1>4 DEF SyncFirst

LEMMA LimitStep ==
  ASSUME TypeInv, ControlInv, BatchInv, NameInv, PackageInv, LimitInv, [Next]_vars
  PROVE  LimitInv'
<1>SyncGoes. ASSUME StepOutcome, ~Synced, ~SyncSkipped, ~(op.kind = "batch" /\ cfg.blocks), SyncFirst(todo)
             PROVE  SyncFirst(todo')
  <2> USE <1>SyncGoes
  <2>0. /\ op # None /\ todo # <<>> /\ todo \in Seq(Names) /\ Ordered(todo)
        /\ Tail(todo) \in Seq(Names)
    BY Going, Popped DEF TypeInv, ControlInv
  <2>1. CASE Continue /\ ~Stops
    <3>1. Head(todo) # "sync"
      BY Zenon, <2>0, <2>1 DEF StepOutcome, Stopped, Passed, Quiet, PackageKnown, PackageAsked, Prepared, PrepareRejected, Rejected, Stops,
         NextDescriptorHandle, DescriptorChanged, OpenCursorName, Executed, ExecutedLob, ExecuteStopped, OpenedRows,
         OpenedKeys, OpenedNothing, OpenInterrupted, Fail, NextRows, Step
    <3> QED BY <2>0, <2>1, <3>1, SyncPopped DEF Continue
  <2>2. CASE PackageAsked
    <3>1. Head(todo) = "ensurePackage" /\ todo' = <<"returnPackage">> \o Tail(todo)
      BY <2>2 DEF PackageAsked, Step
    <3>2. SyncFirst(Tail(todo))
      BY <2>0, <3>1, SyncPopped
    <3>3. <<"returnPackage">> \in Seq(Names) /\ Range(<<"returnPackage">>) = {"returnPackage"}
      BY Single DEF Names
    <3>4. SyncFirst(<<"returnPackage">>)
      BY <3>3, SyncNone DEF Runs
    <3> QED BY Zenon, <2>0, <3>1, <3>2, <3>3, <3>4, SyncJoined
  <2>3. CASE Stops
    <3>1. todo' \in Seq(Names) /\ T' \subseteq {"message"}
      BY <2>3, StopsAt
    <3> QED BY <3>1, SyncNone DEF T, Runs
  <2>4. CASE ExecutedLob
    <3>1. todo' \in Seq(Names) /\ T' = {"lobLength", "lobData"}
      BY <2>4, Literals DEF ExecutedLob, Lists, T
    <3> QED BY <3>1, SyncNone DEF T, Runs
  <2>5. CASE NextRows
    <3>1. StepOf(op.kind, "nextRows")
      BY <2>0, <2>5, StepIn, Belongs DEF NextRows
    <3>2. op.kind = "batch"
      BY <3>1 DEF StepOf, Preparing, Binding
    <3> QED BY <2>5, <3>2, NextList
  <2>6. Continue \/ PackageAsked \/ Stops \/ ExecutedLob \/ NextRows
    BY Zenon DEF StepOutcome, Stopped, Passed, PackageKnown, Prepared, PrepareRejected, SyncSkipped, Synced,
       DescriptorChanged, NextDescriptorHandle, OpenCursorName, Executed, ExecuteStopped, OpenedRows,
       OpenedKeys, OpenedNothing, OpenInterrupted, Rejected, Fail, Stops
  <2> QED BY <2>1, <2>2, <2>3, <2>4, <2>5, <2>6
<1>LimitGoes. ASSUME StepOutcome
              PROVE  LimitInv'
  <2> USE <1>LimitGoes
  <2>0. /\ op # None /\ valid /\ op' # None /\ op'.kind = op.kind /\ op'.h = op.h /\ op'.limit = op.limit /\ cfg' = cfg
        /\ cli \in CliType
    BY Going, StepOp, StepFrame, TypeParts
  <2>1. Noted /\ NeverSet /\ Unlimited
    BY <2>0, LimitParts
  <2>2. CASE Synced
    <3>1. op.h \in Handles /\ cfg.qqrytimlmt /\ op.limit \in 0..1
      BY <2>0, <2>2, StepHasId, OpFields DEF Synced
    <3>2. /\ cli'.timeouts[op.h] = IF op.limit = 0 THEN -1 ELSE op.limit
          /\ \A h \in Handles : h # op.h => cli'.timeouts[h] = cli.timeouts[h]
      BY <2>0, <2>2, <3>1 DEF Synced, Wanted, CliType
    <3>3. /\ \A k \in Handles : k # op.h \/ srv.rpb[k] = None => srv'.rpb[k] = srv.rpb[k]
          /\ srv.rpb[op.h] # None => srv'.rpb[op.h].limit = op.limit
      BY <2>2, SyncedRpb
    <3>4. Noted'
      <4>1. ASSUME NEW h \in Handles, srv'.rpb[h] # None, srv'.rpb[h].limit # 0 PROVE cli'.timeouts[h] = 1
        <5>1. CASE h = op.h
          <6>1. srv.rpb[op.h] # None /\ srv'.rpb[op.h].limit = op.limit
            BY <3>3, <4>1, <5>1
          <6> QED BY <3>1, <3>2, <4>1, <5>1, <6>1
        <5>2. CASE h # op.h
          BY <2>1, <3>2, <3>3, <4>1, <5>2 DEF Noted
        <5> QED BY <5>1, <5>2
      <4> QED BY <4>1 DEF Noted
    <3>5. NeverSet' /\ Unlimited'
      BY <2>0, <3>1, <3>2 DEF NeverSet, Unlimited
    <3> QED BY <3>4, <3>5, LimitMade
  <2>3. CASE ~Synced
    <3>1. cli'.timeouts = cli.timeouts
      BY <2>3, StepFrame
    <3>2. Noted'
      <4>1. CASE PrepareStep
        <5>1. PICK x \in {"prepare", "prepareOrReuse"} : PrepareRejected(x) \/ \E n \in {"own", "package"} : Prepared(x, n)
          BY <4>1 DEF PrepareStep
        <5>2. \A q, n, p : NewRPB(q, n, p).limit = 0
          BY DEF NewRPB
        <5>3. \A h \in Handles : srv'.rpb[h].limit = 0 \/ srv'.rpb[h] = srv.rpb[h]
          <6>1. CASE PrepareRejected(x)
            <7>1. \A k \in Handles : srv'.rpb[k] = IF k = op.h THEN NewRPB(None, "own", FALSE) ELSE srv.rpb[k]
              BY Zenon, <6>1, RejectedRpb
            <7>2. NewRPB(None, "own", FALSE).limit = 0
              BY DEF NewRPB
            <7> QED BY Zenon, <7>1, <7>2
          <6>2. ASSUME NEW n \in {"own", "package"}, Prepared(x, n) PROVE \A h \in Handles : srv'.rpb[h].limit = 0 \/ srv'.rpb[h] = srv.rpb[h]
            <7>1. PICK packaged \in BOOLEAN : \A k \in Handles : srv'.rpb[k] = IF k = op.h THEN NewRPB(op.q, n, packaged) ELSE srv.rpb[k]
              BY <6>2, PreparedRpb
            <7> QED BY <5>2, <7>1
          <6> QED BY <5>1, <6>1, <6>2
        <5> QED BY <2>1, <3>1, <5>3 DEF Noted
      <4>2. CASE ~PrepareStep
        <5>1. srv'.rpb = srv.rpb
          BY <2>3, <4>2, StepFrame
        <5> QED BY <2>1, <3>1, <5>1 DEF Noted
      <4> QED BY <4>1, <4>2
    <3>3. NeverSet'
      BY <2>0, <2>1, <3>1 DEF NeverSet
    <3>4. Unlimited'
      <4>0. SUFFICES ASSUME op.limit = 0, ~(op.kind = "batch" /\ cfg.blocks), op.h \in Handles, cli.timeouts[op.h] = 1
                     PROVE  SyncFirst(todo')
        BY <2>0, <3>1 DEF Unlimited
      <4>1. ~SyncSkipped
        BY <2>1, <4>0 DEF SyncSkipped, Wanted, NeverSet
      <4>2. SyncFirst(todo)
        BY <2>0, <2>1, <4>0 DEF Unlimited
      <4> QED BY <2>3, <4>0, <4>1, <4>2, <1>SyncGoes
    <3> QED BY <3>2, <3>3, <3>4, LimitMade
  <2> QED BY <2>2, <2>3
<1>1. CASE Begin
  <2>1. valid /\ UNCHANGED <<cfg, srv>> /\ cli'.timeouts = cli.timeouts /\ SyncFirst(todo')
    BY <1>1, BeginCases, BeginFrame
  <2>2. Noted /\ NeverSet
    BY <2>1, LimitParts
  <2>3. Noted' /\ NeverSet' /\ Unlimited'
    BY <2>1, <2>2 DEF Noted, NeverSet, Unlimited
  <2> QED BY <2>3, LimitMade
<1>2. CASE Steps
  BY <1>2, StepCases, <1>LimitGoes
<1>3. CASE Cleanup
  <2>1. PICK x \in Calls : Undone(x) /\ (valid' => UndoneThere(x))
    BY <1>3, UndoCases, UndoFrame
  <2>2. valid /\ cfg' = cfg /\ SyncFirst(todo') /\ cli'.timeouts = cli.timeouts
    BY <2>1 DEF Undone, UndoneOp
  <2>3. Noted /\ NeverSet
    BY <2>2, LimitParts
  <2>4. CASE valid'
    <3>1. \A h \in Handles : srv'.rpb[h] = None \/ srv'.rpb[h] = srv.rpb[h]
      BY <2>1, <2>4 DEF UndoneThere
    <3>2. Noted' /\ NeverSet' /\ Unlimited'
      BY <2>2, <2>3, <3>1 DEF Noted, NeverSet, Unlimited
    <3> QED BY <3>2, LimitMade
  <2>5. CASE ~valid'
    BY <2>5 DEF LimitInv
  <2> QED BY <2>4, <2>5
<1>4. CASE Return
  <2>1. valid /\ op' = None /\ UNCHANGED <<cfg, srv>> /\ cli'.timeouts = cli.timeouts
    BY <1>4, ReturnFrame
  <2>2. Noted /\ NeverSet
    BY <2>1, LimitParts
  <2>3. Noted' /\ NeverSet' /\ Unlimited'
    BY <2>1, <2>2 DEF Noted, NeverSet, Unlimited
  <2> QED BY <2>3, LimitMade
<1>5. CASE Replace
  <2>1. op' = None /\ \A h \in Handles : srv'.rpb[h] = None /\ cli'.timeouts[h] = 0
    BY <1>5 DEF Replace, NewConn, NewJob
  <2>2. Noted' /\ NeverSet' /\ Unlimited'
    BY <2>1 DEF Noted, NeverSet, Unlimited
  <2> QED BY <2>2, LimitMade
<1>6. CASE CtxEnds \/ UNCHANGED vars
  <2>1. UNCHANGED <<valid, cfg, op, todo, cli, srv>>
    BY <1>6 DEF CtxEnds, vars, data
  <2> QED BY <2>1 DEF LimitInv, SyncFirst
<1> HIDE DEF LimitInv
<1> QED BY <1>1, <1>2, <1>3, <1>4, <1>5, <1>6 DEF Next

-----------------------------------------------------------------------------
LEMMA InitInvariant == Init => IInv
<1> SUFFICES ASSUME Init PROVE IInv
  OBVIOUS
<1>1. /\ ops = 0 /\ cfg \in Settings /\ valid = TRUE /\ why = None /\ ctx = "live" /\ op = None /\ todo = <<>> /\ undo = <<>>
      /\ err = "none" /\ cli = NewConn /\ pkg = NewPackageState(cfg) /\ srv = NewJob
  BY DEF Init
<1>2. T = {} /\ U = {} /\ todo \in Seq(Names) /\ undo \in Seq(Names) /\ Ordered(todo) /\ Ordered(undo)
  BY <1>1, Nothing DEF T, U
<1>3. MaxCursor \in Nat /\ MaxDescriptor \in Nat /\ MaxOps \in Nat /\ cfg.extended \in BOOLEAN
  BY <1>1, ExecAssumption
<1>4. cli \in CliType
  <2>1. [h \in Handles |-> 0] \in [Handles -> -1..1] /\ [h \in Handles |-> FALSE] \in [Handles -> BOOLEAN]
    OBVIOUS
  <2> QED BY <1>1, <1>3, <2>1 DEF NewConn, CliType
<1>5. srv \in SrvType
  BY <1>1, <1>3 DEF NewJob, SrvType
<1>6. pkg \in PackageType
  BY <1>1, <1>3 DEF NewPackageState, PackageType
<1>7. TypeInv
  <2>1. /\ cli.used \subseteq Handles /\ cli.rows \subseteq RowsOf /\ cli.descriptorSeq \in 0..MaxDescriptor
        /\ cli.timeouts \in [Handles -> -1..1]
    BY <1>4 DEF CliType
  <2>2. /\ srv.rpb \in [Handles -> RPBs \cup {None}] /\ srv.descriptors \subseteq 1..MaxDescriptor
        /\ srv.cursors \subseteq Cursors /\ srv.locator \in BOOLEAN
    BY <1>5 DEF SrvType
  <2>3. TypeOK
    BY <1>1, <1>3, <2>1, <2>2 DEF TypeOK
  <2> QED BY <1>1, <1>2, <1>4, <1>5, <1>6, <2>3 DEF TypeInv, PackageType, CliType, SrvType
<1>8. ControlInv /\ DescriptorInv /\ BatchInv
  BY <1>1, <1>2 DEF ControlInv, DescriptorInv, BatchInv
<1>9. cli.used = {} /\ cli.stmts = {} /\ cli.rows = {} /\ \A h \in Handles : cli.timeouts[h] = 0
  BY <1>1 DEF NewConn
<1>10. srv.descriptors = {} /\ srv.cursors = {} /\ ~srv.locator /\ \A h \in Handles : srv.rpb[h] = None
  BY <1>1 DEF NewJob
<1>11. ~HasName /\ ~Holds /\ RowCursors = {} /\ OwnRows = {} /\ Base = {}
  BY <1>1, <1>9 DEF HasName, Holds, RowCursors, OwnRows, Base
<1>12. NameInv
  BY <1>1, <1>9, <1>11 DEF NameInv
<1>13. ServerInv
  BY <1>1, <1>2, <1>10, <1>11 DEF ServerInv
<1>14. IdsInv
  BY <1>1, <1>9, <1>11 DEF IdsInv
<1>15. RpbInv
  BY <1>1, <1>9, <1>10, <1>11 DEF RpbInv
<1>16. PackageInv
  BY <1>1, <1>10 DEF PackageInv, NewPackageState
<1>17. LimitInv
  BY <1>1, <1>9, <1>10 DEF LimitInv
<1> QED BY <1>7, <1>8, <1>12, <1>13, <1>14, <1>15, <1>16, <1>17 DEF IInv

LEMMA NextInvariant == IInv /\ [Next]_vars => IInv'
<1> SUFFICES ASSUME IInv, [Next]_vars PROVE IInv'
  OBVIOUS
<1>1. /\ TypeInv /\ ControlInv /\ DescriptorInv /\ BatchInv /\ NameInv /\ ServerInv /\ IdsInv /\ RpbInv /\ PackageInv
      /\ LimitInv
  BY DEF IInv
<1>2. TypeInv' /\ ControlInv' /\ DescriptorInv' /\ BatchInv' /\ NameInv'
  BY <1>1, TypeStep, ControlStep, DescriptorStep, BatchStep, NameStep
<1>3. ServerInv' /\ IdsInv' /\ RpbInv' /\ PackageInv' /\ LimitInv'
  BY <1>1, ServerStep, IdsStep, RpbStep, PackageStep, LimitStep
<1> QED BY <1>2, <1>3 DEF IInv

(* The invariant of the statement operations: which steps and deferred     *)
(* calls can still come, and what they will give back, account for every   *)
(* id, name, descriptor, cursor and RPB.                                   *)
THEOREM StatementExecInvariant == Spec => []IInv
<1>1. Init => IInv
  BY InitInvariant
<1>2. IInv /\ [Next]_vars => IInv'
  BY NextInvariant
<1> QED BY <1>1, <1>2, PTL DEF Spec

(* sql.go execPrepared, openAndDescribe, closeInterruptedCursor,           *)
(* queryRows.Close: an operation that has returned on a usable connection  *)
(* has left no descriptor, no LOB locator and no cursor but those of the   *)
(* open rows, for any number of ids, rows and operations.                  *)
THEOREM NothingLeft == Spec => []NothingLeftOnServer
<1>1. ASSUME IInv PROVE NothingLeftOnServer
  <2>0. SUFFICES ASSUME op = None, valid PROVE srv.descriptors = {} /\ ~srv.locator /\ srv.cursors = RowCursors
    BY DEF NothingLeftOnServer, Idle, RowCursors
  <2>1. ControlInv /\ ServerInv
    BY <1>1 DEF IInv
  <2>2. U = {}
    BY <2>0, <2>1, Nothing DEF ControlInv, U
  <2> QED BY <2>0, <2>1, <2>2 DEF ServerInv
<1> QED BY <1>1, StatementExecInvariant, PTL

(* sql.go:466 and 485: no request defines a descriptor or opens a cursor   *)
(* that the server already has.                                            *)
THEOREM FreshNames == Spec => []NamesNotInUse
<1>1. ASSUME IInv PROVE NamesNotInUse
  <2>0. TypeInv /\ ControlInv /\ NameInv /\ ServerInv
    BY <1>1 DEF IInv
  <2>1. ASSUME valid, Step("change") PROVE op.descriptor \notin srv.descriptors
    <3>1. "change" \in T
      BY <2>0, <2>1, StepIn
    <3> QED BY <2>0, <2>1, <3>1 DEF ServerInv
  <2>2. ASSUME valid, Step("open") PROVE op.cursor \notin srv.cursors
    <3>1. op # None /\ err = "none" /\ undo # <<>> /\ Head(undo) = "undoOpen"
      BY <2>0, <2>2, OpenTop
    <3>2. U = {"undoOpen"} \cup Range(Tail(undo)) /\ \A b \in Range(Tail(undo)) : Follows("undoOpen", b)
      BY <2>0, <3>1, Popped DEF TypeInv, ControlInv, U
    <3>3. "closeCursor" \notin U /\ HasName
      BY <3>1, <3>2 DEF Follows, HasName
    <3>4. srv.cursors = RowCursors
      BY <2>0, <2>2, <3>1, <3>3 DEF ServerInv
    <3>5. \A r \in cli.rows : r.cursor # op.cursor
      BY <2>0, <2>2, <3>3 DEF NameInv
    <3> QED BY <3>4, <3>5 DEF RowCursors
  <2> QED BY <2>1, <2>2 DEF NamesNotInUse, Sending
<1> QED BY <1>1, StatementExecInvariant, PTL

(* sql.go queryContext, discardStatement, closePreparedStatement: between  *)
(* operations the ids in use are those of the statements and rows that the *)
(* application holds, each with its own RPB, and a free id has no RPB but  *)
(* that of a package statement.                                            *)
THEOREM IdsAreAccounted == Spec => []IdsAccounted
<1>1. ASSUME IInv PROVE IdsAccounted
  <2>0. TypeInv /\ IdsInv /\ RpbInv /\ TypeOK
    BY <1>1 DEF IInv, TypeInv
  <2>1. ASSUME op = None, valid
        PROVE  /\ cli.used = {s.h : s \in cli.stmts} \cup {r.h : r \in {x \in cli.rows : x.own}}
               /\ \A s \in cli.stmts : srv.rpb[s.h] # None /\ srv.rpb[s.h].sql = s.q
               /\ \A h \in Handles \ cli.used : srv.rpb[h] # None => srv.rpb[h].name = "package"
    <3>1. cli.used = Base \cup (IF Holds THEN {op.h} ELSE {}) /\ ~Holds
      BY <2>0, <2>1, IdsParts DEF Holds
    <3>2. cli.used = {s.h : s \in cli.stmts} \cup {r.h : r \in {x \in cli.rows : x.own}}
      BY <3>1 DEF Base, OwnRows
    <3>3. HeldRpbs /\ FreeRpbs
      BY <2>0, <2>1, RpbParts
    <3> QED BY <3>2, <3>3 DEF HeldRpbs, FreeRpbs, Rpb
  <2> QED BY <2>0, <2>1 DEF IdsAccounted, Idle
<1> QED BY <1>1, StatementExecInvariant, PTL

(* package.go specForExecute, clientinfo.go:321: an execute or open runs   *)
(* the statement that the operation prepared, names the package exactly    *)
(* when it was prepared into it, and without a deadline runs under no time *)
(* limit of an earlier operation.                                          *)
THEOREM OwnStatementRuns == Spec => []RunsOwnStatement
<1>1. ASSUME IInv PROVE RunsOwnStatement
  <2>0. TypeInv /\ ControlInv /\ RpbInv /\ PackageInv /\ LimitInv
    BY <1>1 DEF IInv
  <2>1. ASSUME valid, NEW x \in Runs, Step(x)
        PROVE  /\ srv.rpb[op.h] # None
               /\ srv.rpb[op.h].sql = op.q
               /\ srv.rpb[op.h].packaged <=> specForExecute(op.h)
               /\ op.limit = 0 /\ ~(op.kind = "batch" /\ cfg.blocks) => srv.rpb[op.h].limit = 0
    <3>1. /\ op # None /\ op.kind \notin {"exec", "ping", "closeStmt", "closeRows"} /\ op.h \in Handles /\ op.q \in Queries
          /\ x \in T /\ todo # <<>> /\ Head(todo) = x
      BY <2>0, <2>1, StepHasId, StepIn DEF Runs, Step
    <3>2. T = {x} \cup Range(Tail(todo)) /\ \A b \in Range(Tail(todo)) : Follows(x, b)
      BY <2>0, <3>1, Popped DEF TypeInv, ControlInv, T
    <3>3. T \cap {"prepare", "prepareOrReuse"} = {} /\ "message" # x
      BY <2>1, <3>2 DEF Follows, Runs
    <3>4. err = "none"
      BY <2>0, <3>1, <3>3 DEF ControlInv
    <3>5. Rpb(op.h, op.q, op.name)
      BY <2>0, <2>1, <3>1, <3>3, <3>4, RpbParts DEF Ready, Active
    <3>6. op.q # None
      BY <3>1, ExecAssumption
    <3>7. srv.rpb[op.h].packaged <=> specForExecute(op.h)
      BY <2>0, <2>1, <3>1, <3>5, <3>6, PackageParts DEF Marked, Rpb, specForExecute
    <3>8. ASSUME op.limit = 0, ~(op.kind = "batch" /\ cfg.blocks) PROVE srv.rpb[op.h].limit = 0
      <4>1. ~SyncFirst(todo)
        <5>1. x # "sync" /\ todo \in Seq(Names)
          BY <2>0, <2>1 DEF Runs, TypeInv
        <5> QED BY <2>1, <3>1, <5>1, SyncPopped
      <4>2. cli.timeouts[op.h] # 1
        BY <2>0, <2>1, <3>1, <3>8, <4>1, LimitParts DEF Unlimited
      <4> QED BY <2>0, <2>1, <3>1, <3>5, <4>2, LimitParts DEF Noted, Rpb
    <3> QED BY <3>5, <3>7, <3>8 DEF Rpb
  <2> QED BY <2>1 DEF RunsOwnStatement, Sending
<1> QED BY <1>1, StatementExecInvariant, PTL

(* batch.go ExecBatch: the count never exceeds what the server has done,   *)
(* which is at most one block more, and a batch without an error has done  *)
(* all its rows, for any number of rows and any cut into blocks.           *)
THEOREM BatchIsAccounted == Spec => []BatchAccounting
<1>1. ASSUME IInv PROVE BatchAccounting
  <2>0. TypeInv /\ BatchInv
    BY <1>1 DEF IInv
  <2>1. ASSUME op # None, op.kind = "batch"
        PROVE  /\ op.total <= op.applied
               /\ op.applied <= op.total + op.size
               /\ todo = <<>> /\ undo = <<>> /\ err = "none" => op.total = op.rows /\ op.applied = op.rows
    <3>1. todo = <<>> => T = {}
      BY Nothing DEF T
    <3>2. undo = <<>> => U = {}
      BY Nothing DEF U
    <3> QED BY <2>0, <2>1, <3>1, <3>2, OpType DEF BatchInv
  <2> QED BY <2>1 DEF BatchAccounting
<1> QED BY <1>1, StatementExecInvariant, PTL
=============================================================================
