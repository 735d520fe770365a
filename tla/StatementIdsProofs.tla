------------------------- MODULE StatementIdsProofs -------------------------
(***************************************************************************)
(* Who has what in StatementExec, proved for any statements, ids, settings *)
(* and bounds: the names of the cursors, the descriptors, locators and     *)
(* cursors on the server, and the ids of the RPBs.                         *)
(*                                                                         *)
(* StepFrame says what a step leaves alone, StepCalls and UndoFrame what   *)
(* it does with the deferred calls and what a deferred call changes; the   *)
(* invariants here are about the data that the steps to come and the       *)
(* deferred calls will still use.                                          *)
(***************************************************************************)
EXTENDS StatementStepProofs

(* What the server has is what some row or some deferred call will close. *)
RowCursors == {r.cursor : r \in cli.rows}

ServerInv ==
  valid =>
    /\ op # None /\ "change" \in T /\ "descriptor" \notin T => "deleteDescriptor" \in U
    /\ srv.descriptors # {} => /\ op # None /\ "deleteDescriptor" \in U
                               /\ srv.descriptors = {op.descriptor}
                               /\ T \cap {"descriptor", "change"} = {}
    /\ srv.locator => "freeLob" \in U
    /\ IF "closeCursor" \in U THEN srv.cursors = RowCursors \cup {op.cursor}
       ELSE IF "undoOpen" \in U /\ err = "ctx"
       THEN srv.cursors = RowCursors \/ srv.cursors = RowCursors \cup {op.cursor}
       ELSE srv.cursors = RowCursors

(* The ids in use. *)
OwnRows == {r \in cli.rows : r.own}
Base == {s.h : s \in cli.stmts} \cup {r.h : r \in OwnRows}

Holds ==
  op # None /\ (U \cap {"releaseId", "discard", "closeStatement"} # {} \/ (op.kind = "prepare" /\ err = "none"))

(* The rows have the id, the deferred discard will leave it to them. *)
Handed ==
  op.kind \in {"query", "queryTransient"} /\ err = "none" /\ "open" \notin T /\ "discard" \in U

IdsInv ==
  valid =>
    /\ cli.used = Base \cup (IF Holds THEN {op.h} ELSE {})
    /\ Holds => (op.h \in Base <=> Handed)
    /\ \A s, t \in cli.stmts : s.h = t.h => s = t
    /\ \A r, t \in OwnRows : r.h = t.h => r = t
    /\ \A s \in cli.stmts, r \in OwnRows : s.h # r.h
    /\ op # None /\ op.kind = "keys" /\ err = "none" /\ U \cap {"releaseId", "discard"} # {} => "open" \in T
    /\ op # None /\ T \cap {"prepare", "prepareOrReuse"} # {} => Holds

-----------------------------------------------------------------------------
(* What steps and deferred calls leave alone.                              *)
PrepareStep ==
  \E x \in {"prepare", "prepareOrReuse"} : PrepareRejected(x) \/ \E n \in {"own", "package"} : Prepared(x, n)

LEMMA StepFrame ==
  ASSUME TypeInv, ControlInv, StepOutcome
  PROVE  /\ UNCHANGED cfg /\ (pkg' = pkg \/ PackageLearned)
         /\ cli'.used = cli.used /\ cli'.stmts = cli.stmts
         /\ OpenedRows \/ cli'.rows = cli.rows
         /\ OpenCursorName \/ OpenedNothing \/ cli'.busy = cli.busy
         /\ OpenCursorName \/ cli'.cursorSeq = cli.cursorSeq
         /\ Synced \/ cli'.timeouts = cli.timeouts
         /\ PrepareStep \/ cli'.packaged = cli.packaged
         /\ PrepareStep \/ Synced \/ srv'.rpb = srv.rpb
         /\ DescriptorChanged \/ srv'.descriptors = srv.descriptors
         /\ OpenedRows \/ OpenedKeys \/ OpenInterrupted \/ srv'.cursors = srv.cursors
         /\ ExecutedLob \/ srv'.locator = srv.locator
<1>0. cli \in CliType /\ srv \in SrvType
  BY TypeParts
<1>1. UNCHANGED cfg /\ (pkg' = pkg \/ PackageLearned)
  BY Zenon DEF StepOutcome, Stopped, Passed, PackageKnown, PackageAsked, Prepared, PrepareRejected, SyncSkipped, Synced,
     DescriptorChanged, NextDescriptorHandle, OpenCursorName, Executed, ExecutedLob, ExecuteStopped, OpenedRows,
     OpenedKeys, OpenedNothing, OpenInterrupted, NextRows, data
<1>2. CASE PrepareStep
  <2>1. PICK x \in {"prepare", "prepareOrReuse"} : PrepareRejected(x) \/ \E n \in {"own", "package"} : Prepared(x, n)
    BY <1>2 DEF PrepareStep
  <2>2. NoteForPrepare(op.h, op.q)
    BY Zenon, <2>1 DEF PrepareRejected, Prepared
  <2>3. /\ cli'.used = cli.used /\ cli'.stmts = cli.stmts /\ cli'.rows = cli.rows /\ cli'.busy = cli.busy
        /\ cli'.cursorSeq = cli.cursorSeq /\ cli'.timeouts = cli.timeouts
    BY <1>0, <2>2 DEF NoteForPrepare, CliType
  <2>4. srv'.descriptors = srv.descriptors /\ srv'.cursors = srv.cursors /\ srv'.locator = srv.locator
    BY Zenon, <2>1, PreparedRpb, RejectedRpb DEF Rewritten
  <2> QED BY <1>1, <1>2, <2>3, <2>4
<1>3. CASE Synced
  <2>1. /\ cli'.used = cli.used /\ cli'.stmts = cli.stmts /\ cli'.rows = cli.rows /\ cli'.busy = cli.busy
        /\ cli'.cursorSeq = cli.cursorSeq /\ cli'.packaged = cli.packaged
    BY <1>0, <1>3 DEF Synced, CliType
  <2> QED BY <1>1, <1>3, <2>1, SyncedRpb
<1>4. CASE NextDescriptorHandle \/ OpenCursorName
  <2>1. /\ cli'.used = cli.used /\ cli'.stmts = cli.stmts /\ cli'.rows = cli.rows /\ cli'.timeouts = cli.timeouts
        /\ cli'.packaged = cli.packaged /\ srv' = srv
        /\ OpenCursorName \/ (cli'.busy = cli.busy /\ cli'.cursorSeq = cli.cursorSeq)
    BY <1>0, <1>4 DEF NextDescriptorHandle, OpenCursorName, CliType
  <2> QED BY <1>1, <2>1
<1>5. CASE DescriptorChanged
  <2>1. cli' = cli /\ srv'.rpb = srv.rpb /\ srv'.cursors = srv.cursors /\ srv'.locator = srv.locator
    BY <1>0, <1>5 DEF DescriptorChanged, SrvType
  <2> QED BY <1>1, <1>5, <2>1
<1>6. CASE ExecutedLob
  <2>1. cli' = cli /\ srv'.rpb = srv.rpb /\ srv'.cursors = srv.cursors /\ srv'.descriptors = srv.descriptors
    BY <1>0, <1>6 DEF ExecutedLob, SrvType
  <2> QED BY <1>1, <1>6, <2>1
<1>7. CASE OpenedRows \/ OpenedKeys \/ OpenInterrupted
  <2>1. srv'.rpb = srv.rpb /\ srv'.descriptors = srv.descriptors /\ srv'.locator = srv.locator
    BY <1>0, <1>7 DEF OpenedRows, OpenedKeys, OpenInterrupted, CursorOpened, SrvType
  <2>2. /\ cli'.used = cli.used /\ cli'.stmts = cli.stmts /\ cli'.timeouts = cli.timeouts
        /\ cli'.packaged = cli.packaged /\ cli'.busy = cli.busy /\ cli'.cursorSeq = cli.cursorSeq
        /\ OpenedRows \/ cli'.rows = cli.rows
    BY <1>0, <1>7 DEF OpenedRows, OpenedKeys, OpenInterrupted, CliType
  <2> QED BY <1>1, <1>7, <2>1, <2>2
<1>8. CASE OpenedNothing
  <2>1. /\ cli'.used = cli.used /\ cli'.stmts = cli.stmts /\ cli'.rows = cli.rows /\ cli'.timeouts = cli.timeouts
        /\ cli'.packaged = cli.packaged /\ cli'.cursorSeq = cli.cursorSeq /\ srv' = srv
    BY <1>0, <1>8 DEF OpenedNothing, CliType
  <2> QED BY <1>1, <1>8, <2>1
<1>9. CASE UNCHANGED <<cli, srv>>
  BY <1>1, <1>9
<1>10. \/ PrepareStep \/ Synced \/ NextDescriptorHandle \/ OpenCursorName \/ DescriptorChanged \/ ExecutedLob
       \/ OpenedRows \/ OpenedKeys \/ OpenInterrupted \/ OpenedNothing \/ UNCHANGED <<cli, srv>>
  BY DEF StepOutcome, Stopped, Passed, PackageKnown, PackageAsked, PrepareStep, SyncSkipped, Executed, ExecuteStopped,
     NextRows, data
<1> QED BY Zenon, <1>2, <1>3, <1>4, <1>5, <1>6, <1>7, <1>8, <1>9, <1>10

-----------------------------------------------------------------------------
(* What becomes of the deferred calls.                                     *)
LEMMA StepCalls ==
  ASSUME TypeInv, ControlInv, StepOutcome
  PROVE  /\ \A x \in U' \ U : \/ x = "deleteDescriptor" /\ NextDescriptorHandle
                              \/ x = "undoOpen" /\ OpenCursorName
                              \/ x = "freeLob" /\ ExecutedLob
                              \/ x = "rowsDone" /\ NextRows
                              \/ x = "discard" /\ PrepareStep /\ "releaseId" \in U
                              \/ OpenedKeys
         /\ \A x \in U \ U' : \/ x = "undoOpen" /\ (OpenedRows \/ OpenedNothing)
                              \/ x = "releaseId" /\ PrepareStep /\ "discard" \in U'
                              \/ OpenedKeys
         /\ OpenedRows \/ OpenedNothing =>
              U = {"undoOpen"} \cup U' /\ U' \cap {"undoOpen", "closeCursor", "releaseName"} = {}
         /\ OpenedKeys => U' = {"closeCursor", "closeStatement", "releaseName"} /\ {"undoOpen", "discard"} \subseteq U
         /\ NextDescriptorHandle => "deleteDescriptor" \in U'
         /\ ExecutedLob => "freeLob" \in U'
         /\ PrepareStep => "releaseId" \notin U'
<1> DEFINE Moved ==
             /\ \A x \in U' \ U : \/ x = "deleteDescriptor" /\ NextDescriptorHandle
                                  \/ x = "undoOpen" /\ OpenCursorName
                                  \/ x = "freeLob" /\ ExecutedLob
                                  \/ x = "rowsDone" /\ NextRows
                                  \/ x = "discard" /\ PrepareStep /\ "releaseId" \in U
                                  \/ OpenedKeys
             /\ \A x \in U \ U' : \/ x = "undoOpen" /\ (OpenedRows \/ OpenedNothing)
                                  \/ x = "releaseId" /\ PrepareStep /\ "discard" \in U'
                                  \/ OpenedKeys
<1>0. op # None /\ valid /\ todo # <<>> /\ undo \in Seq(Names)
  BY Going, TypeParts
<1>1. ASSUME NEW x \in Names, undo' = <<x>> \o undo PROVE U' = {x} \cup U
  <2> DEFINE one == <<x>>
  <2>1. one \in Seq(Names) /\ Range(one) = {x}
    BY Single
  <2>2. undo' = one \o undo
    BY <1>1
  <2> HIDE DEF one
  <2>3. Range(one \o undo) = Range(one) \cup Range(undo)
    BY <1>0, <2>1, Joined
  <2> QED BY <2>1, <2>2, <2>3 DEF U
<1>2. /\ NextDescriptorHandle => U' = {"deleteDescriptor"} \cup U
      /\ OpenCursorName => U' = {"undoOpen"} \cup U
      /\ ExecutedLob => U' = {"freeLob"} \cup U
      /\ NextRows => U' = {"rowsDone"} \cup U
  <2>1. {"deleteDescriptor", "undoOpen", "freeLob", "rowsDone"} \subseteq Names
    BY DEF Names
  <2>2. /\ NextDescriptorHandle => undo' = <<"deleteDescriptor">> \o undo
        /\ OpenCursorName => undo' = <<"undoOpen">> \o undo
        /\ ExecutedLob => undo' = <<"freeLob">> \o undo
        /\ NextRows => undo' = <<"rowsDone">> \o undo
    BY DEF NextDescriptorHandle, OpenCursorName, ExecutedLob, NextRows
  <2> QED BY <1>1, <2>1, <2>2
<1>3. ASSUME PrepareStep
      PROVE  /\ U' \ U \subseteq {"discard"} /\ "releaseId" \notin U'
             /\ U' = U \/ (U = {"releaseId"} /\ "discard" \in U')
  <2>1. PICK x \in {"prepare", "prepareOrReuse"} : PrepareRejected(x) \/ \E n \in {"own", "package"} : Prepared(x, n)
    BY <1>3 DEF PrepareStep
  <2>2. Step(x) /\ undo' = IF op.kind \in {"query", "keys"} THEN <<"discard">> ELSE undo
    BY Zenon, <2>1 DEF PrepareRejected, Prepared
  <2>3. x \in T
    BY <2>2, StepIn
  <2>4. CASE x = "prepare"
    <3>1. undo = <<"releaseId">> /\ op.kind \in {"query", "keys"}
      BY <1>0, <2>3, <2>4, KindOf DEF ControlInv
    <3> QED BY <2>2, <3>1, ReleasesId, OnlyDiscard
  <2>5. CASE x = "prepareOrReuse"
    <3>1. op.kind \in {"prepare", "execTransient", "queryTransient", "batch"}
      BY <1>0, <2>3, <2>5, KindOf
    <3>2. undo' = undo /\ "releaseId" \notin U
      BY <1>0, <2>2, <3>1, Belongs DEF UndoOf
    <3>3. U' = U
      BY <3>2 DEF U
    <3> QED BY <3>2, <3>3
  <2> QED BY <2>4, <2>5
<1>4. ASSUME OpenedRows \/ OpenedNothing
      PROVE  U = {"undoOpen"} \cup U' /\ U' \cap {"undoOpen", "closeCursor", "releaseName"} = {}
  <2>1. Step("open") /\ undo' = Tail(undo)
    BY <1>4 DEF OpenedRows, OpenedNothing
  <2>2. undo # <<>> /\ Head(undo) = "undoOpen"
    BY <2>1, OpenTop
  <2>3. U = {"undoOpen"} \cup U' /\ \A b \in U' : Follows("undoOpen", b)
    BY <2>1, <2>2, Popped DEF TypeInv, ControlInv, U
  <2> QED BY <2>3 DEF Follows
<1>5. ASSUME OpenedKeys
      PROVE  U' = {"closeCursor", "closeStatement", "releaseName"} /\ {"undoOpen", "discard"} \subseteq U
  <2>1. Step("open") /\ undo' = <<"closeCursor", "closeStatement", "releaseName">> /\ op.kind = "keys"
    BY <1>5 DEF OpenedKeys
  <2>2. op # None /\ "open" \in T /\ T \subseteq {"open", "readKeys"} /\ "undoOpen" \in U
    BY <2>1, OpenTop
  <2>3. "discard" \in U
    BY <2>1, <2>2 DEF ControlInv
  <2> QED BY <2>1, <2>2, <2>3, Literals DEF Lists, U
<1>6. \/ NextDescriptorHandle \/ OpenCursorName \/ ExecutedLob \/ NextRows
      \/ PrepareStep \/ OpenedRows \/ OpenedNothing \/ OpenedKeys \/ UNCHANGED undo
  BY DEF StepOutcome, Stopped, Passed, PackageKnown, PackageAsked, PrepareStep, SyncSkipped, Synced,
     DescriptorChanged, Executed, ExecuteStopped, OpenInterrupted, data
<1>7. Moved
  <2>1. CASE NextDescriptorHandle \/ OpenCursorName \/ ExecutedLob \/ NextRows
    BY <1>2, <2>1
  <2>2. CASE PrepareStep
    BY <1>3, <2>2
  <2>3. CASE OpenedRows \/ OpenedNothing
    BY <1>4, <2>3
  <2>4. CASE UNCHANGED undo
    BY <2>4 DEF U
  <2> QED BY <1>6, <2>1, <2>2, <2>3, <2>4
<1>8. (NextDescriptorHandle => "deleteDescriptor" \in U') /\ (ExecutedLob => "freeLob" \in U')
  BY <1>2
<1> QED BY <1>3, <1>4, <1>5, <1>7, <1>8

Calls ==
  {"deleteDescriptor", "freeLob", "undoOpen", "closeStatement", "discard", "releaseId", "releaseName", "closeCursor",
   "rowsDone"}

(* The deferred call gives up the id, and with it the RPB of an own name. *)
GivesUp(x) == x = "closeStatement" \/ (x = "discard" /\ err # "none")

(* What the deferred call x changes: the operation, the client's tables and what the server holds. *)
UndoneOp(x) ==
  /\ op # None /\ valid /\ T = {} /\ x \in Calls /\ x \in U
  /\ U = {x} \cup U' /\ \A b \in U' : Follows(x, b)
  /\ UNCHANGED <<cfg, err, pkg>>
  /\ op' # None /\ op'.kind = op.kind /\ op'.q = op.q /\ op'.h = op.h /\ op'.limit = op.limit /\ op'.name = op.name
  /\ op'.cursor = op.cursor /\ op'.default = op.default /\ op'.descriptor = op.descriptor
  /\ T' \subseteq {"nextRows"} /\ (x # "rowsDone" => T' = {}) /\ SyncFirst(todo')

Undone(x) ==
  /\ UndoneOp(x)
  /\ cli'.used = IF GivesUp(x) \/ x = "releaseId" THEN cli.used \ {op.h} ELSE cli.used
  /\ cli'.stmts = cli.stmts /\ cli'.rows = cli.rows /\ cli'.cursorSeq = cli.cursorSeq
  /\ cli'.timeouts = cli.timeouts /\ cli'.packaged = cli.packaged
  /\ cli'.busy = IF x \in {"undoOpen", "releaseName"} /\ op.default THEN cli.busy \ {op.h} ELSE cli.busy

UndoneThere(x) ==
  /\ \A h \in Handles : srv'.rpb[h] = IF GivesUp(x) /\ op.name # "package" /\ h = op.h THEN None ELSE srv.rpb[h]
  /\ srv'.descriptors = IF x = "deleteDescriptor" THEN srv.descriptors \ {op.descriptor} ELSE srv.descriptors
  /\ srv'.cursors = IF x = "closeCursor" \/ (x = "undoOpen" /\ err = "ctx") THEN srv.cursors \ {op.cursor}
                    ELSE srv.cursors
  /\ srv'.locator = IF x = "freeLob" THEN FALSE ELSE srv.locator

LEMMA UndoFrame ==
  ASSUME TypeInv, ControlInv, BatchInv, UndoOutcome
  PROVE  \E x \in Calls : Undone(x) /\ (valid' => UndoneThere(x))
<1>0. cli \in CliType /\ srv \in SrvType
  BY TypeParts
<1>1. ASSUME NEW x \in Calls, Undo(x), undo' = Tail(undo), UNCHANGED <<cfg, op, todo, err, pkg>>
      PROVE  UndoneOp(x)
  <2>1. U = {x} \cup U' /\ (\A b \in U' : Follows(x, b)) /\ T = {} /\ op # None
    BY <1>1, WentBack
  <2>2. valid /\ todo' = <<>>
    BY <1>1 DEF Undo
  <2>3. T' = {} /\ SyncFirst(todo')
    BY Zenon, <2>2, Nothing, SyncNone DEF T
  <2> QED BY <1>1, <2>1, <2>2, <2>3 DEF UndoneOp
<1>2. ASSUME NEW x \in Calls \ {"rowsDone"}, NEW s, UndoDone(x, s)
      PROVE  UndoneOp(x) /\ (valid' => srv' = s)
  <2>1. Undo(x) /\ undo' = Tail(undo) /\ UNCHANGED <<cfg, op, todo, err, pkg>> /\ (valid' => srv' = s)
    BY <1>2 DEF UndoDone, Popping
  <2> QED BY <1>1, <2>1
<1>3. CASE UndoDone("deleteDescriptor", [srv EXCEPT !.descriptors = @ \ {op.descriptor}]) /\ UNCHANGED cli
  <2>1. "deleteDescriptor" \in Calls \ {"rowsDone"}
    BY DEF Calls
  <2>2. Undone("deleteDescriptor")
    BY <1>2, <1>3, <2>1 DEF Undone, GivesUp
  <2>3. ASSUME valid' PROVE UndoneThere("deleteDescriptor")
    <3>1. srv' = [srv EXCEPT !.descriptors = srv.descriptors \ {op.descriptor}]
      BY <1>2, <1>3, <2>1, <2>3
    <3>2. /\ srv'.rpb = srv.rpb /\ srv'.cursors = srv.cursors /\ srv'.locator = srv.locator
          /\ srv'.descriptors = srv.descriptors \ {op.descriptor}
      BY <1>0, <3>1 DEF SrvType
    <3> QED BY <3>2 DEF UndoneThere, GivesUp
  <2> QED BY <2>1, <2>2, <2>3
<1>4. CASE UndoDone("freeLob", [srv EXCEPT !.locator = FALSE]) /\ UNCHANGED cli
  <2>1. "freeLob" \in Calls \ {"rowsDone"}
    BY DEF Calls
  <2>2. Undone("freeLob")
    BY <1>2, <1>4, <2>1 DEF Undone, GivesUp
  <2>3. ASSUME valid' PROVE UndoneThere("freeLob")
    <3>1. srv' = [srv EXCEPT !.locator = FALSE]
      BY <1>2, <1>4, <2>1, <2>3
    <3>2. srv'.rpb = srv.rpb /\ srv'.descriptors = srv.descriptors /\ srv'.cursors = srv.cursors /\ srv'.locator = FALSE
      BY <1>0, <3>1 DEF SrvType
    <3> QED BY Zenon, <3>2 DEF UndoneThere, GivesUp
  <2> QED BY <2>1, <2>2, <2>3
<1>5. CASE /\ UndoDone("undoOpen", IF err = "ctx" THEN [srv EXCEPT !.cursors = @ \ {op.cursor}] ELSE srv)
           /\ ReleaseName(op.h, op.default)
  <2>1. "undoOpen" \in Calls \ {"rowsDone"}
    BY DEF Calls
  <2>2. Undone("undoOpen")
    <3>1. UndoneOp("undoOpen")
      BY <1>2, <1>5, <2>1
    <3> QED BY <1>5, <3>1, Released DEF Undone, GivesUp
  <2>3. ASSUME valid' PROVE UndoneThere("undoOpen")
    <3>1. srv' = IF err = "ctx" THEN [srv EXCEPT !.cursors = srv.cursors \ {op.cursor}] ELSE srv
      BY <1>2, <1>5, <2>1, <2>3
    <3>2. /\ srv'.rpb = srv.rpb /\ srv'.descriptors = srv.descriptors /\ srv'.locator = srv.locator
          /\ srv'.cursors = IF err = "ctx" THEN srv.cursors \ {op.cursor} ELSE srv.cursors
      BY <1>0, <3>1 DEF SrvType
    <3> QED BY <3>2 DEF UndoneThere, GivesUp
  <2> QED BY <2>1, <2>2, <2>3
<1>6. ASSUME NEW x \in {"closeStatement", "discard"},
             UndoDone(x, IF op.name = "package" THEN srv ELSE [srv EXCEPT !.rpb[op.h] = None]),
             x = "discard" => err # "none", cli' = [cli EXCEPT !.used = @ \ {op.h}]
      PROVE  x \in Calls /\ Undone(x) /\ (valid' => UndoneThere(x))
  <2>1. x \in Calls \ {"rowsDone"} /\ GivesUp(x) /\ x \notin {"undoOpen", "releaseName", "rowsDone"}
    BY <1>6 DEF Calls, GivesUp
  <2>2. Undone(x)
    BY <1>2, <1>6, <2>1, IdReleased DEF Undone
  <2>3. ASSUME valid' PROVE UndoneThere(x)
    <3>1. srv' = IF op.name = "package" THEN srv ELSE [srv EXCEPT !.rpb[op.h] = None]
      BY <1>2, <1>6, <2>1, <2>3
    <3>2. op.h \in Handles
      BY <2>2, UndoHasId DEF Undone, UndoneOp, Calls
    <3>3. CASE op.name = "package"
      BY Zenon, <1>6, <2>1, <3>1, <3>3 DEF UndoneThere
    <3>4. CASE op.name # "package"
      <4>1. Rewritten(op.h, None) /\ \A k \in Handles : srv'.rpb[k] = IF k = op.h THEN None ELSE srv.rpb[k]
        BY <3>1, <3>2, <3>4, RpbWritten
      <4> QED BY Zenon, <1>6, <2>1, <3>4, <4>1 DEF UndoneThere, Rewritten
    <3> QED BY <3>3, <3>4
  <2> QED BY <2>1, <2>2, <2>3
<1>7. ASSUME NEW x \in {"discard", "releaseId", "releaseName"}, UndoDone(x, srv), x = "discard" => err = "none",
             \/ x = "discard" /\ UNCHANGED cli
             \/ x = "releaseId" /\ cli' = [cli EXCEPT !.used = @ \ {op.h}]
             \/ x = "releaseName" /\ ReleaseName(op.h, op.default)
      PROVE  x \in Calls /\ Undone(x) /\ (valid' => UndoneThere(x))
  <2>1. x \in Calls \ {"rowsDone"} /\ ~GivesUp(x)
    BY <1>7 DEF Calls, GivesUp
  <2>2. Undone(x)
    <3>1. CASE x = "discard"
      BY <1>2, <1>7, <2>1, <3>1 DEF Undone
    <3>2. CASE x = "releaseId"
      BY Zenon, <1>2, <1>7, <2>1, <3>2, IdReleased DEF Undone
    <3>3. CASE x = "releaseName"
      <4>1. UndoneOp(x) /\ ReleaseName(op.h, op.default)
        BY <1>2, <1>7, <2>1, <3>3
      <4> QED BY <2>1, <3>3, <4>1, Released DEF Undone
    <3> QED BY <3>1, <3>2, <3>3
  <2>3. valid' => UndoneThere(x)
    BY Zenon, <1>2, <1>7, <2>1 DEF UndoneThere
  <2> QED BY <2>1, <2>2, <2>3
<1>8. CASE UndoDone("closeCursor", [srv EXCEPT !.cursors = @ \ {op.cursor}]) /\ UNCHANGED cli
  <2>1. "closeCursor" \in Calls \ {"rowsDone"}
    BY DEF Calls
  <2>2. Undone("closeCursor")
    BY <1>2, <1>8, <2>1 DEF Undone, GivesUp
  <2>3. ASSUME valid' PROVE UndoneThere("closeCursor")
    <3>1. srv' = [srv EXCEPT !.cursors = srv.cursors \ {op.cursor}]
      BY <1>2, <1>8, <2>1, <2>3
    <3>2. /\ srv'.rpb = srv.rpb /\ srv'.descriptors = srv.descriptors /\ srv'.locator = srv.locator
          /\ srv'.cursors = srv.cursors \ {op.cursor}
      BY <1>0, <3>1 DEF SrvType
    <3> QED BY <3>2 DEF UndoneThere, GivesUp
  <2> QED BY <2>1, <2>2, <2>3
<1>9. CASE RowsDone
  <2>1. /\ op # None /\ T = {} /\ UNCHANGED <<err, cfg, pkg, cli, srv>> /\ valid /\ Undo("rowsDone") /\ undo' = Tail(undo)
        /\ op' # None /\ op'.kind = op.kind /\ op'.q = op.q /\ op'.h = op.h /\ op'.limit = op.limit /\ op'.name = op.name
        /\ op'.descriptor = op.descriptor /\ SyncFirst(todo') /\ T' \subseteq {"nextRows"}
    BY <1>9, RoundDone DEF RowsDone, Undo
  <2>2. U = {"rowsDone"} \cup U' /\ \A b \in U' : Follows("rowsDone", b)
    BY <2>1, WentBack
  <2>3. op'.cursor = op.cursor /\ op'.default = op.default
    <3>1. op \in Operations
      BY <2>1, OpType
    <3>2. op' = op \/ op' = [op EXCEPT !.sent = @ + op.size]
      BY <1>9 DEF RowsDone
    <3> QED BY <3>1, <3>2 DEF Operations
  <2>4. "rowsDone" \in Calls
    BY DEF Calls
  <2>5. Undone("rowsDone") /\ UndoneThere("rowsDone")
    BY <2>1, <2>2, <2>3, <2>4 DEF Undone, UndoneOp, UndoneThere, GivesUp
  <2> QED BY <2>4, <2>5
<1> QED BY <1>3, <1>4, <1>5, <1>6, <1>7, <1>8, <1>9 DEF UndoOutcome

-----------------------------------------------------------------------------
(* Which step gives the operation its names. *)
LEMMA StepOp ==
  ASSUME TypeInv, ControlInv, BatchInv, NameInv, StepOutcome
  PROVE  /\ op # None /\ op' # None /\ op'.kind = op.kind /\ op'.q = op.q /\ op'.h = op.h /\ op'.limit = op.limit
         /\ OpenCursorName \/ (op'.cursor = op.cursor /\ op'.default = op.default)
         /\ NextDescriptorHandle \/ op'.descriptor = op.descriptor
         /\ PrepareStep \/ op'.name = op.name
<1>0. /\ op # None /\ op' # None /\ op'.kind = op.kind /\ op'.q = op.q /\ op'.h = op.h /\ op'.limit = op.limit
      /\ op \in Operations
  BY OpStep
<1>1. CASE UNCHANGED op
  BY <1>0, <1>1
<1>2. CASE PrepareStep
  <2>1. PICK x \in {"prepare", "prepareOrReuse"} : PrepareRejected(x) \/ \E n \in {"own", "package"} : Prepared(x, n)
    BY <1>2 DEF PrepareStep
  <2>2. op' = op \/ \E n \in {"own", "package"} : op' = [op EXCEPT !.name = n]
    BY Zenon, <2>1 DEF PrepareRejected, Prepared
  <2>3. op'.cursor = op.cursor /\ op'.default = op.default /\ op'.descriptor = op.descriptor
    BY <1>0, <2>2 DEF Operations
  <2> QED BY <1>0, <1>2, <2>3
<1>3. CASE NextDescriptorHandle
  <2>1. op' = [op EXCEPT !.descriptor = cli'.descriptorSeq]
    BY <1>3 DEF NextDescriptorHandle
  <2>2. op'.cursor = op.cursor /\ op'.default = op.default /\ op'.name = op.name
    BY <1>0, <2>1 DEF Operations
  <2> QED BY <1>0, <1>3, <2>2
<1>4. CASE OpenCursorName
  <2>1. op'.descriptor = op.descriptor /\ op'.name = op.name
    BY <1>0, <1>4 DEF OpenCursorName, Operations
  <2> QED BY <1>0, <1>4, <2>1
<1>5. ASSUME NEW n, NEW k, Ran(n, k) PROVE op'.cursor = op.cursor /\ op'.default = op.default /\ op'.descriptor = op.descriptor
                                           /\ op'.name = op.name
  BY <1>0, <1>5 DEF Ran, Operations
<1>6. CASE Executed \/ ExecutedLob \/ \E n, k \in Nat : ExecuteStopped(n, k)
  BY <1>0, <1>5, <1>6 DEF Executed, ExecutedLob, ExecuteStopped
<1>7. CASE NextRows
  <2>1. PICK n \in 1..(op.rows - op.sent) : op' = [op EXCEPT !.size = n]
    BY <1>7 DEF NextRows
  <2>2. op'.cursor = op.cursor /\ op'.default = op.default /\ op'.descriptor = op.descriptor /\ op'.name = op.name
    BY <1>0, <2>1 DEF Operations
  <2> QED BY <1>0, <2>2
<1>8. \/ UNCHANGED op \/ PrepareStep \/ NextDescriptorHandle \/ OpenCursorName \/ Executed \/ ExecutedLob
      \/ (\E n, k \in Nat : ExecuteStopped(n, k)) \/ NextRows
  BY DEF StepOutcome, Stopped, Passed, PackageKnown, PackageAsked, PrepareStep, SyncSkipped, Synced, DescriptorChanged,
     OpenedRows, OpenedKeys, OpenedNothing, OpenInterrupted, data
<1> QED BY Zenon, <1>1, <1>2, <1>3, <1>4, <1>6, <1>7, <1>8

(* No step gets back into the list. *)
LEMMA StepsLeft ==
  ASSUME TypeInv, ControlInv, StepOutcome
  PROVE  /\ \A x \in {"prepare", "prepareOrReuse", "cursor", "open", "message", "nextRows"} :
              x \in T' => x \in T \/ (x = "message" /\ err' # "none")
         /\ Head(todo) \in {"prepare", "prepareOrReuse", "cursor", "open"} => Head(todo) \notin T'
<1>1. CASE T = {Head(todo)} \cup T' /\ (\A b \in T' : Follows(Head(todo), b))
  BY <1>1 DEF Follows
<1>2. CASE T' \subseteq {"message"} /\ err' # "none"
  BY <1>2
<1>3. CASE PackageAsked /\ T' = {"returnPackage"} \cup (T \ {"ensurePackage"})
  BY <1>3 DEF PackageAsked, Step
<1>4. CASE ExecutedLob /\ T' = {"lobLength", "lobData"}
  BY <1>4
<1>5. CASE NextRows
  BY <1>5, NextList
<1> QED BY <1>1, <1>2, <1>3, <1>4, <1>5, NextSteps

(* What an operation begins with. *)
LEMMA BeginFrame ==
  ASSUME TypeInv, BeginOutcome
  PROVE  /\ op = None /\ valid /\ op' # None /\ err' = "none" /\ SyncFirst(todo') /\ UNCHANGED <<cfg, valid, pkg, srv>>
         /\ cli'.busy = cli.busy /\ cli'.cursorSeq = cli.cursorSeq
         /\ cli'.timeouts = cli.timeouts /\ cli'.packaged = cli.packaged
         /\ "cursor" \in T' => RoomForRows(op'.h)
         /\ U' \cap {"deleteDescriptor", "freeLob", "undoOpen", "rowsDone"} = {}
         /\ (\E r \in cli.rows : ClosingRows(r)) \/ (cli'.rows = cli.rows /\ U' \cap {"closeCursor", "releaseName"} = {})
         /\ (\E s \in cli.stmts : ClosingStmt(s)) \/ cli'.stmts = cli.stmts
<1>1. ASSUME NEW kind, NEW q, NEW h, NEW name, Begun(kind, q, h, name)
      PROVE  /\ op = None /\ valid /\ op' # None /\ err' = "none" /\ SyncFirst(todo') /\ UNCHANGED <<cfg, valid, pkg, srv>>
             /\ op'.h = h
  BY <1>1 DEF Begun
<1>2. CASE BegunPlain
  <2>1. PICK q \in Queries \cup {None}, kind \in {"exec", "ping"} : Begun(kind, q, None, "own")
    BY <1>2 DEF BegunPlain
  <2>2. UNCHANGED cli /\ U' = {} /\ "cursor" \notin T'
    BY <1>2 DEF BegunPlain
  <2> QED BY <1>1, <2>1, <2>2
<1>3. ASSUME NEW q \in Queries, NEW h \in Handles, Taken(h), BegunQuery(q, h) \/ BegunPrepare(q, h)
      PROVE  /\ "cursor" \in T' => RoomForRows(h)
             /\ U' \subseteq {"releaseId", "discard", "closeStatement"}
             /\ \E kind : Begun(kind, q, h, "own")
  <2>1. CASE BegunQuery(q, h)
    BY <2>1 DEF BegunQuery
  <2>2. CASE BegunPrepare(q, h)
    BY <2>2 DEF BegunPrepare, Binding
  <2> QED BY <1>3, <2>1, <2>2
<1>4. CASE \E q \in Queries, h \in Handles : Taken(h) /\ (BegunQuery(q, h) \/ BegunPrepare(q, h))
  <2>1. PICK q \in Queries, h \in Handles : Taken(h) /\ (BegunQuery(q, h) \/ BegunPrepare(q, h))
    BY <1>4
  <2>2. /\ "cursor" \in T' => RoomForRows(h)
        /\ U' \subseteq {"releaseId", "discard", "closeStatement"}
        /\ \E kind : Begun(kind, q, h, "own")
    BY <1>3, <2>1
  <2>3. /\ cli'.busy = cli.busy /\ cli'.cursorSeq = cli.cursorSeq /\ cli'.timeouts = cli.timeouts
        /\ cli'.packaged = cli.packaged /\ cli'.rows = cli.rows /\ cli'.stmts = cli.stmts
    BY <2>1, IdTaken
  <2> QED BY Zenon, <1>1, <2>2, <2>3
<1>5. CASE \E s \in cli.stmts : BegunStmt(s)
  <2>1. PICK s \in cli.stmts : BegunStmt(s)
    BY <1>5
  <2>2. UNCHANGED cli /\ U' = {} /\ ("cursor" \in T' => RoomForRows(s.h)) /\ \E kind : Begun(kind, s.q, s.h, s.name)
    BY <2>1 DEF BegunStmt, Binding
  <2> QED BY Zenon, <1>1, <2>2
<1>6. CASE \E s \in cli.stmts : ClosingStmt(s)
  <2>1. PICK s \in cli.stmts : ClosingStmt(s)
    BY <1>6
  <2>2. Begun("closeStmt", s.q, s.h, s.name) /\ T' = {} /\ U' = {"closeStatement"}
    BY <2>1 DEF ClosingStmt
  <2>3. /\ cli'.busy = cli.busy /\ cli'.cursorSeq = cli.cursorSeq /\ cli'.timeouts = cli.timeouts
        /\ cli'.packaged = cli.packaged /\ cli'.rows = cli.rows
    BY <2>1, StmtTaken DEF ClosingStmt
  <2> QED BY Zenon, <1>1, <1>6, <2>2, <2>3
<1>7. CASE \E r \in cli.rows : ClosingRows(r)
  <2>1. PICK r \in cli.rows : ClosingRows(r)
    BY <1>7
  <2>2. /\ Begun("closeRows", None, r.h, r.name) /\ T' = {} /\ U' \subseteq {"closeCursor", "closeStatement", "releaseName"}
    BY <2>1 DEF ClosingRows
  <2>3. /\ cli'.busy = cli.busy /\ cli'.cursorSeq = cli.cursorSeq /\ cli'.timeouts = cli.timeouts
        /\ cli'.packaged = cli.packaged /\ cli'.stmts = cli.stmts
    BY <2>1, RowTaken DEF ClosingRows
  <2> QED BY Zenon, <1>1, <1>7, <2>2, <2>3
<1> QED BY Zenon, <1>2, <1>4, <1>5, <1>6, <1>7 DEF BeginOutcome

LEMMA ReturnFrame ==
  ASSUME TypeInv, Return
  PROVE  /\ op # None /\ valid /\ op' = None /\ UNCHANGED <<cfg, valid, todo, undo, pkg, srv>> /\ T = {} /\ U = {} /\ err' = "none"
         /\ T' = {} /\ U' = {}
         /\ cli'.used = cli.used /\ cli'.rows = cli.rows /\ cli'.busy = cli.busy /\ cli'.cursorSeq = cli.cursorSeq
         /\ cli'.timeouts = cli.timeouts /\ cli'.packaged = cli.packaged
         /\ cli'.stmts = IF op.kind = "prepare" /\ err = "none"
                         THEN cli.stmts \cup {[q |-> op.q, h |-> op.h, name |-> op.name]} ELSE cli.stmts
<1>0. cli \in CliType
  BY TypeParts
<1>1. T = {} /\ U = {} /\ T' = {} /\ U' = {}
  BY Nothing DEF Return, T, U
<1>2. CASE op.kind = "prepare" /\ err = "none"
  <2>1. cli' = [cli EXCEPT !.stmts = cli.stmts \cup {[q |-> op.q, h |-> op.h, name |-> op.name]}]
    BY <1>2 DEF Return
  <2>2. /\ cli'.used = cli.used /\ cli'.rows = cli.rows /\ cli'.busy = cli.busy /\ cli'.cursorSeq = cli.cursorSeq
        /\ cli'.timeouts = cli.timeouts /\ cli'.packaged = cli.packaged
    BY <1>0, <2>1 DEF CliType
  <2>3. cli'.stmts = cli.stmts \cup {[q |-> op.q, h |-> op.h, name |-> op.name]}
    BY <1>0, <2>1 DEF CliType
  <2> QED BY <1>1, <1>2, <2>2, <2>3 DEF Return
<1>3. CASE ~(op.kind = "prepare" /\ err = "none")
  BY <1>1, <1>3 DEF Return
<1> QED BY Zenon, <1>2, <1>3

LEMMA NameStep ==
  ASSUME TypeInv, ControlInv, BatchInv, NameInv, PackageInv, [Next]_vars
  PROVE  NameInv'
(* The names of the cursors.                                               *)
<1>NamesKept. ASSUME valid, cli'.rows = cli.rows, cli'.busy = cli.busy, cli'.cursorSeq = cli.cursorSeq,
                     HasName' => HasName /\ op'.cursor = op.cursor /\ op'.default = op.default /\ op'.h = op.h,
                     op' # None /\ "cursor" \in T' => \/ op # None /\ "cursor" \in T /\ op'.h = op.h
                                                      \/ op'.h \in cli.busy => cli.cursorSeq < MaxCursor
              PROVE  NameInv'
  <2> USE <1>NamesKept
  <2>1. \A c, d, h : Named(c, d, h) => Named(c, d, h)'
    BY DEF Named
  <2>2. \A r \in cli'.rows : Named(r.cursor, r.default, r.h)'
    BY <2>1 DEF NameInv
  <2>3. \A r1, r2 \in cli'.rows : r1.cursor = r2.cursor => r1 = r2
    BY DEF NameInv
  <2>4. ASSUME HasName' PROVE Named(op.cursor, op.default, op.h)' /\ \A r \in cli'.rows : r.cursor # op'.cursor
    <3>1. Named(op.cursor, op.default, op.h) /\ \A r \in cli.rows : r.cursor # op.cursor
      BY <2>4 DEF NameInv
    <3> QED BY <2>4, <3>1 DEF Named
  <2>5. op' # None /\ "cursor" \in T' /\ op'.h \in cli'.busy => cli'.cursorSeq < MaxCursor
    BY DEF NameInv
  <2> QED BY <2>2, <2>3, <2>4, <2>5 DEF NameInv
(* The name of a cursor that is not opened is free again. *)
<1>NameFree. ASSUME valid, HasName, cli'.rows = cli.rows, cli'.cursorSeq = cli.cursorSeq,
                    cli'.busy = cli.busy \/ (op.default /\ cli'.busy = cli.busy \ {op.h}),
                    ~HasName', "cursor" \notin T'
             PROVE  NameInv'
  <2> USE <1>NameFree
  <2>1. \A r \in cli.rows : Named(r.cursor, r.default, r.h) /\ r.cursor # op.cursor
    BY DEF NameInv
  <2>2. op.default => op.cursor = <<"default", op.h>>
    BY DEF NameInv, Named
  <2>3. \A r \in cli.rows : Named(r.cursor, r.default, r.h)'
    <3> SUFFICES ASSUME NEW r \in cli.rows PROVE Named(r.cursor, r.default, r.h)'
      OBVIOUS
    <3>1. CASE r.default
      <4>1. r.cursor = <<"default", r.h>> /\ r.h \in cli.busy
        BY <2>1, <3>1 DEF Named
      <4>2. op.default => r.h # op.h
        BY <2>1, <2>2, <4>1
      <4>3. r.h \in cli'.busy
        BY <4>1, <4>2
      <4> QED BY <3>1, <4>1, <4>3 DEF Named
    <3>2. CASE ~r.default
      BY <2>1, <3>2 DEF Named
    <3> QED BY <3>1, <3>2
  <2>4. \A r1, r2 \in cli'.rows : r1.cursor = r2.cursor => r1 = r2
    BY DEF NameInv
  <2> QED BY <2>3, <2>4 DEF NameInv
<1>NameGiven. ASSUME OpenCursorName, valid
              PROVE  NameInv'
  <2> USE <1>NameGiven
  <2>0. cli \in CliType /\ op # None /\ op \in Operations
    BY TypeParts, OpType DEF OpenCursorName, Step
  <2>1. Step("cursor") /\ Continue /\ cli.cursorSeq \in Nat
    BY <2>0, ExecAssumption DEF OpenCursorName, CliType
  <2>2. "cursor" \notin T'
    <3>1. \A b \in T' : Follows("cursor", b)
      BY <2>1, Went
    <3> QED BY <3>1 DEF Follows
  <2>3. /\ \A r \in cli.rows : Named(r.cursor, r.default, r.h)
        /\ \A r1, r2 \in cli.rows : r1.cursor = r2.cursor => r1 = r2
    BY DEF NameInv
  <2>4. cli'.rows = cli.rows
    BY <2>0 DEF OpenCursorName, CliType
  <2>5. CASE op.h \notin cli.busy
    <3>1. cli'.busy = cli.busy \cup {op.h} /\ cli'.cursorSeq = cli.cursorSeq
      BY <2>0, <2>5 DEF OpenCursorName, CliType
    <3>2. op'.default = TRUE /\ op'.cursor = <<"default", op.h>> /\ op'.h = op.h
      BY Zenon, <2>0, <2>5 DEF OpenCursorName, Operations
    <3>3. Named(op.cursor, op.default, op.h)'
      BY <3>1, <3>2 DEF Named
    <3>4. \A r \in cli.rows : Named(r.cursor, r.default, r.h)'
      BY <2>3, <3>1 DEF Named
    <3>5. ASSUME NEW r \in cli.rows PROVE r.cursor # op'.cursor
      <4>1. CASE r.default
        <5>1. r.cursor = <<"default", r.h>> /\ r.h # op.h
          BY <2>3, <2>5, <4>1 DEF Named
        <5> QED BY <3>2, <5>1
      <4>2. CASE ~r.default
        <5>1. PICK n \in 1..cli.cursorSeq : r.cursor = <<"extra", n>>
          BY <2>3, <4>2 DEF Named
        <5> QED BY <3>2, <5>1
      <4> QED BY <4>1, <4>2
    <3> QED BY <2>2, <2>3, <2>4, <3>3, <3>4, <3>5 DEF NameInv
  <2>6. CASE op.h \in cli.busy
    <3> DEFINE k == cli.cursorSeq + 1
    <3>1. cli'.busy = cli.busy /\ cli'.cursorSeq = k
      BY <2>0, <2>6 DEF OpenCursorName, CliType
    <3>2. op'.default = FALSE /\ op'.cursor = <<"extra", k>> /\ op'.h = op.h
      BY Zenon, <2>0, <2>6, <3>1 DEF OpenCursorName, Operations
    <3>3. k \in 1..k /\ \A n \in 1..cli.cursorSeq : n \in 1..k /\ n # k
      BY <2>1
    <3> HIDE DEF k
    <3>4. Named(op.cursor, op.default, op.h)'
      BY <3>1, <3>2, <3>3 DEF Named
    <3>5. ASSUME NEW r \in cli.rows PROVE Named(r.cursor, r.default, r.h)' /\ r.cursor # op'.cursor
      <4>1. CASE r.default
        <5>1. r.cursor = <<"default", r.h>> /\ r.h \in cli.busy
          BY <2>3, <4>1 DEF Named
        <5> QED BY <3>1, <3>2, <4>1, <5>1 DEF Named
      <4>2. CASE ~r.default
        <5>1. PICK n \in 1..cli.cursorSeq : r.cursor = <<"extra", n>>
          BY <2>3, <4>2 DEF Named
        <5>2. n \in 1..cli'.cursorSeq /\ n # k
          BY <3>1, <3>3, <5>1
        <5> QED BY <3>2, <4>2, <5>1, <5>2 DEF Named
      <4> QED BY <4>1, <4>2
    <3> QED BY <2>2, <2>3, <2>4, <3>4, <3>5 DEF NameInv
  <2> QED BY <2>5, <2>6
<1>NameGoes. ASSUME StepOutcome
             PROVE  NameInv'
  <2> USE <1>NameGoes
  <2>0. op # None /\ valid /\ cli \in CliType
    BY Going, TypeParts
  <2>1. CASE OpenCursorName
    BY <2>0, <2>1, <1>NameGiven
  <2>2. CASE OpenedRows
    <3>1. Step("open") /\ op' = op /\ cli' = [cli EXCEPT !.rows = cli.rows \cup {NewRow}]
      BY <2>2 DEF OpenedRows
    <3>2. cli'.rows = cli.rows \cup {NewRow} /\ cli'.busy = cli.busy /\ cli'.cursorSeq = cli.cursorSeq
      BY <2>0, <3>1 DEF CliType
    <3>3. HasName /\ ~HasName'
      BY <2>0, <2>2, StepCalls DEF HasName
    <3>4. "cursor" \notin T'
      BY <3>1, OpenTop, StepsLeft
    <3>5. /\ NewRow.cursor = op.cursor /\ Named(NewRow.cursor, NewRow.default, NewRow.h)
          /\ \A r \in cli.rows : Named(r.cursor, r.default, r.h) /\ r.cursor # NewRow.cursor
          /\ \A r1, r2 \in cli.rows : r1.cursor = r2.cursor => r1 = r2
      BY <2>0, <3>3 DEF NameInv, NewRow
    <3> HIDE DEF NewRow
    <3>6. \A c, d, h : Named(c, d, h) => Named(c, d, h)'
      BY <3>2 DEF Named
    <3>7. \A r \in cli'.rows : Named(r.cursor, r.default, r.h)'
      BY <3>2, <3>5, <3>6
    <3>8. \A r1, r2 \in cli'.rows : r1.cursor = r2.cursor => r1 = r2
      BY <3>2, <3>5
    <3> QED BY <3>3, <3>4, <3>7, <3>8 DEF NameInv
  <2>3. CASE OpenedNothing
    <3>1. Step("open") /\ cli' = IF HasMarkers(op.q) \/ ~op.default THEN cli ELSE [cli EXCEPT !.busy = cli.busy \ {op.h}]
      BY <2>3 DEF OpenedNothing
    <3>2. cli'.rows = cli.rows /\ cli'.cursorSeq = cli.cursorSeq
      BY <2>0, <3>1 DEF CliType
    <3>3. cli'.busy = cli.busy \/ (op.default /\ cli'.busy = cli.busy \ {op.h})
      BY <2>0, <3>1 DEF CliType
    <3>4. HasName /\ ~HasName'
      BY <2>0, <2>3, StepCalls DEF HasName
    <3>5. "cursor" \notin T'
      BY <3>1, OpenTop, StepsLeft
    <3> QED BY <2>0, <3>2, <3>3, <3>4, <3>5, <1>NameFree
  <2>4. CASE ~OpenCursorName /\ ~OpenedRows /\ ~OpenedNothing
    <3>1. cli'.rows = cli.rows /\ cli'.busy = cli.busy /\ cli'.cursorSeq = cli.cursorSeq
      BY <2>4, StepFrame
    <3>2. op'.cursor = op.cursor /\ op'.default = op.default /\ op'.h = op.h
      BY <2>4, StepOp
    <3>3. "cursor" \in T' => "cursor" \in T
      BY StepsLeft
    <3>4. HasName' => HasName
      BY <2>0, <2>4, StepCalls DEF HasName
    <3> QED BY <2>0, <3>1, <3>2, <3>3, <3>4, <1>NamesKept
  <2> QED BY <2>1, <2>2, <2>3, <2>4
<1>1. CASE Begin
  <2>0. BeginOutcome
    BY <1>1, BeginCases
  <2>1. CASE \E r \in cli.rows : ClosingRows(r)
    <3>1. PICK r \in cli.rows : ClosingRows(r)
      BY Zenon, <2>1
    <3>2. /\ op'.cursor = r.cursor /\ op'.default = r.default /\ op'.h = r.h /\ "cursor" \notin T'
          /\ cli'.rows = cli.rows \ {r}
      BY <3>1, RowTaken DEF ClosingRows, Begun
    <3>3. cli'.busy = cli.busy /\ cli'.cursorSeq = cli.cursorSeq /\ valid
      BY <2>0, BeginFrame
    <3>4. /\ \A x \in cli.rows : Named(x.cursor, x.default, x.h)
          /\ \A r1, r2 \in cli.rows : r1.cursor = r2.cursor => r1 = r2
      BY <3>3 DEF NameInv
    <3>5. \A c, d, h : Named(c, d, h) => Named(c, d, h)'
      BY <3>3 DEF Named
    <3>6. \A x \in cli'.rows : Named(x.cursor, x.default, x.h)' /\ x.cursor # op'.cursor
      BY <3>2, <3>4, <3>5
    <3>7. Named(op.cursor, op.default, op.h)'
      BY <3>2, <3>3, <3>4 DEF Named
    <3> QED BY Zenon, <3>2, <3>4, <3>6, <3>7 DEF NameInv
  <2>2. CASE ~\E r \in cli.rows : ClosingRows(r)
    <3>1. /\ op = None /\ valid /\ cli'.busy = cli.busy /\ cli'.cursorSeq = cli.cursorSeq /\ cli'.rows = cli.rows
          /\ "cursor" \in T' => (op'.h \in cli.busy => cli.cursorSeq < MaxCursor)
          /\ U' \cap {"undoOpen", "closeCursor", "releaseName"} = {}
      BY Zenon, <2>0, <2>2, BeginFrame DEF RoomForRows
    <3>2. ~HasName'
      BY <3>1 DEF HasName
    <3> QED BY <3>1, <3>2, <1>NamesKept
  <2> QED BY <2>1, <2>2
<1>2. CASE Steps
  BY <1>2, StepCases, <1>NameGoes
<1>3. CASE Cleanup
  <2>1. PICK x \in Calls : Undone(x)
    BY <1>3, UndoCases, UndoFrame
  <2>2. /\ op # None /\ valid /\ U = {x} \cup U' /\ (\A b \in U' : Follows(x, b)) /\ T' \subseteq {"nextRows"}
        /\ op'.h = op.h /\ op'.cursor = op.cursor /\ op'.default = op.default
        /\ cli'.rows = cli.rows /\ cli'.cursorSeq = cli.cursorSeq
        /\ cli'.busy = IF x \in {"undoOpen", "releaseName"} /\ op.default THEN cli.busy \ {op.h} ELSE cli.busy
    BY <2>1 DEF Undone, UndoneOp
  <2>3. CASE x \in {"undoOpen", "releaseName"}
    <3>1. HasName /\ ~HasName'
      BY <2>2, <2>3 DEF HasName, Follows
    <3> QED BY <2>2, <2>3, <3>1, <1>NameFree
  <2>4. CASE x \notin {"undoOpen", "releaseName"}
    <3>1. HasName' => HasName
      BY <2>2 DEF HasName
    <3> QED BY <2>2, <2>4, <3>1, <1>NamesKept
  <2> QED BY <2>3, <2>4
<1>4. CASE Return
  <2>1. ~HasName'
    BY <1>4 DEF Return, HasName
  <2> QED BY <1>4, <2>1, ReturnFrame, <1>NamesKept
<1>5. CASE Replace
  BY <1>5 DEF Replace, NewConn, NameInv, HasName
<1>6. CASE CtxEnds \/ UNCHANGED vars
  <2>1. UNCHANGED <<valid, op, todo, undo, cli>>
    BY <1>6 DEF CtxEnds, vars, data
  <2> QED BY Zenon, <2>1 DEF NameInv, Named, HasName, T, U
<1> HIDE DEF NameInv
<1> QED BY <1>1, <1>2, <1>3, <1>4, <1>5, <1>6 DEF Next

-----------------------------------------------------------------------------
(* The cursors. *)
CursorsAre(cursors, known) ==
  IF "closeCursor" \in U THEN cursors = known \cup {op.cursor}
  ELSE IF "undoOpen" \in U /\ err = "ctx" THEN cursors = known \/ cursors = known \cup {op.cursor}
  ELSE cursors = known

LEMMA ServerStep ==
  ASSUME TypeInv, ControlInv, BatchInv, NameInv, PackageInv, ServerInv, [Next]_vars
  PROVE  ServerInv'
(* What is left on the server.                                             *)
<1>NotInterrupted. ASSUME StepOutcome
                   PROVE  err # "ctx"
  <2> USE <1>NotInterrupted
  <2>1. op # None /\ Head(todo) \in T
    BY NextSteps
  <2> QED BY <2>1 DEF ControlInv
(* Changing a descriptor is prepared for. *)
<1>ServerSteps. ASSUME StepOutcome, ServerInv
                PROVE  /\ "change" \in T' /\ "descriptor" \notin T' => "deleteDescriptor" \in U'
                       /\ "deleteDescriptor" \in U /\ T \cap {"descriptor", "change"} = {} => T' \cap {"descriptor", "change"} = {}
                       /\ "deleteDescriptor" \in U => "deleteDescriptor" \in U'
                       /\ "freeLob" \in U => "freeLob" \in U'
  <2> USE <1>ServerSteps
  <2>0. op # None /\ valid
    BY Going
  <2>1. ("deleteDescriptor" \in U => "deleteDescriptor" \in U') /\ ("freeLob" \in U => "freeLob" \in U')
    <3>1. OpenedKeys => U \cap {"deleteDescriptor", "freeLob"} = {}
      BY <2>0, Belongs DEF OpenedKeys, UndoOf
    <3> QED BY <3>1, StepCalls
  <2>2. CASE T = {Head(todo)} \cup T' /\ (Head(todo) = "descriptor" => NextDescriptorHandle)
    <3>1. CASE NextDescriptorHandle
      <4>1. "deleteDescriptor" \in U' /\ Head(todo) = "descriptor"
        BY <3>1, StepCalls DEF NextDescriptorHandle, Step
      <4> QED BY <2>1, <2>2, <4>1
    <3>2. CASE ~NextDescriptorHandle
      BY <2>0, <2>1, <2>2, <3>2 DEF ServerInv
    <3> QED BY <3>1, <3>2
  <2>3. CASE PackageAsked /\ T' = {"returnPackage"} \cup (T \ {"ensurePackage"})
    BY <2>0, <2>1, <2>3 DEF ServerInv
  <2>4. CASE T' \subseteq {"message"} \/ T' = {"lobLength", "lobData"}
    BY <2>1, <2>4
  <2>5. CASE NextRows
    <3>1. "change" \in T' => "descriptor" \in T'
      BY <2>5, NextList
    <3>2. "nextRows" \in T
      BY <2>5, StepIn DEF NextRows
    <3>3. "deleteDescriptor" \notin U
      BY <2>0, <3>2 DEF ControlInv
    <3> QED BY <2>1, <3>1, <3>3
  <2> QED BY <2>2, <2>3, <2>4, <2>5, NextSteps
(* The descriptor and the locator. *)
<1>HandlesGo. ASSUME StepOutcome
              PROVE  /\ op' # None /\ "change" \in T' /\ "descriptor" \notin T' => "deleteDescriptor" \in U'
                     /\ srv'.descriptors # {} => /\ op' # None /\ "deleteDescriptor" \in U'
                                                 /\ srv'.descriptors = {op'.descriptor}
                                                 /\ T' \cap {"descriptor", "change"} = {}
                     /\ srv'.locator => "freeLob" \in U'
  <2> USE <1>HandlesGo
  <2>0. op # None /\ valid /\ op' # None /\ srv \in SrvType
    BY Going, StepOp, TypeParts
  <2>1. /\ srv.descriptors # {} => /\ "deleteDescriptor" \in U /\ srv.descriptors = {op.descriptor}
                                   /\ T \cap {"descriptor", "change"} = {}
        /\ srv.locator => "freeLob" \in U
    BY <2>0 DEF ServerInv
  <2>2. srv'.locator => "freeLob" \in U'
    <3>1. CASE ExecutedLob
      BY <3>1, StepCalls
    <3>2. CASE ~ExecutedLob
      BY Zenon, <2>1, <3>2, StepFrame, <1>ServerSteps
    <3> QED BY <3>1, <3>2
  <2>3. ASSUME srv'.descriptors # {}
        PROVE  "deleteDescriptor" \in U' /\ srv'.descriptors = {op'.descriptor} /\ T' \cap {"descriptor", "change"} = {}
    <3>1. CASE DescriptorChanged
      <4>1. /\ Step("change") /\ Continue /\ op' = op /\ undo' = undo
            /\ srv' = [srv EXCEPT !.descriptors = srv.descriptors \cup {op.descriptor}]
        BY <3>1 DEF DescriptorChanged
      <4>2. T = {"change"} \cup T' /\ \A b \in T' : Follows("change", b)
        BY <4>1, Went
      <4>3. "descriptor" \notin T /\ T' \cap {"descriptor", "change"} = {}
        BY <4>2 DEF Follows
      <4>4. "deleteDescriptor" \in U
        BY <2>0, <4>2, <4>3 DEF ServerInv
      <4>5. srv.descriptors = {}
        BY <2>1, <4>2
      <4>6. srv'.descriptors = srv.descriptors \cup {op.descriptor}
        BY <2>0, <4>1 DEF SrvType
      <4>7. U' = U
        BY <4>1 DEF U
      <4> QED BY <4>1, <4>3, <4>4, <4>5, <4>6, <4>7
    <3>2. CASE ~DescriptorChanged
      <4>1. srv'.descriptors = srv.descriptors
        BY <3>2, StepFrame
      <4>2. "deleteDescriptor" \in U /\ srv.descriptors = {op.descriptor} /\ T \cap {"descriptor", "change"} = {}
        BY <2>1, <2>3, <4>1
      <4>3. ~NextDescriptorHandle
        <5>1. Step("descriptor") => "descriptor" \in T
          BY StepIn
        <5> QED BY <4>2, <5>1 DEF NextDescriptorHandle
      <4> QED BY <4>1, <4>2, <4>3, StepOp, <1>ServerSteps
    <3> QED BY <3>1, <3>2
  <2>4. "change" \in T' /\ "descriptor" \notin T' => "deleteDescriptor" \in U'
    BY <1>ServerSteps
  <2> QED BY <2>0, <2>2, <2>3, <2>4
<1>CursorsGo. ASSUME StepOutcome
              PROVE  CursorsAre(srv.cursors, RowCursors)'
  <2> USE <1>CursorsGo
  <2>0. op # None /\ valid /\ srv \in SrvType /\ cli \in CliType /\ err # "ctx"
    BY Going, TypeParts, <1>NotInterrupted
  <2>1. srv.cursors = IF "closeCursor" \in U THEN RowCursors \cup {op.cursor} ELSE RowCursors
    BY <2>0 DEF ServerInv
  <2>2. CASE OpenedRows \/ OpenedKeys \/ OpenInterrupted \/ OpenedNothing
    <3>1. Step("open") /\ op' = op
      BY <2>2 DEF OpenedRows, OpenedKeys, OpenInterrupted, OpenedNothing
    <3>2. /\ undo # <<>> /\ Head(undo) = "undoOpen" /\ "undoOpen" \in U
          /\ U = {"undoOpen"} \cup Range(Tail(undo)) /\ \A b \in Range(Tail(undo)) : Follows("undoOpen", b)
      BY <3>1, OpenTop, Popped DEF TypeInv, ControlInv, U
    <3>3. "closeCursor" \notin U
      BY <3>2 DEF Follows
    <3>4. srv.cursors = RowCursors
      BY <2>1, <3>3
    <3>5. CASE OpenedRows
      <4>1. srv'.cursors = srv.cursors \cup {op.cursor} /\ cli'.rows = cli.rows \cup {NewRow}
        BY <2>0, <3>5 DEF OpenedRows, CursorOpened, SrvType, CliType
      <4>2. RowCursors' = RowCursors \cup {op.cursor}
        <5>1. NewRow.cursor = op.cursor
          BY DEF NewRow
        <5> QED BY <4>1, <5>1 DEF RowCursors
      <4>3. "closeCursor" \notin U' /\ "undoOpen" \notin U'
        BY <3>5, StepCalls
      <4> QED BY <3>4, <4>1, <4>2, <4>3 DEF CursorsAre
    <3>6. CASE OpenedKeys
      <4>1. srv'.cursors = srv.cursors \cup {op.cursor} /\ cli' = cli
        BY <2>0, <3>6 DEF OpenedKeys, CursorOpened, SrvType
      <4>2. RowCursors' = RowCursors
        BY <4>1 DEF RowCursors
      <4>3. "closeCursor" \in U'
        BY <3>6, StepCalls
      <4> QED BY <3>1, <3>4, <4>1, <4>2, <4>3 DEF CursorsAre
    <3>7. CASE OpenInterrupted
      <4>1. srv'.cursors = srv.cursors \cup {op.cursor} /\ cli' = cli /\ undo' = undo /\ err' = "ctx"
        BY <2>0, <3>7 DEF OpenInterrupted, CursorOpened, SrvType, Fail
      <4>2. RowCursors' = RowCursors /\ U' = U
        BY <4>1 DEF RowCursors, U
      <4> QED BY Zenon, <3>1, <3>2, <3>3, <3>4, <4>1, <4>2 DEF CursorsAre
    <3>8. CASE OpenedNothing
      <4>1. srv' = srv /\ cli'.rows = cli.rows
        BY <2>0, <3>8 DEF OpenedNothing, CliType
      <4>2. RowCursors' = RowCursors
        BY <4>1 DEF RowCursors
      <4>3. "closeCursor" \notin U' /\ "undoOpen" \notin U'
        BY <3>8, StepCalls
      <4> QED BY <3>4, <4>1, <4>2, <4>3 DEF CursorsAre
    <3> QED BY <2>2, <3>5, <3>6, <3>7, <3>8
  <2>3. CASE OpenCursorName
    <3>1. Step("cursor") /\ srv' = srv /\ cli'.rows = cli.rows /\ err' = err
      BY <2>0, <2>3 DEF OpenCursorName, Continue, CliType
    <3>2. "cursor" \in T
      BY <3>1, StepIn
    <3>3. "closeCursor" \notin U
      BY <2>0, <3>2 DEF ControlInv
    <3>4. OpenedKeys => Head(todo) = "open"
      BY DEF OpenedKeys, Step
    <3>5. "closeCursor" \notin U'
      BY <3>1, <3>3, <3>4, StepCalls DEF Step
    <3>6. RowCursors' = RowCursors
      BY <3>1 DEF RowCursors
    <3> QED BY <2>0, <2>1, <3>1, <3>3, <3>5, <3>6 DEF CursorsAre
  <2>4. CASE ~OpenedRows /\ ~OpenedKeys /\ ~OpenInterrupted /\ ~OpenedNothing /\ ~OpenCursorName
    <3>1. srv'.cursors = srv.cursors /\ cli'.rows = cli.rows
      BY <2>4, StepFrame
    <3>2. RowCursors' = RowCursors
      BY <3>1 DEF RowCursors
    <3>3. op'.cursor = op.cursor
      BY <2>4, StepOp
    <3>4. "closeCursor" \in U' <=> "closeCursor" \in U
      BY <2>4, StepCalls
    <3> QED BY <2>1, <3>1, <3>2, <3>3, <3>4 DEF CursorsAre
  <2> QED BY <2>2, <2>3, <2>4
<1>0. op = None => U = {} /\ T = {}
  BY Nothing DEF ControlInv, T, U
<1>1. CASE Begin
  <2>0. BeginOutcome
    BY <1>1, BeginCases
  <2>1. /\ op = None /\ valid /\ srv' = srv /\ U' \cap {"deleteDescriptor", "freeLob", "undoOpen"} = {}
        /\ (\E r \in cli.rows : ClosingRows(r)) \/ (cli'.rows = cli.rows /\ "closeCursor" \notin U')
    BY <2>0, BeginFrame
  <2>2. srv.descriptors = {} /\ ~srv.locator /\ srv.cursors = RowCursors
    BY <1>0, <2>1 DEF ServerInv
  <2>3. "change" \in T' => "descriptor" \in T'
    BY <2>0, BegunBinds
  <2>4. CASE \E r \in cli.rows : ClosingRows(r)
    <3>1. PICK r \in cli.rows : ClosingRows(r)
      BY <2>4
    <3>2. op'.cursor = r.cursor /\ cli'.rows = cli.rows \ {r} /\ "closeCursor" \in U'
      BY <3>1, RowTaken DEF ClosingRows
    <3>3. RowCursors = RowCursors' \cup {r.cursor}
      BY <3>1, <3>2 DEF RowCursors
    <3> QED BY <2>1, <2>2, <2>3, <3>2, <3>3 DEF ServerInv
  <2>5. CASE cli'.rows = cli.rows /\ "closeCursor" \notin U'
    <3>1. RowCursors' = RowCursors
      BY <2>5 DEF RowCursors
    <3> QED BY <2>1, <2>2, <2>3, <2>5, <3>1 DEF ServerInv
  <2> QED BY <2>1, <2>4, <2>5
<1>2. CASE Steps
  <2>1. StepOutcome
    BY <1>2, StepCases
  <2>2. CursorsAre(srv.cursors, RowCursors)'
    BY <2>1, <1>CursorsGo
  <2>3. IF "closeCursor" \in U' THEN srv'.cursors = RowCursors' \cup {op'.cursor}
        ELSE IF "undoOpen" \in U' /\ err' = "ctx"
        THEN srv'.cursors = RowCursors' \/ srv'.cursors = RowCursors' \cup {op'.cursor}
        ELSE srv'.cursors = RowCursors'
    BY <2>2 DEF CursorsAre
  <2> QED BY Zenon, <2>1, <2>3, <1>HandlesGo DEF ServerInv
<1>3. ASSUME Cleanup, valid' PROVE ServerInv'
  <2>1. PICK x \in Calls : Undone(x) /\ UndoneThere(x)
    BY <1>3, UndoCases, UndoFrame
  <2>2. /\ op # None /\ valid /\ U = {x} \cup U' /\ (\A b \in U' : Follows(x, b)) /\ T = {} /\ T' \subseteq {"nextRows"}
        /\ op' # None /\ op'.descriptor = op.descriptor /\ op'.cursor = op.cursor /\ err' = err /\ cli'.rows = cli.rows
    BY <2>1 DEF Undone, UndoneOp
  <2>3. /\ srv'.descriptors = IF x = "deleteDescriptor" THEN srv.descriptors \ {op.descriptor} ELSE srv.descriptors
        /\ srv'.cursors = IF x = "closeCursor" \/ (x = "undoOpen" /\ err = "ctx") THEN srv.cursors \ {op.cursor}
                          ELSE srv.cursors
        /\ srv'.locator = IF x = "freeLob" THEN FALSE ELSE srv.locator
    BY <2>1 DEF UndoneThere
  <2>4. RowCursors' = RowCursors
    BY <2>2 DEF RowCursors
  <2>5. srv'.descriptors # {} => /\ "deleteDescriptor" \in U' /\ srv'.descriptors = {op'.descriptor}
                                 /\ T' \cap {"descriptor", "change"} = {}
    <3>1. srv.descriptors # {} => "deleteDescriptor" \in U /\ srv.descriptors = {op.descriptor}
      BY <2>2 DEF ServerInv
    <3> QED BY <2>2, <2>3, <3>1
  <2>6. srv'.locator => "freeLob" \in U'
    <3>1. srv.locator => "freeLob" \in U
      BY <2>2 DEF ServerInv
    <3> QED BY Zenon, <2>2, <2>3, <3>1
  <2>7. IF "closeCursor" \in U THEN srv.cursors = RowCursors \cup {op.cursor}
        ELSE IF "undoOpen" \in U /\ err = "ctx"
        THEN srv.cursors = RowCursors \/ srv.cursors = RowCursors \cup {op.cursor}
        ELSE srv.cursors = RowCursors
    BY <2>2 DEF ServerInv
  <2>8. CASE x \in {"closeCursor", "undoOpen"}
    <3>1. op.cursor \notin RowCursors
      BY <2>2, <2>8 DEF NameInv, HasName, RowCursors
    <3>2. "closeCursor" \notin U' /\ "undoOpen" \notin U' /\ (x = "undoOpen" => "closeCursor" \notin U)
      BY <2>2, <2>8 DEF Follows
    <3>3. srv'.cursors = RowCursors
      BY <2>2, <2>3, <2>7, <2>8, <3>1, <3>2
    <3> QED BY <2>2, <2>4, <2>5, <2>6, <3>2, <3>3 DEF ServerInv
  <2>9. CASE x \notin {"closeCursor", "undoOpen"}
    <3>1. ("closeCursor" \in U' <=> "closeCursor" \in U) /\ ("undoOpen" \in U' <=> "undoOpen" \in U)
      BY <2>2, <2>9
    <3>2. srv'.cursors = srv.cursors
      BY <2>3, <2>9
    <3> QED BY Zenon, <2>2, <2>4, <2>5, <2>6, <2>7, <3>1, <3>2 DEF ServerInv
  <2> QED BY <2>8, <2>9
<1>4. CASE Return
  <2>1. /\ op # None /\ valid /\ op' = None /\ srv' = srv /\ U = {} /\ U' = {} /\ cli'.rows = cli.rows
    BY <1>4, ReturnFrame
  <2>2. srv.descriptors = {} /\ ~srv.locator /\ srv.cursors = RowCursors
    BY <2>1 DEF ServerInv
  <2>3. RowCursors' = RowCursors
    BY <2>1 DEF RowCursors
  <2> QED BY <2>1, <2>2, <2>3 DEF ServerInv
<1>5. CASE Replace
  <2>1. op' = None /\ undo' = <<>> /\ cli'.rows = {} /\ srv'.descriptors = {} /\ ~srv'.locator /\ srv'.cursors = {}
    BY Zenon, <1>5 DEF Replace, NewConn, NewJob
  <2>2. U' = {} /\ RowCursors' = {}
    BY <2>1, Nothing DEF U, RowCursors
  <2> QED BY <2>1, <2>2 DEF ServerInv
<1>6. CASE CtxEnds \/ UNCHANGED vars
  <2>1. UNCHANGED <<valid, op, todo, undo, err, cli, srv>>
    BY <1>6 DEF CtxEnds, vars, data
  <2>2. T' = T /\ U' = U /\ RowCursors' = RowCursors
    BY <2>1 DEF T, U, RowCursors
  <2> QED BY <2>1, <2>2 DEF ServerInv
<1>7. ~valid' => ServerInv'
  BY DEF ServerInv
<1> HIDE DEF ServerInv
<1> QED BY <1>1, <1>2, <1>3, <1>4, <1>5, <1>6, <1>7 DEF Next

-----------------------------------------------------------------------------
(* The ids in use.                                                         *)
Distinct ==
  /\ \A s, t \in cli.stmts : s.h = t.h => s = t
  /\ \A r, t \in OwnRows : r.h = t.h => r = t
  /\ \A s \in cli.stmts, r \in OwnRows : s.h # r.h

KeysInv ==
  /\ op # None /\ op.kind = "keys" /\ err = "none" /\ U \cap {"releaseId", "discard"} # {} => "open" \in T
  /\ op # None /\ T \cap {"prepare", "prepareOrReuse"} # {} => Holds

LEMMA IdsParts ==
  ASSUME IdsInv, valid
  PROVE  /\ cli.used = Base \cup (IF Holds THEN {op.h} ELSE {})
         /\ Holds => (op.h \in Base <=> Handed)
         /\ Distinct /\ KeysInv
BY DEF IdsInv, Distinct, KeysInv

LEMMA BaseKept ==
  ASSUME cli'.stmts = cli.stmts, cli'.rows = cli.rows
  PROVE  OwnRows' = OwnRows /\ Base' = Base /\ (Distinct => Distinct')
BY DEF OwnRows, Base, Distinct

(* A step keeps the id, which is not yet the rows'. *)
LEMMA HoldsGo ==
  ASSUME TypeInv, ControlInv, BatchInv, NameInv, StepOutcome
  PROVE  (Holds' <=> Holds) /\ ~Handed
<1> DEFINE R == {"releaseId", "discard", "closeStatement"}
<1>0. op # None /\ op' # None /\ op'.kind = op.kind /\ Head(todo) \in T
  BY StepOp, NextSteps
<1>1. (U' \cap R # {}) <=> (U \cap R # {})
  BY StepCalls
<1>2. op.kind = "prepare" => "discard" \in U
  BY <1>0 DEF ControlInv
<1>3. (Holds <=> U \cap R # {}) /\ (Holds' <=> U' \cap R # {})
  BY <1>0, <1>1, <1>2 DEF Holds
<1>4. ~Handed
  BY <1>0 DEF Handed, ControlInv
<1> QED BY <1>1, <1>3, <1>4

LEMMA NoError ==
  ASSUME StepOutcome, err' = "none"
  PROVE  err = "none"
BY Zenon DEF StepOutcome, Stopped, Stops, Passed, PackageKnown, PackageAsked, Prepared, PrepareRejected, SyncSkipped, Synced,
   NextDescriptorHandle, DescriptorChanged, OpenCursorName, Executed, ExecutedLob, ExecuteStopped, OpenedRows, OpenedKeys,
   OpenedNothing, OpenInterrupted, NextRows, Continue, Fail, Rejected

(* A deferred call that gives up the id. *)
LEMMA IdGivenUp ==
  ASSUME TypeInv, ControlInv, NEW x \in Calls, Undone(x), GivesUp(x) \/ x = "releaseId"
  PROVE  /\ Holds /\ ~Handed /\ ~Holds'
         /\ ~(op.kind = "prepare" /\ err = "none") /\ U' \subseteq {"releaseName"} /\ T' = {}
<1>0. /\ op # None /\ op' # None /\ U = {x} \cup U' /\ (\A b \in U' : Follows(x, b)) /\ T = {}
      /\ err' = err /\ op'.kind = op.kind /\ (x # "rowsDone" => T' = {})
  BY Zenon DEF Undone, UndoneOp
<1>1. UndoOf(op.kind, x)
  BY <1>0, Belongs
<1>2. Holds
  BY <1>0 DEF Holds, GivesUp
<1>3. U' \subseteq {"releaseName"} /\ T' = {}
  BY <1>0 DEF GivesUp, Follows
<1>4. ~Handed
  <2>1. x = "releaseId" => "discard" \notin U
    BY <1>0 DEF Follows
  <2> QED BY <1>0, <1>1, <2>1 DEF Handed, GivesUp, UndoOf
<1>5. ~(op.kind = "prepare" /\ err = "none")
  BY <1>1 DEF GivesUp, UndoOf
<1>6. ~Holds'
  BY <1>0, <1>3, <1>5 DEF Holds
<1> QED BY <1>2, <1>3, <1>4, <1>5, <1>6

LEMMA IdsStep ==
  ASSUME TypeInv, ControlInv, BatchInv, NameInv, PackageInv, IdsInv, [Next]_vars
  PROVE  IdsInv'
<1>IdsMade. ASSUME cli'.used = Base' \cup (IF Holds' THEN {op'.h} ELSE {}), Holds' => (op'.h \in Base' <=> Handed'), Distinct', KeysInv'
            PROVE  IdsInv'
  BY <1>IdsMade DEF IdsInv, Distinct, KeysInv
<1>IdsBegin. ASSUME BeginOutcome
             PROVE  IdsInv'
  <2> USE <1>IdsBegin
  <2>0. op = None /\ valid /\ op' # None /\ err' = "none"
    BY BeginFrame
  <2>1. cli.used = Base /\ Distinct
    BY <2>0, IdsParts DEF Holds
  <2>2. ASSUME cli' = cli, U' = {}, op'.kind # "prepare", T' \cap {"prepare", "prepareOrReuse"} = {} PROVE IdsInv'
    <3>1. OwnRows' = OwnRows /\ Base' = Base /\ Distinct'
      BY <2>1, <2>2, BaseKept
    <3>2. ~Holds' /\ KeysInv'
      BY <2>2 DEF Holds, KeysInv
    <3> QED BY <2>1, <2>2, <3>1, <3>2, <1>IdsMade
  <2>3. CASE BegunPlain
    BY <2>2, <2>3 DEF BegunPlain, Begun
  <2>4. CASE \E q \in Queries, h \in Handles : Taken(h) /\ (BegunQuery(q, h) \/ BegunPrepare(q, h))
    <3>1. PICK q \in Queries, h \in Handles : Taken(h) /\ (BegunQuery(q, h) \/ BegunPrepare(q, h))
      BY <2>4
    <3>2. /\ cli'.used = cli.used \cup {h} /\ h \notin cli.used /\ cli'.stmts = cli.stmts /\ cli'.rows = cli.rows
      BY Zenon, <3>1, IdTaken
    <3>3. OwnRows' = OwnRows /\ Base' = Base /\ Distinct'
      BY <2>1, <3>2, BaseKept
    <3>4. /\ op'.h = h /\ U' \cap {"releaseId", "discard", "closeStatement"} # {}
          /\ op'.kind \in {"query", "queryTransient", "keys"} => "open" \in T'
      <4>1. CASE BegunQuery(q, h)
        BY <4>1 DEF BegunQuery, Begun
      <4>2. CASE BegunPrepare(q, h)
        BY <4>2 DEF BegunPrepare, Begun
      <4> QED BY <3>1, <4>1, <4>2
    <3>5. Holds' /\ ~Handed' /\ KeysInv'
      BY <2>0, <3>4 DEF Holds, Handed, KeysInv
    <3> QED BY Zenon, <2>1, <3>2, <3>3, <3>4, <3>5, <1>IdsMade
  <2>5. CASE \E s \in cli.stmts : BegunStmt(s)
    BY <2>2, <2>5 DEF BegunStmt, Begun, Binding
  <2>6. CASE \E s \in cli.stmts : ClosingStmt(s)
    <3>1. PICK s \in cli.stmts : ClosingStmt(s)
      BY Zenon, <2>6
    <3>2. cli'.used = cli.used /\ cli'.stmts = cli.stmts \ {s} /\ cli'.rows = cli.rows
      BY <3>1, StmtTaken DEF ClosingStmt
    <3>3. op'.h = s.h /\ U' = {"closeStatement"} /\ op'.kind = "closeStmt" /\ T' = {}
      BY <3>1 DEF ClosingStmt, Begun
    <3>4. OwnRows' = OwnRows
      BY <3>2 DEF OwnRows
    <3>5. Base = Base' \cup {s.h} /\ s.h \notin Base'
      BY <2>1, <3>1, <3>2, <3>4 DEF Base, Distinct
    <3>6. Distinct'
      BY <2>1, <3>2, <3>4 DEF Distinct
    <3>7. Holds' /\ ~Handed' /\ KeysInv'
      BY <2>0, <3>3 DEF Holds, Handed, KeysInv
    <3> QED BY Zenon, <2>1, <3>2, <3>3, <3>5, <3>6, <3>7, <1>IdsMade
  <2>7. CASE \E r \in cli.rows : ClosingRows(r)
    <3>1. PICK r \in cli.rows : ClosingRows(r)
      BY <2>7
    <3>2. cli'.used = cli.used /\ cli'.stmts = cli.stmts /\ cli'.rows = cli.rows \ {r}
      BY <3>1, RowTaken DEF ClosingRows
    <3>3. /\ op'.h = r.h /\ op'.kind = "closeRows" /\ T' = {}
          /\ U' = {"closeCursor"} \cup (IF r.own THEN {"closeStatement"} ELSE {}) \cup {"releaseName"}
      BY <3>1 DEF ClosingRows, Begun
    <3>4. OwnRows' = OwnRows \ {r}
      BY <3>2 DEF OwnRows
    <3>5. Distinct' /\ KeysInv' /\ ~Handed'
      BY <2>1, <3>2, <3>3, <3>4 DEF Distinct, KeysInv, Handed
    <3>6. CASE r.own
      <4>1. Base = Base' \cup {r.h} /\ r.h \notin Base'
        <5>1. r \in OwnRows
          BY <3>6, <3>1 DEF OwnRows
        <5> QED BY <2>1, <3>2, <3>4, <5>1 DEF Base, Distinct
      <4>2. Holds'
        BY <2>0, <3>3, <3>6 DEF Holds
      <4> QED BY <2>1, <3>2, <3>3, <3>5, <4>1, <4>2, <1>IdsMade
    <3>7. CASE ~r.own
      <4>1. OwnRows' = OwnRows
        BY <3>4, <3>7 DEF OwnRows
      <4>2. Base' = Base
        BY <3>2, <4>1 DEF Base
      <4>3. ~Holds'
        BY <3>3, <3>7 DEF Holds
      <4> QED BY <2>1, <3>2, <3>5, <4>2, <4>3, <1>IdsMade
    <3> QED BY <3>6, <3>7
  <2> QED BY Zenon, <2>3, <2>4, <2>5, <2>6, <2>7 DEF BeginOutcome
(* An open that goes on has opened a cursor. *)
<1>OpenGoes. ASSUME StepOutcome, "open" \in T, "open" \notin T', err' = "none"
             PROVE  OpenedRows \/ OpenedKeys
  <2> USE <1>OpenGoes
  <2>0. op # None
    BY Going
  <2>1. op.kind \in {"query", "keys", "queryTransient", "queryStmt"}
    BY <2>0, KindOf
  <2>2. ~ExecutedLob /\ ~NextRows
    <3>1. (ExecutedLob => "execute" \in T) /\ (NextRows => "nextRows" \in T)
      BY StepIn DEF ExecutedLob, NextRows
    <3> QED BY <2>0, <2>1, <3>1, KindOf
  <2>3. T = {Head(todo)} \cup T' /\ Continue
    BY <2>2, NextSteps
  <2>4. Step("open")
    BY <2>0, <2>3, Going DEF Step
  <2>5. err = "none"
    BY <2>4, OpenTop
  <2> QED
    BY Zenon, <2>4, <2>5 DEF StepOutcome, Stopped, Stops, Passed, Quiet, PackageKnown, PackageAsked, Prepared, PrepareRejected,
       SyncSkipped, Synced, NextDescriptorHandle, DescriptorChanged, OpenCursorName, Executed, ExecutedLob, ExecuteStopped,
       OpenedNothing, OpenInterrupted, Fail, NextRows, Step
<1>IdsGoes. ASSUME StepOutcome
            PROVE  IdsInv'
  <2> USE <1>IdsGoes
  <2>0. /\ op # None /\ valid /\ op' # None /\ op'.kind = op.kind /\ op'.h = op.h /\ Head(todo) \in T
        /\ cli'.used = cli.used /\ cli'.stmts = cli.stmts
    BY Going, StepOp, NextSteps, StepFrame
  <2>1. /\ cli.used = Base \cup (IF Holds THEN {op.h} ELSE {}) /\ (Holds => (op.h \in Base <=> Handed))
        /\ Distinct /\ KeysInv
    BY <2>0, IdsParts
  <2>2. (Holds' <=> Holds) /\ ~Handed
    BY HoldsGo
  <2>3. KeysInv'
    <3>0. op' # None /\ T' \cap {"prepare", "prepareOrReuse"} # {} => Holds'
      BY <2>0, <2>1, <2>2, StepsLeft DEF KeysInv
    <3> SUFFICES ASSUME op.kind = "keys", err' = "none", U' \cap {"releaseId", "discard"} # {} PROVE "open" \in T'
      BY <2>0, <3>0 DEF KeysInv
    <3>1. err = "none"
      BY <2>0, NoError
    <3>2. U \cap {"releaseId", "discard"} # {}
      BY StepCalls
    <3>3. "open" \in T
      BY <2>0, <2>1, <3>1, <3>2 DEF KeysInv
    <3>4. ~OpenedRows /\ ~OpenedKeys
      BY StepCalls DEF OpenedRows
    <3> QED BY <3>3, <3>4, <1>OpenGoes
  <2>4. CASE OpenedRows
    <3>1. /\ Step("open") /\ Continue /\ op.kind # "keys" /\ cli' = [cli EXCEPT !.rows = cli.rows \cup {NewRow}]
      BY <2>4 DEF OpenedRows
    <3>2. cli'.rows = cli.rows \cup {NewRow}
      BY <3>1, TypeParts DEF CliType
    <3>3. T = {"open"} /\ err = "none" /\ op.kind \in {"query", "queryTransient", "queryStmt"}
      BY <3>1, OpenTop
    <3>4. NewRow.h = op.h /\ (NewRow.own <=> op.kind # "queryStmt")
      BY Zenon DEF NewRow
    <3> HIDE DEF NewRow
    <3>5. CASE op.kind = "queryStmt"
      <4>1. OwnRows' = OwnRows
        BY <3>2, <3>4, <3>5 DEF OwnRows
      <4>2. Base' = Base /\ Distinct'
        BY <2>0, <2>1, <4>1 DEF Base, Distinct
      <4>3. ~Holds
        BY <2>0, <3>5, Belongs DEF Holds, UndoOf
      <4> QED BY <2>0, <2>1, <2>2, <2>3, <4>2, <4>3, <1>IdsMade
    <3>6. CASE op.kind # "queryStmt"
      <4>1. OwnRows' = OwnRows \cup {NewRow}
        BY <3>2, <3>4, <3>6 DEF OwnRows
      <4>2. Base' = Base \cup {op.h}
        BY <2>0, <3>4, <4>1 DEF Base
      <4>3. "discard" \in U
        BY Zenon, <2>0, <3>3, <3>6 DEF ControlInv
      <4>4. "discard" \in U' /\ Holds /\ Holds'
        BY Zenon, <2>0, <2>2, <2>4, <4>3, StepCalls DEF Holds
      <4>5. op.h \notin Base
        BY Zenon, <2>1, <2>2, <4>4
      <4>6. \A s \in cli.stmts : s.h # op.h
        BY <4>5 DEF Base
      <4>7. \A r \in OwnRows : r.h # op.h
        BY <4>5 DEF Base
      <4>8. Distinct'
        BY <2>0, <2>1, <3>4, <4>1, <4>6, <4>7 DEF Distinct
      <4>9. Handed'
        <5>1. "open" \notin T' /\ err' = err
          BY <3>1, StepsLeft DEF Step, Continue
        <5> QED BY <2>0, <3>3, <3>6, <4>4, <5>1 DEF Handed
      <4>10. cli'.used = Base' \cup {op'.h}
        BY <2>0, <2>1, <4>2, <4>4
      <4> QED BY Zenon, <2>0, <2>3, <4>2, <4>4, <4>8, <4>9, <4>10, <1>IdsMade
    <3> QED BY <3>5, <3>6
  <2>5. CASE ~OpenedRows
    <3>1. cli'.rows = cli.rows
      BY <2>5, StepFrame
    <3>2. Base' = Base /\ Distinct'
      BY <2>0, <2>1, <3>1, BaseKept
    <3>3. ~Handed'
      <4> SUFFICES ASSUME Handed' PROVE FALSE
        OBVIOUS
      <4>1. op.kind \in {"query", "queryTransient"} /\ err' = "none" /\ "open" \notin T'
        BY <2>0 DEF Handed
      <4>2. err = "none"
        BY <4>1, NoError
      <4>3. "open" \in T
        BY Zenon, <2>0, <4>1, <4>2 DEF ControlInv
      <4> QED BY <2>5, <4>1, <4>3, <1>OpenGoes DEF OpenedKeys
    <3> QED BY <2>0, <2>1, <2>2, <2>3, <3>2, <3>3, <1>IdsMade
  <2> QED BY <2>4, <2>5
<1>IdsBack. ASSUME NEW x \in Calls, Undone(x)
            PROVE  IdsInv'
  <2> USE <1>IdsBack
  <2>0. /\ op # None /\ valid /\ op' # None /\ U = {x} \cup U' /\ (\A b \in U' : Follows(x, b)) /\ T = {}
        /\ T' \subseteq {"nextRows"} /\ err' = err /\ op'.kind = op.kind /\ op'.h = op.h
        /\ cli'.stmts = cli.stmts /\ cli'.rows = cli.rows
        /\ cli'.used = IF GivesUp(x) \/ x = "releaseId" THEN cli.used \ {op.h} ELSE cli.used
    BY DEF Undone, UndoneOp
  <2>1. /\ cli.used = Base \cup (IF Holds THEN {op.h} ELSE {}) /\ (Holds => (op.h \in Base <=> Handed))
        /\ Distinct /\ KeysInv
    BY <2>0, IdsParts
  <2>2. Base' = Base /\ Distinct'
    BY <2>0, <2>1, BaseKept
  <2>3. KeysInv'
    BY <2>0, <2>1 DEF KeysInv
  <2>4. UndoOf(op.kind, x)
    BY <2>0, Belongs
  <2>5. CASE GivesUp(x) \/ x = "releaseId"
    <3>1. Holds /\ ~Handed /\ ~Holds'
      BY <2>5, IdGivenUp
    <3>2. cli'.used = Base
      BY Zenon, <2>0, <2>1, <2>5, <3>1
    <3> QED BY <2>2, <2>3, <3>1, <3>2, <1>IdsMade
  <2>6. CASE x = "discard" /\ ~GivesUp(x)
    <3>1. err = "none" /\ U' = {} /\ Holds
      BY <2>0, <2>6 DEF GivesUp, Follows, Holds
    <3>2. op.kind \in {"query", "keys", "prepare", "queryTransient"}
      BY <2>4, <2>6 DEF UndoOf
    <3>3. op.kind # "keys"
      BY <2>0, <2>1, <2>6, <3>1 DEF KeysInv
    <3>4. Handed <=> op.kind # "prepare"
      BY <2>0, <2>6, <3>1, <3>2, <3>3 DEF Handed
    <3>5. (Holds' <=> op.kind = "prepare") /\ ~Handed'
      BY <2>0, <3>1 DEF Holds, Handed
    <3> QED BY Zenon, <2>0, <2>1, <2>2, <2>3, <2>6, <3>1, <3>4, <3>5, <1>IdsMade
  <2>7. CASE x \notin {"releaseId", "discard", "closeStatement"}
    <3>1. ~GivesUp(x) /\ x # "releaseId"
      BY <2>7 DEF GivesUp
    <3>2. (Holds' <=> Holds) /\ (Handed' <=> Handed)
      BY <2>0, <2>7 DEF Holds, Handed
    <3> QED BY Zenon, <2>0, <2>1, <2>2, <2>3, <3>1, <3>2, <1>IdsMade
  <2> QED BY <2>5, <2>6, <2>7 DEF GivesUp
<1>1. CASE Begin
  BY <1>1, BeginCases, <1>IdsBegin
<1>2. CASE Steps
  BY <1>2, StepCases, <1>IdsGoes
<1>3. CASE Cleanup
  BY <1>3, UndoCases, UndoFrame, <1>IdsBack
<1>4. CASE Return
  <2>1. /\ op # None /\ valid /\ op' = None /\ T = {} /\ U = {} /\ cli'.used = cli.used /\ cli'.rows = cli.rows
        /\ cli'.stmts = IF op.kind = "prepare" /\ err = "none"
                        THEN cli.stmts \cup {[q |-> op.q, h |-> op.h, name |-> op.name]} ELSE cli.stmts
    BY <1>4, ReturnFrame
  <2>2. /\ cli.used = Base \cup (IF Holds THEN {op.h} ELSE {}) /\ (Holds => (op.h \in Base <=> Handed))
        /\ Distinct
    BY <2>1, IdsParts
  <2>3. ~Holds' /\ KeysInv' /\ ~Handed
    BY <2>1 DEF Holds, KeysInv, Handed
  <2>4. OwnRows' = OwnRows
    BY <2>1 DEF OwnRows
  <2>5. CASE op.kind = "prepare" /\ err = "none"
    <3> DEFINE s == [q |-> op.q, h |-> op.h, name |-> op.name]
    <3>1. cli'.stmts = cli.stmts \cup {s} /\ s.h = op.h
      BY <2>1, <2>5
    <3> HIDE DEF s
    <3>2. Holds
      BY <2>1, <2>5 DEF Holds
    <3>3. cli.used = Base \cup {op.h} /\ op.h \notin Base
      BY <2>2, <2>3, <3>2
    <3>4. Base' = Base \cup {op.h}
      BY <2>4, <3>1 DEF Base
    <3>5. (\A t \in cli.stmts : t.h # op.h) /\ \A r \in OwnRows : r.h # op.h
      BY <3>3 DEF Base
    <3>6. Distinct'
      BY <2>2, <2>4, <3>1, <3>5 DEF Distinct
    <3> QED BY Zenon, <2>1, <2>3, <3>3, <3>4, <3>6, <1>IdsMade
  <2>6. CASE ~(op.kind = "prepare" /\ err = "none")
    <3>1. Base' = Base /\ Distinct' /\ ~Holds
      BY <2>1, <2>2, <2>6, BaseKept DEF Holds
    <3> QED BY Zenon, <2>1, <2>2, <2>3, <3>1, <1>IdsMade
  <2> QED BY <2>5, <2>6
<1>5. CASE Replace
  <2>1. op' = None /\ cli'.rows = {} /\ cli'.stmts = {} /\ cli'.used = {}
    BY <1>5 DEF Replace, NewConn
  <2>2. OwnRows' = {}
    BY <2>1 DEF OwnRows
  <2>3. Base' = {} /\ Distinct' /\ ~Holds' /\ KeysInv'
    BY <2>1, <2>2 DEF Base, Distinct, Holds, KeysInv
  <2> QED BY <2>1, <2>3, <1>IdsMade
<1>6. CASE CtxEnds \/ UNCHANGED vars
  <2>1. UNCHANGED <<valid, op, todo, undo, err, cli>>
    BY <1>6 DEF CtxEnds, vars, data
  <2>2. T' = T /\ U' = U /\ OwnRows' = OwnRows /\ Base' = Base
    BY <2>1 DEF T, U, OwnRows, Base
  <2>3. (Holds' <=> Holds) /\ (Handed' <=> Handed)
    BY <2>1, <2>2 DEF Holds, Handed
  <2> QED BY Zenon, <2>1, <2>2, <2>3 DEF IdsInv
<1> HIDE DEF IdsInv
<1> QED BY <1>1, <1>2, <1>3, <1>4, <1>5, <1>6 DEF Next
=============================================================================
