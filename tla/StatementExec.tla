--------------------------- MODULE StatementExec ---------------------------
(***************************************************************************)
(* The statement layer: what each operation of a Conn or Stmt sends, in    *)
(* which order and through which sender, what it leaves behind on the      *)
(* server, and what its deferred calls clean up when a step fails or the   *)
(* context ends.  Package creation, batches, generated keys and the query  *)
(* timeout in the RPB are part of it.                                      *)
(*                                                                         *)
(* database/sql runs one operation at a time.  An operation is the list    *)
(* todo of its remaining steps and the stack undo of its deferred calls;   *)
(* a step that fails empties todo.  HostConn gives the senders: a plain    *)
(* request (doRequest) loses the connection when the context is done, a    *)
(* statement request (doStatementRequest) keeps it when the server answers *)
(* the native cancel.                                                      *)
(***************************************************************************)
EXTENDS Integers, Sequences, FiniteSets

CONSTANTS
  Queries,        \* the statements of the application
  PackageHolds,   \* those that the package on the server already contains
  Settings,       \* the configurations tried
  Handles,        \* statement ids
  MaxDescriptor,  \* descriptor handles wrap here (65535 in the code)
  MaxCursor,      \* bound on the XCRSR names given out
  MaxRows,        \* bound on the rows open at a time
  MaxBatch,       \* rows of a batch
  MaxOps,         \* bound on the operations of one connection
  None

Kinds == {"exec", "query", "prepare", "execTransient", "queryTransient",
          "execStmt", "queryStmt", "batch", "keys", "ping", "closeStmt",
          "closeRows"}

Cursors == ({"default"} \X Handles) \cup ({"extra"} \X (1..MaxCursor))
RowsOf == [h : Handles, cursor : Cursors, default : BOOLEAN, own : BOOLEAN,
           name : {"own", "package"}]
RPBs == [sql : Queries \cup {None}, name : {"own", "package"}, limit : 0..1,
         packaged : BOOLEAN]
Operations ==
  [kind : Kinds, q : Queries \cup {None}, h : Handles \cup {None},
   name : {"own", "package"}, limit : 0..1, descriptor : 0..MaxDescriptor,
   cursor : Cursors \cup {None}, default : BOOLEAN, rows : Nat, sent : Nat,
   size : Nat, total : Nat, applied : Nat]

ASSUME ExecAssumption ==
  /\ Queries \subseteq {"select", "selectArgs", "insert", "insertArgs", "call",
                        "callArgs"}
  /\ PackageHolds \subseteq Queries
  /\ Settings \subseteq [native : BOOLEAN, qqrytimlmt : BOOLEAN,
                         extended : BOOLEAN, exception : BOOLEAN,
                         selectCriteria : BOOLEAN, blocks : BOOLEAN]
  /\ IsFiniteSet(Handles)
  /\ {MaxDescriptor, MaxBatch} \subseteq Nat \ {0}
  /\ {MaxCursor, MaxRows, MaxOps} \subseteq Nat
  /\ None \notin Queries \cup RPBs \cup Operations

VARIABLES
  ops,    \* operations begun on this connection
  cfg,    \* the configuration: native cancel answered, qqrytimlmt, extended
          \* dynamic, package error "exception", package criteria "select",
          \* useBlockUpdate
  valid,  \* Conn.IsValid()
  why,    \* what the connection was lost for, None while it is valid
  ctx,    \* the context of the operation: "live" or "done"
  op,     \* the operation, or None between operations
  todo,   \* its remaining steps
  undo,   \* its deferred calls, innermost first
  err,    \* "none", "ctx", "bad", "sql"
  cli,    \* the driver: ids in use, statements, rows, names, timeouts
  pkg,    \* packageState
  srv     \* the server job: RPBs, descriptors, cursors, LOB locators

vars == <<ops, cfg, valid, why, ctx, op, todo, undo, err, cli, pkg, srv>>
data == <<ops, cfg, op, undo, cli, pkg, srv>>

TypeOK ==
  /\ ops \in 0..MaxOps
  /\ cfg \in Settings
  /\ valid \in BOOLEAN
  /\ why \in {None, "io", "ctx", "cancel"}
  /\ ctx \in {"live", "done"}
  /\ \/ op = None
     \/ op \in Operations /\ op.sent <= op.rows /\ op.total <= op.applied
  /\ err \in {"none", "ctx", "bad", "sql"}
  /\ cli.used \subseteq Handles
  /\ cli.rows \subseteq RowsOf
  /\ cli.descriptorSeq \in 0..MaxDescriptor
  /\ cli.timeouts \in [Handles -> -1..1]
  /\ srv.rpb \in [Handles -> RPBs \cup {None}]
  /\ srv.descriptors \subseteq 1..MaxDescriptor
  /\ srv.cursors \subseteq Cursors
  /\ srv.locator \in BOOLEAN

(* openConn: a new connection to a new server job; newPackageState.        *)
NewConn ==
  [used |-> {}, stmts |-> {}, rows |-> {}, busy |-> {}, cursorSeq |-> 0,
   descriptorSeq |-> 0, timeouts |-> [h \in Handles |-> 0],
   packaged |-> [h \in Handles |-> FALSE]]

NewPackageState(c) ==
  [enabled |-> c.extended, created |-> FALSE, cacheOn |-> TRUE, cache |-> {}]

NewJob ==
  [rpb |-> [h \in Handles |-> None], descriptors |-> {}, cursors |-> {},
   locator |-> FALSE]

Init ==
  /\ ops = 0
  /\ cfg \in Settings
  /\ valid = TRUE
  /\ why = None
  /\ ctx = "live"
  /\ op = None
  /\ todo = <<>>
  /\ undo = <<>>
  /\ err = "none"
  /\ cli = NewConn
  /\ pkg = NewPackageState(cfg)
  /\ srv = NewJob

-----------------------------------------------------------------------------
(* The text of a statement: its type, its markers, and whether the package *)
(* takes it: a statement with parameter markers, and with the criteria     *)
(* "select" any query.  Queries has no INSERT ... SELECT, FOR UPDATE,      *)
(* CURRENT OF and DECLARE, which are further ways to the same two answers. *)
classifySQLStatement(q) ==
  CASE q \in {"select", "selectArgs"} -> "select"
    [] q \in {"call", "callArgs"}     -> "call"
    [] q \in {"insert", "insertArgs"} -> "insert"

HasMarkers(q) == q \in {"selectArgs", "insertArgs", "callArgs"}
packageCriteriaMatches(q) ==
  HasMarkers(q) \/ (cfg.selectCriteria /\ classifySQLStatement(q) = "select")

-----------------------------------------------------------------------------
(* How a step ends.                                                        *)
Continue == todo' = Tail(todo) /\ UNCHANGED err
Fail(e) == todo' = <<>> /\ err' = e

(* A negative reply with an SQLCA: newSQLError asks for the message text.  *)
Rejected == todo' = <<"message">> /\ err' = "sql"

Lost(reason) == valid' = FALSE /\ why' = reason
Kept == UNCHANGED <<valid, why>>

(* doRequest and the no-reply senders: a finished context invalidates the  *)
(* connection, also when it ends while the request is under way.           *)
Plain(answered) ==
  \/ ctx = "done" /\ Lost("ctx") /\ Fail("ctx") /\ UNCHANGED <<ctx, data>>
  \/ ctx = "live" /\ Lost("io") /\ Fail("bad") /\ UNCHANGED <<ctx, data>>
  \/ ctx = "live" /\ Kept /\ UNCHANGED ctx /\ answered

(* doStatementRequest: with native cancel the connection survives a        *)
(* context that ends, if the server answers; the statement may have run,   *)
(* which is srvAfter.                                                      *)
Statement(answered, srvAfter, opAfter) ==
  IF ~cfg.native
  THEN Plain(answered)
  ELSE \/ ctx = "done" /\ Kept /\ Fail("ctx") /\ UNCHANGED <<ctx, data>>
       \/ ctx = "live" /\ Lost("io") /\ Fail("bad") /\ UNCHANGED <<ctx, data>>
       \/ ctx = "live" /\ Kept /\ UNCHANGED ctx /\ answered
       \/ /\ ctx = "live"
          /\ ctx' = "done" /\ Fail("ctx")
          /\ Kept \/ Lost("cancel")
          /\ \/ UNCHANGED <<srv, op>>
             \/ srv' = srvAfter /\ op' = opAfter
          /\ UNCHANGED <<ops, cfg, undo, cli, pkg>>

(* A deferred request, whose error is dropped.  It is sent under the       *)
(* operation's "own" context, or under cleanupContext, which is the same   *)
(* context while that is live and a fresh one when it is done, or under    *)
(* context.Background.                                                     *)
Deferred(under, srvAfter) ==
  /\ undo' = Tail(undo)
  /\ \/ Lost("io") /\ UNCHANGED <<ctx, srv>>
     \/ /\ under = "own" \/ (under = "cleanup" /\ ctx = "live")
        /\ ctx' = "done" /\ Lost("ctx") /\ UNCHANGED srv
     \/ /\ ~(under = "own" /\ ctx = "done")
        /\ Kept /\ srv' = srvAfter /\ UNCHANGED ctx
  /\ UNCHANGED <<ops, cfg, todo, err, pkg>>

(* The next step, or the next deferred call.  Once the connection is lost  *)
(* the rest of the operation sends nothing and only touches driver state   *)
(* that goes with the connection; Replace stands for it.                   *)
Step(s) == op # None /\ valid /\ todo # <<>> /\ Head(todo) = s
Undo(s) == op # None /\ valid /\ todo = <<>> /\ undo # <<>> /\ Head(undo) = s

-----------------------------------------------------------------------------
(* ensurePackage: CREATE_PACKAGE before the first statement.  A package    *)
(* that cannot be used disables packaging; with package error "exception"  *)
(* the statement fails and the package stays unmarked.                     *)
EnsurePackage ==
  /\ Step("ensurePackage")
  /\ \/ /\ pkg.created \/ ~cfg.extended
        /\ Continue
        /\ UNCHANGED <<valid, why, ctx, data>>
     \/ /\ cfg.extended /\ ~pkg.created /\ ~pkg.enabled
        /\ pkg' = [pkg EXCEPT !.created = TRUE]
        /\ Continue
        /\ UNCHANGED <<ops, valid, why, ctx, cfg, op, undo, cli, srv>>
     \/ /\ cfg.extended /\ ~pkg.created /\ pkg.enabled
        /\ Plain(/\ \/ /\ pkg' = [pkg EXCEPT !.created = TRUE]
                       /\ Continue
                    \/ /\ pkg.cacheOn
                       /\ todo' = <<"returnPackage">> \o Tail(todo)
                       /\ UNCHANGED <<pkg, err>>
                    \/ /\ pkg' = [pkg EXCEPT !.enabled = FALSE, !.created = ~cfg.exception]
                       /\ IF cfg.exception THEN Fail("sql") ELSE Continue
                 /\ UNCHANGED <<ops, cfg, op, undo, cli, srv>>)

(* cachePackage: the statements of an existing package are read, or the    *)
(* package cache is given up.                                              *)
CachePackage ==
  /\ Step("returnPackage")
  /\ Plain(/\ \/ /\ pkg' = [pkg EXCEPT !.cache = PackageHolds, !.created = TRUE]
                 /\ Continue
              \/ /\ pkg' = [pkg EXCEPT !.cacheOn = FALSE, !.created = ~cfg.exception]
                 /\ IF cfg.exception THEN Fail("sql") ELSE Continue
           /\ UNCHANGED <<ops, cfg, op, undo, cli, srv>>)

specForPrepare(q) == pkg.enabled /\ packageCriteriaMatches(q)
specForExecute(h) == pkg.enabled /\ cli.packaged[h]

(* Mutant: only a statement for the package is noted.                      *)
NoteForPrepare_Keeps(h, q) ==
  cli' = IF specForPrepare(q) THEN [cli EXCEPT !.packaged[h] = TRUE] ELSE cli

NoteForPrepare(h, q) ==
  cli' = IF pkg.enabled THEN [cli EXCEPT !.packaged[h] = packageCriteriaMatches(q)]
                        ELSE cli

NewRPB(q, n, packaged) == [sql |-> q, name |-> n, limit |-> 0, packaged |-> packaged]

(* Create RPB and prepare: the RPB exists even when the text is rejected.  *)
(* Mutant: a query that fails later gives up its id but not its RPB.       *)
PrepareAndDescribe_Leaves ==
  Plain(/\ NoteForPrepare(op.h, op.q)
        /\ \/ /\ srv' = [srv EXCEPT !.rpb[op.h] = NewRPB(op.q, "own", specForPrepare(op.q))]
              /\ Continue
           \/ /\ srv' = [srv EXCEPT !.rpb[op.h] = NewRPB(None, "own", FALSE)]
              /\ Rejected
        /\ UNCHANGED <<ops, cfg, op, undo, pkg>>)

PrepareAndDescribe ==
  Plain(/\ NoteForPrepare(op.h, op.q)
        /\ \/ /\ srv' = [srv EXCEPT !.rpb[op.h] = NewRPB(op.q, "own", specForPrepare(op.q))]
              /\ Continue
           \/ /\ srv' = [srv EXCEPT !.rpb[op.h] = NewRPB(None, "own", FALSE)]
              /\ Rejected
        /\ undo' = IF op.kind \in {"query", "keys"} THEN <<"discard">> ELSE undo
        /\ UNCHANGED <<ops, cfg, op, pkg>>)

Prepare == Step("prepare") /\ PrepareAndDescribe

cachedStatementFor(q) == pkg.enabled /\ packageCriteriaMatches(q) /\ q \in pkg.cache

(* prepareOrReuse: a statement of the package needs no prepare, only an    *)
(* RPB for its name, which the server does not acknowledge.                *)
PrepareOrReuse ==
  /\ Step("prepareOrReuse")
  /\ \/ ~cachedStatementFor(op.q) /\ PrepareAndDescribe
     \/ /\ cachedStatementFor(op.q)
        /\ Plain(/\ NoteForPrepare(op.h, op.q)
                 /\ srv' = [srv EXCEPT !.rpb[op.h] = NewRPB(op.q, "package", TRUE)]
                 /\ op' = [op EXCEPT !.name = "package"]
                 /\ Continue
                 /\ UNCHANGED <<ops, cfg, undo, pkg>>)

-----------------------------------------------------------------------------
(* syncQueryTimeoutRPB: the limit of the context is put into the RPB, or   *)
(* an earlier one taken out, unless the driver thinks it is there already. *)
(* Mutant: only a limit is ever put in.                                    *)
SyncQueryTimeoutRPB_NeverClears ==
  LET sync == cfg.qqrytimlmt /\ op.limit > 0 /\ cli.timeouts[op.h] # op.limit
  IN  /\ Step("sync")
      /\ \/ ~sync /\ Continue /\ UNCHANGED <<valid, why, ctx, data>>
         \/ /\ sync
            /\ Plain(/\ cli' = [cli EXCEPT !.timeouts[op.h] = op.limit]
                     /\ srv' = IF srv.rpb[op.h] = None THEN srv
                               ELSE [srv EXCEPT !.rpb[op.h].limit = op.limit]
                     /\ Continue
                     /\ UNCHANGED <<ops, cfg, op, undo, pkg>>)

SyncQueryTimeoutRPB ==
  LET want == IF op.limit = 0 THEN -1 ELSE op.limit
      seen == cli.timeouts[op.h]
      sync == cfg.qqrytimlmt /\ seen # want /\ ~(want = -1 /\ seen = 0)
  IN  /\ Step("sync")
      /\ \/ ~sync /\ Continue /\ UNCHANGED <<valid, why, ctx, data>>
         \/ /\ sync
            /\ Plain(/\ cli' = [cli EXCEPT !.timeouts[op.h] = want]
                     /\ srv' = IF srv.rpb[op.h] = None THEN srv
                               ELSE [srv EXCEPT !.rpb[op.h].limit = op.limit]
                     /\ Continue
                     /\ UNCHANGED <<ops, cfg, op, undo, pkg>>)

(* nextDescriptorHandle cycles; the delete is deferred before the change   *)
(* is sent.                                                                *)
(* Mutant: the handles do not wrap.                                        *)
NextDescriptorHandle_NoWrap ==
  /\ Step("descriptor")
  /\ cli' = [cli EXCEPT !.descriptorSeq = @ + 1]
  /\ op' = [op EXCEPT !.descriptor = cli'.descriptorSeq]
  /\ undo' = <<"deleteDescriptor">> \o undo
  /\ Continue
  /\ UNCHANGED <<ops, cfg, valid, why, ctx, pkg, srv>>

NextDescriptorHandle ==
  /\ Step("descriptor")
  /\ cli' = [cli EXCEPT !.descriptorSeq = (@ % MaxDescriptor) + 1]
  /\ op' = [op EXCEPT !.descriptor = cli'.descriptorSeq]
  /\ undo' = <<"deleteDescriptor">> \o undo
  /\ Continue
  /\ UNCHANGED <<ops, cfg, valid, why, ctx, pkg, srv>>

ChangeDescriptor ==
  /\ Step("change")
  /\ Plain(/\ \/ /\ srv' = [srv EXCEPT !.descriptors = @ \cup {op.descriptor}]
                 /\ Continue
              \/ Rejected /\ UNCHANGED srv
           /\ UNCHANGED <<ops, cfg, op, undo, cli, pkg>>)

(* writeLOBDataRequests: none, or each accepted or not.                    *)
WriteLOBData ==
  /\ Step("writeLOB")
  /\ \/ Continue /\ UNCHANGED <<valid, why, ctx, data>>
     \/ Plain((Continue \/ Rejected) /\ UNCHANGED data)

(* openCursorName: the default name of the statement when it is free.      *)
(* Mutant: always the default name.                                        *)
OpenCursorName_Default ==
  /\ Step("cursor")
  /\ cli' = [cli EXCEPT !.busy = @ \cup {op.h}]
  /\ op' = [op EXCEPT !.default = TRUE, !.cursor = <<"default", op.h>>]
  /\ undo' = <<"undoOpen">> \o undo
  /\ Continue
  /\ UNCHANGED <<ops, cfg, valid, why, ctx, pkg, srv>>

OpenCursorName ==
  LET free == op.h \notin cli.busy
  IN  /\ Step("cursor")
      /\ cli' = IF free THEN [cli EXCEPT !.busy = @ \cup {op.h}]
                        ELSE [cli EXCEPT !.cursorSeq = @ + 1]
      /\ op' = [op EXCEPT !.default = free,
                          !.cursor = IF free THEN <<"default", op.h>>
                                     ELSE <<"extra", cli'.cursorSeq>>]
      /\ undo' = <<"undoOpen">> \o undo
      /\ Continue
      /\ UNCHANGED <<ops, cfg, valid, why, ctx, pkg, srv>>
-----------------------------------------------------------------------------
(* The rows of op.size have been executed; a statement that is not a batch *)
(* counts as one row.                                                      *)
Applied(n) == [op EXCEPT !.applied = @ + n]

(* The execute of execPrepared and of execBlock.  A rejected block may     *)
(* have been applied in part; a CALL may have LOB output, or result sets,  *)
(* which are an error after the statement has run.                         *)
Execute ==
  /\ Step("execute")
  /\ Statement(/\ \/ /\ op' = [Applied(op.size) EXCEPT !.total = @ + op.size]
                     /\ \/ Continue /\ UNCHANGED <<undo, srv>>
                        \/ /\ classifySQLStatement(op.q) = "call"
                           /\ Fail("sql")
                           /\ UNCHANGED <<undo, srv>>
                        \/ /\ classifySQLStatement(op.q) = "call"
                           /\ srv' = [srv EXCEPT !.locator = TRUE]
                           /\ todo' = <<"lobLength", "lobData">>
                           /\ undo' = <<"freeLob">> \o undo
                           /\ UNCHANGED err
                  \/ /\ \E n \in 0..(op.size - 1) : op' = Applied(n)
                     /\ Rejected
                     /\ UNCHANGED <<undo, srv>>
               /\ UNCHANGED <<ops, cfg, cli, pkg>>,
               srv, Applied(op.size))

(* retrieveLobData: the length and then the data.                          *)
RetrieveLobData ==
  /\ Step("lobLength") \/ Step("lobData")
  /\ Plain((Continue \/ Rejected) /\ UNCHANGED data)

(* execContext without arguments: execute immediate, by doRequest.         *)
ExecuteImmediate ==
  /\ Step("immediate")
  /\ Plain((Continue \/ Rejected \/ Fail("sql")) /\ UNCHANGED data)

(* queryCallRows executes the CALL before it opens the first result set.   *)
ExecuteCall ==
  /\ Step("executeCall")
  /\ Statement((Continue \/ Rejected) /\ UNCHANGED data, srv, op)

(* openAndDescribe and the rows: the statement belongs to them when it was *)
(* prepared for this query.  Without a result set there are no rows; then  *)
(* the name is released for a statement without bindings.                  *)
OpenAndDescribe ==
  LET opened == [srv EXCEPT !.cursors = @ \cup {op.cursor}]
      row    == [h |-> op.h, cursor |-> op.cursor, default |-> op.default,
                 own |-> op.kind # "queryStmt", name |-> op.name]
  IN  /\ Step("open")
      /\ Statement(/\ \/ /\ op.kind # "keys"
                         /\ srv' = opened
                         /\ cli' = [cli EXCEPT !.rows = @ \cup {row}]
                         /\ undo' = Tail(undo)
                         /\ Continue
                      \/ /\ op.kind = "keys"
                         /\ srv' = opened
                         /\ undo' = <<"closeCursor", "closeStatement", "releaseName">>
                         /\ Continue
                         /\ UNCHANGED cli
                      \/ /\ cli' = IF HasMarkers(op.q) \/ ~op.default THEN cli
                                   ELSE [cli EXCEPT !.busy = @ \ {op.h}]
                         /\ undo' = Tail(undo)
                         /\ Fail("sql")
                         /\ UNCHANGED srv
                      \/ Rejected /\ UNCHANGED <<cli, srv, undo>>
                   /\ UNCHANGED <<ops, cfg, op, pkg>>,
                   opened, op)

(* readGeneratedKeyRows drains the rows of the wrapped INSERT.             *)
ReadGeneratedKeyRows ==
  /\ Step("readKeys")
  /\ Statement((Continue \/ Rejected) /\ UNCHANGED data, srv, op)

(* newSQLError asks for the message; the SQL error stays the result.       *)
MessageText ==
  /\ Step("message")
  /\ \/ ctx = "done" /\ Lost("ctx")
     \/ ctx = "live" /\ (Kept \/ Lost("io"))
  /\ todo' = <<>>
  /\ UNCHANGED <<ctx, err, data>>

Ping ==
  /\ Step("ping")
  /\ Plain((Continue \/ Fail("bad")) /\ UNCHANGED data)

-----------------------------------------------------------------------------
(* The deferred calls.                                                     *)
DeleteDescriptor ==
  /\ Undo("deleteDescriptor")
  /\ Deferred("own", [srv EXCEPT !.descriptors = @ \ {op.descriptor}])
  /\ UNCHANGED <<op, cli>>

FreeLob ==
  /\ Undo("freeLob")
  /\ Deferred("own", [srv EXCEPT !.locator = FALSE])
  /\ UNCHANGED <<op, cli>>

ReleaseName(h, isDefault) ==
  cli' = IF isDefault THEN [cli EXCEPT !.busy = @ \ {h}] ELSE cli

(* closeInterruptedCursor and releaseOpenCursorName of an open that failed. *)
(* Mutant: the cursor of an interrupted open is not closed.                *)
UndoOpen_Leaves ==
  /\ Undo("undoOpen")
  /\ undo' = Tail(undo)
  /\ ReleaseName(op.h, op.default)
  /\ UNCHANGED <<ops, cfg, valid, why, ctx, op, todo, err, pkg, srv>>

UndoOpen ==
  /\ Undo("undoOpen")
  /\ IF err = "ctx"
     THEN Deferred("cleanup", [srv EXCEPT !.cursors = @ \ {op.cursor}])
     ELSE undo' = Tail(undo) /\ UNCHANGED <<ops, cfg, valid, why, ctx, todo, err, pkg, srv>>
  /\ ReleaseName(op.h, op.default)
  /\ UNCHANGED op

(* closePreparedStatement: the id is free whatever the server says, and a  *)
(* statement of the package keeps its RPB.                                 *)
ClosePreparedStatement ==
  /\ Undo("closeStatement") \/ (Undo("discard") /\ err # "none")
  /\ cli' = [cli EXCEPT !.used = @ \ {op.h}]
  /\ IF op.name = "package"
     THEN undo' = Tail(undo) /\ UNCHANGED <<ops, cfg, valid, why, ctx, todo, err, pkg, srv>>
     ELSE Deferred(IF op.kind = "closeRows" \/ Undo("discard") THEN "cleanup"
                   ELSE "background",
                   [srv EXCEPT !.rpb[op.h] = None])
  /\ UNCHANGED op

(* Deferred calls that send nothing.                                       *)
DeferredLocal ==
  /\ \/ /\ Undo("discard") /\ err = "none"
        /\ UNCHANGED <<cli, op, todo>>
     \/ /\ Undo("releaseId")
        /\ cli' = [cli EXCEPT !.used = @ \ {op.h}]
        /\ UNCHANGED <<op, todo>>
     \/ /\ Undo("releaseName")
        /\ ReleaseName(op.h, op.default)
        /\ UNCHANGED <<op, todo>>
  /\ undo' = Tail(undo)
  /\ UNCHANGED <<ops, cfg, valid, why, ctx, err, pkg, srv>>

(* queryRows.Close sends a close unless the server has closed the cursor.  *)
CloseCursor ==
  LET gone == [srv EXCEPT !.cursors = @ \ {op.cursor}]
  IN  /\ Undo("closeCursor")
      /\ \/ Deferred("cleanup", gone)
         \/ srv' = gone /\ undo' = Tail(undo) /\ UNCHANGED <<ops, cfg, valid, why, ctx, todo, err, pkg>>
      /\ UNCHANGED <<op, cli>>

-----------------------------------------------------------------------------
(* The steps of the operations.                                            *)
BindSteps(q) == IF HasMarkers(q) THEN <<"descriptor", "change", "writeLOB">> ELSE <<>>
execPrepared(q) == <<"sync">> \o BindSteps(q) \o <<"execute">>
queryRowsForStatement == <<"cursor", "sync", "open">>
queryPrepared(q) == BindSteps(q) \o queryRowsForStatement
queryCallRows == <<"sync", "executeCall">> \o queryRowsForStatement
execBlock == <<"descriptor", "change", "execute">>

QuerySteps(q) ==
  IF q = "call" THEN queryCallRows ELSE queryPrepared(q)

Start(kind, q, h, name, steps, cleanup) ==
  /\ op = None /\ valid
  /\ ops < MaxOps /\ ops' = ops + 1
  /\ \E limit \in (IF cfg.qqrytimlmt THEN 0..1 ELSE {0}), rows \in (IF kind = "batch" THEN 1..MaxBatch ELSE {1}) :
       op' = [kind |-> kind, q |-> q, h |-> h, name |-> name, limit |-> limit,
              descriptor |-> 0, cursor |-> None, default |-> FALSE,
              rows |-> rows, sent |-> 0, size |-> 1, total |-> 0, applied |-> 0]
  /\ ctx' = "live"
  /\ todo' = steps
  /\ undo' = cleanup
  /\ err' = "none"
  /\ UNCHANGED <<cfg, valid, why, pkg, srv>>

(* The bounds on open rows and on XCRSR names.                             *)
RoomForRows(h) ==
  /\ Cardinality(cli.rows) < MaxRows
  /\ h \in cli.busy => cli.cursorSeq < MaxCursor

(* nextStatementName takes a free id.                                      *)
Taken(h) == h \notin cli.used /\ cli' = [cli EXCEPT !.used = @ \cup {h}]

(* ExecContext without arguments.                                          *)
ExecContext(q) ==
  /\ ~HasMarkers(q) /\ classifySQLStatement(q) # "select"
  /\ Start("exec", q, None, "own", <<"ensurePackage", "immediate">>, <<>>)
  /\ UNCHANGED cli

(* QueryContext without arguments.                                         *)
QueryContext(q, h) ==
  /\ ~HasMarkers(q) /\ classifySQLStatement(q) # "insert"
  /\ Taken(h)
  /\ Start("query", q, h, "own", <<"ensurePackage", "prepare">> \o QuerySteps(q),
           <<"releaseId">>)

(* execInsertWithGeneratedKey: the wrapped INSERT is a query.              *)
ExecInsertWithGeneratedKey(q, h) ==
  /\ q = "insert"
  /\ Taken(h)
  /\ Start("keys", q, h, "own",
           <<"ensurePackage", "prepare">> \o queryRowsForStatement \o <<"readKeys">>,
           <<"releaseId">>)

(* prepareStmt.                                                            *)
PrepareStmt(q, h) ==
  /\ Taken(h)
  /\ Start("prepare", q, h, "own", <<"ensurePackage", "prepareOrReuse">>, <<"discard">>)

(* execPreparedTransient and queryPreparedTransient.                       *)
ExecTransient(q, h) ==
  /\ HasMarkers(q) /\ classifySQLStatement(q) # "select"
  /\ Taken(h)
  /\ Start("execTransient", q, h, "own",
           <<"ensurePackage", "prepareOrReuse">> \o execPrepared(q), <<"closeStatement">>)

QueryTransient(q, h) ==
  /\ HasMarkers(q)
  /\ Taken(h)
  /\ Start("queryTransient", q, h, "own",
           <<"ensurePackage", "prepareOrReuse">> \o queryPrepared(q), <<"discard">>)

(* Stmt.ExecContext and Stmt.QueryContext.                                 *)
StmtExec(s) ==
  /\ classifySQLStatement(s.q) # "select"
  /\ Start("execStmt", s.q, s.h, s.name, execPrepared(s.q), <<>>)
  /\ UNCHANGED cli

StmtQuery(s) ==
  /\ Start("queryStmt", s.q, s.h, s.name, QuerySteps(s.q), <<>>)
  /\ UNCHANGED cli

(* Conn.ExecBatch and Stmt.ExecBatch.                                      *)
ConnExecBatch(q, h) ==
  /\ q = "insertArgs"
  /\ Taken(h)
  /\ Start("batch", q, h, "own",
           <<"ensurePackage", "prepareOrReuse", "nextRows">>, <<"closeStatement">>)

StmtExecBatch(s) ==
  /\ s.q = "insertArgs"
  /\ Start("batch", s.q, s.h, s.name, <<"nextRows">>, <<>>)
  /\ UNCHANGED cli

(* The loops of execBatchRowByRow and execBatchBlocks: one row, or a block *)
(* of consecutive rows as long as blockEnd makes it; the deferred calls of *)
(* a round run before the next.                                            *)
NextRows ==
  /\ Step("nextRows")
  /\ \E n \in 1..(op.rows - op.sent) :
       /\ cfg.blocks \/ n = 1
       /\ op' = [op EXCEPT !.size = n]
  /\ todo' = IF cfg.blocks THEN execBlock ELSE execPrepared(op.q)
  /\ undo' = <<"rowsDone">> \o undo
  /\ UNCHANGED <<ops, cfg, valid, why, ctx, err, cli, pkg, srv>>

(* Mutant: a block counts as one row.                                      *)
RowsDone_One ==
  /\ Undo("rowsDone")
  /\ undo' = Tail(undo)
  /\ IF err # "none"
     THEN UNCHANGED <<op, todo>>
     ELSE /\ op' = [op EXCEPT !.sent = @ + 1]
          /\ todo' = IF op'.sent < op.rows THEN <<"nextRows">> ELSE <<>>
  /\ UNCHANGED <<ops, cfg, valid, why, ctx, err, cli, pkg, srv>>

RowsDone ==
  /\ Undo("rowsDone")
  /\ undo' = Tail(undo)
  /\ IF err # "none"
     THEN UNCHANGED <<op, todo>>
     ELSE /\ op' = [op EXCEPT !.sent = @ + op.size]
          /\ todo' = IF op'.sent < op.rows THEN <<"nextRows">> ELSE <<>>
  /\ UNCHANGED <<ops, cfg, valid, why, ctx, err, cli, pkg, srv>>

(* Stmt.Close waits for the rows of the statement.                         *)
StmtClose(s) ==
  /\ \A r \in cli.rows : r.h # s.h
  /\ Start("closeStmt", s.q, s.h, s.name, <<>>, <<"closeStatement">>)
  /\ cli' = [cli EXCEPT !.stmts = @ \ {s}]

(* queryRows.Close, with a context that may have ended since the query.    *)
RowsClose(r) ==
  /\ op = None /\ valid
  /\ ops < MaxOps /\ ops' = ops + 1
  /\ op' = [kind |-> "closeRows", q |-> None, h |-> r.h, name |-> r.name, limit |-> 0,
            descriptor |-> 0, cursor |-> r.cursor, default |-> r.default,
            rows |-> 1, sent |-> 0, size |-> 1, total |-> 0, applied |-> 0]
  /\ ctx' \in {"live", "done"}
  /\ undo' = <<"closeCursor">> \o (IF r.own THEN <<"closeStatement">> ELSE <<>>)
               \o <<"releaseName">>
  /\ err' = "none"
  /\ cli' = [cli EXCEPT !.rows = @ \ {r}]
  /\ UNCHANGED <<cfg, valid, why, todo, pkg, srv>>

ConnPing ==
  /\ Start("ping", None, None, "own", <<"ping">>, <<>>)
  /\ UNCHANGED cli

(* The operation returns; a prepared statement becomes a Stmt.             *)
Return ==
  /\ op # None /\ todo = <<>> /\ undo = <<>>
  /\ valid
  /\ cli' = IF op.kind = "prepare" /\ err = "none"
            THEN [cli EXCEPT !.stmts = @ \cup {[q |-> op.q, h |-> op.h, name |-> op.name]}]
            ELSE cli
  /\ op' = None
  /\ ctx' = "live"
  /\ err' = "none"
  /\ UNCHANGED <<ops, cfg, valid, why, todo, undo, pkg, srv>>

(* The deadline passes or the caller cancels.                              *)
CtxEnds ==
  /\ op # None /\ valid /\ op.kind \notin {"closeStmt", "closeRows"}
  /\ ctx = "live"
  /\ ctx' = "done"
  /\ UNCHANGED <<valid, why, todo, err, data>>

(* database/sql drops a connection that is not valid and opens another.    *)
Replace ==
  /\ ~valid
  /\ valid' = TRUE
  /\ why' = None
  /\ ctx' = "live"
  /\ op' = None
  /\ err' = "none"
  /\ cli' = NewConn
  /\ pkg' = NewPackageState(cfg)
  /\ srv' = NewJob
  /\ ops' = 0
  /\ todo' = <<>>
  /\ undo' = <<>>
  /\ UNCHANGED cfg

Begin ==
  \/ \E q \in Queries : ExecContext(q)
  \/ \E q \in Queries, h \in Handles :
       \/ PrepareStmt(q, h) \/ ExecTransient(q, h) \/ ConnExecBatch(q, h)
       \/ /\ RoomForRows(h)
          /\ \/ QueryContext(q, h) \/ QueryTransient(q, h)
             \/ ExecInsertWithGeneratedKey(q, h)
  \/ \E s \in cli.stmts :
       \/ StmtExec(s) \/ StmtExecBatch(s) \/ StmtClose(s)
       \/ RoomForRows(s.h) /\ StmtQuery(s)
  \/ \E r \in cli.rows : RowsClose(r)
  \/ ConnPing

Steps ==
  \/ EnsurePackage \/ CachePackage \/ Prepare \/ PrepareOrReuse
  \/ SyncQueryTimeoutRPB \/ NextDescriptorHandle \/ ChangeDescriptor
  \/ WriteLOBData \/ OpenCursorName \/ Execute \/ RetrieveLobData
  \/ ExecuteImmediate \/ ExecuteCall \/ OpenAndDescribe
  \/ ReadGeneratedKeyRows \/ MessageText \/ Ping \/ NextRows

Cleanup ==
  \/ DeleteDescriptor \/ FreeLob \/ UndoOpen \/ ClosePreparedStatement
  \/ DeferredLocal \/ CloseCursor \/ RowsDone

Next == Begin \/ Steps \/ Cleanup \/ Return \/ Replace \/ CtxEnds

Spec == Init /\ [][Next]_vars

-----------------------------------------------------------------------------
Idle == op = None /\ valid
Sending(steps) == valid /\ ctx = "live" /\ \E s \in steps : Step(s)
Runs == {"execute", "executeCall", "open"}

(* sql.go execPrepared, openAndDescribe, closeInterruptedCursor,            *)
(* queryRows.Close: on a connection that is still usable, whatever failed  *)
(* and wherever the context ended, no descriptor and no LOB locator of a   *)
(* finished operation is left on the server, and its cursors are those of  *)
(* the open rows.                                                          *)
NothingLeftOnServer ==
  Idle => /\ srv.descriptors = {}
          /\ ~srv.locator
          /\ srv.cursors = {r.cursor : r \in cli.rows}

(* sql.go:466, "a wrapped handle never collides with a live one", and 485, *)
(* "every name is owned by exactly one statement": no request defines a    *)
(* descriptor or opens a cursor that the server already has.               *)
NamesNotInUse ==
  /\ Sending({"change"}) => op.descriptor \notin srv.descriptors
  /\ Sending({"open"}) => op.cursor \notin srv.cursors

(* sql.go queryContext, discardStatement, closePreparedStatement: the ids  *)
(* in use are those of statements and rows the application holds, each     *)
(* with the RPB of its own text, and no other id has an RPB but for those  *)
(* of package statements, which the driver never deletes.  (With the types *)
(* of all variables.)                                                      *)
IdsAccounted ==
  /\ TypeOK
  /\ Idle => /\ cli.used = {s.h : s \in cli.stmts} \cup {r.h : r \in {x \in cli.rows : x.own}}
             /\ \A s \in cli.stmts : srv.rpb[s.h] # None /\ srv.rpb[s.h].sql = s.q
             /\ \A h \in Handles \ cli.used :
                  srv.rpb[h] # None => srv.rpb[h].name = "package"

(* package.go specForExecute, clientinfo.go:321, "a timeout set earlier is *)
(* cleared": an execute or open runs the statement that the operation      *)
(* prepared, names the package exactly when that statement was prepared    *)
(* into it, and without a deadline runs under no time limit of an earlier  *)
(* operation, also after the id was used by another.  Blocks of a batch do *)
(* not ask for the limit.                                                  *)
RunsOwnStatement ==
  Sending(Runs) =>
    /\ srv.rpb[op.h] # None
    /\ srv.rpb[op.h].sql = op.q
    /\ srv.rpb[op.h].packaged <=> specForExecute(op.h)
    /\ op.limit = 0 /\ ~(op.kind = "batch" /\ cfg.blocks) => srv.rpb[op.h].limit = 0

(* batch.go ExecBatch: rows are sent once and in order.  The count never   *)
(* exceeds what the server has done, which is at most one block more, and  *)
(* a batch without an error has done all.                                  *)
BatchAccounting ==
  op # None /\ op.kind = "batch" =>
    /\ op.total <= op.applied
    /\ op.applied <= op.total + op.size
    /\ todo = <<>> /\ undo = <<>> /\ err = "none" => op.total = op.rows /\ op.applied = op.rows

(* readme.md:249, "The connection stays usable": with native cancel, a     *)
(* context that ends does not cost the connection.                         *)
DeadlineKeepsConnection == cfg.native => why # "ctx"
=============================================================================
