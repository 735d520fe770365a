------------------------ MODULE StatementStepProofs ------------------------
(***************************************************************************)
(* What one step of StatementExec does, proved for any statements, ids,    *)
(* settings and bounds: the lemmas on which StatementIdsProofs and         *)
(* StatementExecProofs rest.                                               *)
(*                                                                         *)
(* todo and undo are lists, but what matters of them is which steps are    *)
(* still to come and in which order steps may come: Ordered says that a    *)
(* step is only followed by steps that may follow it, so taking the first  *)
(* step away leaves the others, and tells which these can be.  The types,  *)
(* the control, the descriptor and the batch are settled here.             *)
(***************************************************************************)
EXTENDS StatementExec, Functions, TLAPS

(* The steps and the deferred calls. *)
Names ==
  {"ensurePackage", "returnPackage", "prepare", "prepareOrReuse", "sync", "descriptor", "change",
   "writeLOB", "cursor", "execute", "lobLength", "lobData", "immediate", "executeCall", "open",
   "readKeys", "message", "ping", "nextRows", "deleteDescriptor", "freeLob", "undoOpen",
   "closeStatement", "discard", "releaseId", "releaseName", "closeCursor", "rowsDone"}

(* Step or deferred call b may come after a. *)
Follows(a, b) ==
  \/ a \in {"ensurePackage", "returnPackage"} /\ b \notin {"ensurePackage", "returnPackage"}
  \/ /\ a \in {"prepare", "prepareOrReuse"}
     /\ b \notin {"ensurePackage", "returnPackage", "prepare", "prepareOrReuse"}
  \/ a = "sync" /\ b \in {"descriptor", "change", "writeLOB", "execute", "executeCall", "cursor",
                          "sync", "open", "readKeys"}
  \/ a = "descriptor" /\ b \in {"change", "writeLOB", "cursor", "sync", "open", "execute"}
  \/ a = "change" /\ b \in {"writeLOB", "cursor", "sync", "open", "execute"}
  \/ a = "writeLOB" /\ b \in {"cursor", "sync", "open", "execute"}
  \/ a = "executeCall" /\ b \in {"cursor", "sync", "open"}
  \/ a = "cursor" /\ b \in {"sync", "open", "readKeys"}
  \/ a = "open" /\ b = "readKeys"
  \/ a = "lobLength" /\ b = "lobData"
  \/ a = "freeLob" /\ b \in {"deleteDescriptor", "rowsDone", "closeStatement"}
  \/ a = "undoOpen" /\ b \notin {"undoOpen", "closeCursor", "releaseName"}
  \/ a = "deleteDescriptor" /\ b \in {"rowsDone", "closeStatement", "discard"}
  \/ a = "rowsDone" /\ b = "closeStatement"
  \/ a = "closeCursor" /\ b \in {"closeStatement", "releaseName"}
  \/ a = "closeStatement" /\ b = "releaseName"

Ordered(s) == \A i, j \in 1..Len(s) : i < j => Follows(s[i], s[j])

(* Before a statement runs, its RPB is given the limit of the context.     *)
SyncFirst(s) == \A i \in 1..Len(s) : s[i] \in Runs => \E j \in 1..(i - 1) : s[j] = "sync"

T == Range(todo)
U == Range(undo)

(* The steps and the deferred calls of an operation. *)
Preparing == {"ensurePackage", "returnPackage", "prepareOrReuse"}
Binding == {"descriptor", "change", "writeLOB"}

StepOf(kind, step) ==
  \/ step = "message"
  \/ kind = "exec" /\ step \in {"ensurePackage", "returnPackage", "immediate"}
  \/ kind = "query" /\ step \in {"ensurePackage", "returnPackage", "prepare", "executeCall",
                                 "cursor", "sync", "open"}
  \/ kind = "keys" /\ step \in {"ensurePackage", "returnPackage", "prepare", "cursor", "sync",
                                "open", "readKeys"}
  \/ kind = "prepare" /\ step \in Preparing
  \/ kind = "execTransient" /\ step \in Preparing \cup Binding \cup
                                        {"sync", "execute", "lobLength", "lobData"}
  \/ kind = "queryTransient" /\ step \in Preparing \cup Binding \cup {"cursor", "sync", "open"}
  \/ kind = "execStmt" /\ step \in Binding \cup {"sync", "execute", "lobLength", "lobData"}
  \/ kind = "queryStmt" /\ step \in Binding \cup {"executeCall", "cursor", "sync", "open"}
  \/ kind = "batch" /\ step \in Preparing \cup Binding \cup {"nextRows", "sync", "execute"}
  \/ kind = "ping" /\ step = "ping"

UndoOf(kind, call) ==
  \/ kind = "query" /\ call \in {"releaseId", "discard", "undoOpen"}
  \/ kind = "keys" /\ call \in {"releaseId", "discard", "undoOpen", "closeCursor",
                                "closeStatement", "releaseName"}
  \/ kind = "prepare" /\ call = "discard"
  \/ kind = "execTransient" /\ call \in {"deleteDescriptor", "freeLob", "closeStatement"}
  \/ kind = "queryTransient" /\ call \in {"deleteDescriptor", "undoOpen", "discard"}
  \/ kind = "execStmt" /\ call \in {"deleteDescriptor", "freeLob"}
  \/ kind = "queryStmt" /\ call \in {"deleteDescriptor", "undoOpen"}
  \/ kind = "batch" /\ call \in {"deleteDescriptor", "rowsDone", "closeStatement"}
  \/ kind = "closeStmt" /\ call = "closeStatement"
  \/ kind = "closeRows" /\ call \in {"closeCursor", "closeStatement", "releaseName"}

-----------------------------------------------------------------------------
StmtsOf == [q : Queries, h : Handles, name : {"own", "package"}]

TypeInv ==
  /\ TypeOK
  /\ todo \in Seq(Names) /\ undo \in Seq(Names)
  /\ pkg \in [enabled : BOOLEAN, created : BOOLEAN, cacheOn : BOOLEAN, cache : SUBSET Queries]
  /\ cli \in [used : SUBSET Handles, stmts : SUBSET StmtsOf, rows : SUBSET RowsOf,
              busy : SUBSET Handles, cursorSeq : 0..MaxCursor, descriptorSeq : 0..MaxDescriptor,
              timeouts : [Handles -> -1..1], packaged : [Handles -> BOOLEAN]]
  /\ srv \in [rpb : [Handles -> RPBs \cup {None}], descriptors : SUBSET (1..MaxDescriptor),
              cursors : SUBSET Cursors, locator : BOOLEAN]
  /\ op # None => /\ op.kind \notin {"exec", "ping"} => op.h \in Handles
                  /\ op.kind \notin {"ping", "closeRows"} => op.q \in Queries

(* Which steps and deferred calls go together. *)
ControlInv ==
  /\ Ordered(todo) /\ Ordered(undo)
  /\ op = None => todo = <<>> /\ undo = <<>>
  /\ op # None =>
       /\ \A step \in T : StepOf(op.kind, step)
       /\ \A call \in U : UndoOf(op.kind, call)
       /\ err # "none" => T \subseteq {"message"}
       /\ "message" \in T => err = "sql"
       /\ "descriptor" \in T => U \cap {"deleteDescriptor", "freeLob", "undoOpen"} = {}
       /\ "cursor" \in T => U \cap {"undoOpen", "closeCursor", "releaseName"} = {}
       /\ "execute" \in T => "freeLob" \notin U
       /\ "open" \in T /\ "cursor" \notin T => undo # <<>> /\ Head(undo) = "undoOpen"
       /\ "prepare" \in T => undo = <<"releaseId">>
       /\ T \cap {"prepare", "prepareOrReuse"} # {} => op.name = "own"
       /\ op.kind \in {"query", "keys", "queryTransient"} /\ "open" \in T /\ "prepare" \notin T
            => "discard" \in U
       /\ op.kind = "prepare" /\ T # {} => "discard" \in U
       /\ op.kind \in {"query", "queryTransient"} /\ err = "none" /\ T # {} => "open" \in T
       /\ "nextRows" \in T => U \subseteq {"closeStatement"}

(* A descriptor has its handle before it is changed. *)
DescriptorInv ==
  op # None /\ "change" \in T /\ "descriptor" \notin T => op.descriptor # 0

(* The rows of a batch: rowsDone is deferred while a round is under way. *)
BatchInv ==
  op # None /\ op.kind = "batch" =>
    /\ op.q = "insertArgs"
    /\ op.size >= 1
    /\ op.applied <= op.total + op.size
    /\ "rowsDone" \in U => op.sent + op.size <= op.rows
    /\ "nextRows" \in T => op.sent < op.rows
    /\ err = "none" /\ "rowsDone" \in U =>
         LET done == IF "execute" \in T THEN op.sent ELSE op.sent + op.size
         IN  op.total = done /\ op.applied = done
    /\ err = "none" /\ "rowsDone" \notin U =>
         /\ op.total = op.sent /\ op.applied = op.sent
         /\ "execute" \notin T
         /\ "nextRows" \in T \/ op.sent = op.rows

(* The names of the cursors: the default name of an id belongs to the rows *)
(* that made it busy, the others are numbered.                             *)
Named(cursor, default, h) ==
  IF default THEN cursor = <<"default", h>> /\ h \in cli.busy
             ELSE \E n \in 1..cli.cursorSeq : cursor = <<"extra", n>>

HasName == op # None /\ U \cap {"undoOpen", "closeCursor", "releaseName"} # {}

NameInv ==
  valid =>
    /\ \A r \in cli.rows : Named(r.cursor, r.default, r.h)
    /\ \A r1, r2 \in cli.rows : r1.cursor = r2.cursor => r1 = r2
    /\ HasName => Named(op.cursor, op.default, op.h) /\ \A r \in cli.rows : r.cursor # op.cursor
    /\ op # None /\ "cursor" \in T /\ op.h \in cli.busy => cli.cursorSeq < MaxCursor

(* The package: nothing is prepared before it is known whether it is used. *)
PackageInv ==
  valid =>
    /\ ~cfg.extended => ~pkg.enabled
    /\ cfg.extended /\ ~pkg.created => \A h \in Handles : srv.rpb[h] = None
    /\ op # None /\ "returnPackage" \in T => cfg.extended /\ ~pkg.created
    /\ op # None /\ T \cap {"prepare", "prepareOrReuse"} # {} /\ T \cap {"ensurePackage", "returnPackage"} = {}
         => ~cfg.extended \/ pkg.created
    /\ \A h \in Handles : srv.rpb[h] # None /\ srv.rpb[h].sql # None
                            => (srv.rpb[h].packaged <=> pkg.enabled /\ cli.packaged[h])

-----------------------------------------------------------------------------
(* The lists of steps and of deferred calls.                               *)
LEMMA EmptyRange ==
  ASSUME NEW s \in Seq(Names)
  PROVE  s = <<>> <=> Range(s) = {}
<1>1. Len(s) \in Nat /\ DOMAIN s = 1..Len(s) /\ (s = <<>> <=> Len(s) = 0)
  OBVIOUS
<1>2. ASSUME Len(s) # 0 PROVE s[1] \in Range(s)
  BY <1>1, <1>2 DEF Range
<1>3. ASSUME Len(s) = 0 PROVE Range(s) = {}
  BY <1>1, <1>3 DEF Range
<1> QED BY <1>1, <1>2, <1>3

LEMMA HeadIn ==
  ASSUME NEW s \in Seq(Names), s # <<>>
  PROVE  Head(s) \in Range(s) /\ Head(s) \in Names
<1>1. Len(s) \in Nat \ {0} /\ DOMAIN s = 1..Len(s)
  OBVIOUS
<1>2. Head(s) = s[1] /\ Head(s) \in Names
  OBVIOUS
<1> QED BY <1>1, <1>2 DEF Range

(* The first step taken away. *)
LEMMA Popped ==
  ASSUME NEW s \in Seq(Names), s # <<>>, Ordered(s)
  PROVE  /\ Tail(s) \in Seq(Names) /\ Ordered(Tail(s))
         /\ Range(s) = {Head(s)} \cup Range(Tail(s))
         /\ \A b \in Range(Tail(s)) : Follows(Head(s), b)
<1> DEFINE n == Len(s)
           r == Tail(s)
           h == Head(s)
<1>0. n \in Nat \ {0} /\ DOMAIN s = 1..n
  OBVIOUS
<1>1. r \in Seq(Names) /\ Len(r) = n - 1 /\ \A i \in 1..Len(r) : r[i] = s[i + 1]
  OBVIOUS
<1>2. h = s[1]
  OBVIOUS
<1>3. \A i, j \in 1..n : i < j => Follows(s[i], s[j])
  BY DEF Ordered
<1> HIDE DEF n, r, h
<1>4. DOMAIN r = 1..(n - 1) /\ \A i \in 1..(n - 1) : r[i] = s[i + 1] /\ i + 1 \in 1..n /\ 1 < i + 1
  BY <1>0, <1>1
<1>5. 1 \in 1..n /\ \A i \in 1..n : i = 1 \/ (i - 1 \in 1..(n - 1) /\ (i - 1) + 1 = i)
  BY <1>0
<1>6. Ordered(r)
  <2> SUFFICES ASSUME NEW i \in 1..(n - 1), NEW j \in 1..(n - 1), i < j PROVE Follows(r[i], r[j])
    BY <1>0, <1>1 DEF Ordered
  <2>1. i + 1 \in 1..n /\ j + 1 \in 1..n /\ i + 1 < j + 1
    BY <1>0
  <2> QED BY <1>3, <1>4, <2>1
<1>7. Range(s) = {s[i] : i \in 1..n} /\ Range(r) = {r[i] : i \in 1..(n - 1)}
  BY <1>0, <1>4 DEF Range
<1>8. \A b \in Range(r) : b \in Range(s) /\ Follows(h, b)
  <2> SUFFICES ASSUME NEW i \in 1..(n - 1) PROVE r[i] \in Range(s) /\ Follows(h, r[i])
    BY <1>7
  <2> QED BY <1>2, <1>3, <1>4, <1>5, <1>7
<1>9. \A b \in Range(s) : b = h \/ b \in Range(r)
  <2> SUFFICES ASSUME NEW i \in 1..n, i # 1 PROVE s[i] \in Range(r)
    BY <1>2, <1>7
  <2>1. i - 1 \in 1..(n - 1) /\ r[i - 1] = s[i]
    BY <1>4, <1>5
  <2> QED BY <1>7, <2>1
<1>10. h \in Range(s)
  BY <1>2, <1>5, <1>7
<1> QED BY <1>1, <1>6, <1>8, <1>9, <1>10 DEF r, h

(* One list before another. *)
LEMMA Joined ==
  ASSUME NEW s \in Seq(Names), NEW t \in Seq(Names)
  PROVE  /\ s \o t \in Seq(Names) /\ Range(s \o t) = Range(s) \cup Range(t)
         /\ Ordered(s) /\ Ordered(t) /\ (\A a \in Range(s), b \in Range(t) : Follows(a, b)) => Ordered(s \o t)
<1> DEFINE m == Len(s)
           n == Len(t)
           r == s \o t
<1>0. m \in Nat /\ DOMAIN s = 1..m /\ n \in Nat /\ DOMAIN t = 1..n
  OBVIOUS
<1>1. /\ r \in Seq(Names) /\ Len(r) = m + n
      /\ \A i \in 1..(m + n) : r[i] = IF i <= m THEN s[i] ELSE t[i - m]
  OBVIOUS
<1>2. /\ Ordered(s) => \A i, j \in 1..m : i < j => Follows(s[i], s[j])
      /\ Ordered(t) => \A i, j \in 1..n : i < j => Follows(t[i], t[j])
  BY DEF Ordered
<1> HIDE DEF m, n, r
<1>3. DOMAIN r = 1..(m + n)
  BY <1>1
<1>4. \A i \in 1..m : i \in 1..(m + n) /\ r[i] = s[i]
  BY <1>0, <1>1
<1>5. \A i \in 1..n : i + m \in 1..(m + n) /\ r[i + m] = t[i]
  <2> SUFFICES ASSUME NEW i \in 1..n PROVE i + m \in 1..(m + n) /\ r[i + m] = t[i]
    OBVIOUS
  <2>1. i + m \in 1..(m + n) /\ ~(i + m <= m) /\ (i + m) - m = i
    BY <1>0
  <2> QED BY <1>1, <2>1
<1>6. \A i \in 1..(m + n) : i \in 1..m \/ (i - m \in 1..n /\ (i - m) + m = i)
  BY <1>0
<1>7. Range(r) = {r[i] : i \in 1..(m + n)} /\ Range(s) = {s[i] : i \in 1..m} /\ Range(t) = {t[i] : i \in 1..n}
  BY <1>0, <1>3 DEF Range
<1>8. \A b \in Range(r) : b \in Range(s) \/ b \in Range(t)
  <2> SUFFICES ASSUME NEW i \in 1..(m + n) PROVE r[i] \in Range(s) \/ r[i] \in Range(t)
    BY <1>7
  <2>1. CASE i \in 1..m
    BY <1>4, <1>7, <2>1
  <2>2. CASE i - m \in 1..n /\ (i - m) + m = i
    BY <1>5, <1>7, <2>2
  <2> QED BY <1>6, <2>1, <2>2
<1>9. (\A b \in Range(s) : b \in Range(r)) /\ \A b \in Range(t) : b \in Range(r)
  BY <1>4, <1>5, <1>7
<1>10. ASSUME Ordered(s), Ordered(t), \A a \in Range(s), b \in Range(t) : Follows(a, b),
              NEW i \in 1..(m + n), NEW j \in 1..(m + n), i < j
       PROVE  Follows(r[i], r[j])
  <2>1. CASE i \in 1..m /\ j \in 1..m
    BY <1>2, <1>4, <1>10, <2>1
  <2>2. CASE i \in 1..m /\ j - m \in 1..n /\ (j - m) + m = j
    BY <1>4, <1>5, <1>7, <1>10, <2>2
  <2>3. CASE i - m \in 1..n /\ (i - m) + m = i /\ j - m \in 1..n /\ (j - m) + m = j
    <3>1. i - m < j - m /\ r[i] = t[i - m] /\ r[j] = t[j - m]
      BY <1>0, <1>5, <1>10, <2>3
    <3> QED BY <1>2, <1>10, <2>3, <3>1
  <2>4. i \in 1..m \/ j \notin 1..m
    BY <1>0, <1>10
  <2> QED BY <1>6, <2>1, <2>2, <2>3, <2>4
<1>11. Ordered(s) /\ Ordered(t) /\ (\A a \in Range(s), b \in Range(t) : Follows(a, b)) => Ordered(r)
  BY <1>1, <1>10 DEF Ordered
<1> QED BY <1>1, <1>8, <1>9, <1>11 DEF r

(* A list with one or with no step. *)
LEMMA Single ==
  ASSUME NEW a \in Names
  PROVE  <<a>> \in Seq(Names) /\ Ordered(<<a>>) /\ Range(<<a>>) = {a}
<1>1. /\ <<a>> \in Seq(Names)
      /\ Len(<<a>>) = 1
      /\ <<a>>[1] = a
      /\ DOMAIN <<a>> = {1}
  <2>1. <<a>> \in Seq(Names)
    OBVIOUS
  <2>2. Len(<<a>>) = 1
    OBVIOUS
  <2>3. <<a>>[1] = a
    OBVIOUS
  <2>4. DOMAIN <<a>> = {1}
    BY <2>1, <2>2
  <2> QED BY <2>1, <2>2, <2>3, <2>4
<1>2. Ordered(<<a>>)
  BY <1>1 DEF Ordered
<1>3. Range(<<a>>) = {a}
  <2>1. Range(<<a>>) = {<<a>>[i] : i \in {1}}
    BY <1>1 DEF Range
  <2> QED BY <1>1, <2>1
<1> QED BY <1>1, <1>2, <1>3

LEMMA Nothing == <<>> \in Seq(Names) /\ Ordered(<<>>) /\ Range(<<>>) = {}
BY DEF Ordered, Range

(* A step put in front. *)
LEMMA Pushed ==
  ASSUME NEW s \in Seq(Names), Ordered(s), NEW a \in Names, \A b \in Range(s) : Follows(a, b)
  PROVE  /\ <<a>> \o s \in Seq(Names) /\ Ordered(<<a>> \o s) /\ Range(<<a>> \o s) = {a} \cup Range(s)
         /\ <<a>> \o s # <<>> /\ Head(<<a>> \o s) = a
<1>1. /\ <<a>> \o s \in Seq(Names) /\ Ordered(<<a>> \o s)
      /\ Range(<<a>> \o s) = {a} \cup Range(s)
  <2> DEFINE x == <<a>>
  <2>1. x \in Seq(Names) /\ Ordered(x) /\ Range(x) = {a}
    BY Single
  <2> HIDE DEF x
  <2>2. x \o s \in Seq(Names) /\ Ordered(x \o s) /\ Range(x \o s) = {a} \cup Range(s)
    BY <2>1, Joined
  <2> QED BY <2>2 DEF x
<1>2. <<a>> \o s # <<>>
  BY <1>1, EmptyRange
<1>3. Head(<<a>> \o s) = a
  OBVIOUS
<1> QED BY <1>1, <1>2, <1>3

-----------------------------------------------------------------------------
(* What a step can do.  It goes on to the next step, or it stops the       *)
(* operation; the connection may be lost with that.                        *)
Stops ==
  \/ todo' = <<>> /\ err' \in {"ctx", "bad", "sql"}
  \/ todo' = <<"message">> /\ err' = "sql"

PackageType ==
  [enabled : BOOLEAN, created : BOOLEAN, cacheOn : BOOLEAN, cache : SUBSET Queries]

(* The answer to CREATE_PACKAGE or to the request for the package. *)
PackageLearned ==
  /\ cfg.extended /\ ~pkg.created
  /\ pkg' \in PackageType /\ (pkg'.enabled => pkg.enabled)

(* Nothing but the control changes, apart from the package. *)
Stopped ==
  /\ op # None /\ valid /\ todo # <<>> /\ Stops
  /\ UNCHANGED pkg \/ PackageLearned
  /\ UNCHANGED <<ops, cfg, op, undo, cli, srv>>

Passed(x) == Step(x) /\ Continue /\ UNCHANGED <<valid, why, data>>

PackageKnown(x) ==
  /\ Step(x) /\ Continue
  /\ \/ UNCHANGED pkg /\ (pkg.created \/ ~cfg.extended)
     \/ PackageLearned /\ pkg'.created
  /\ UNCHANGED <<ops, cfg, valid, why, op, undo, cli, srv>>

PackageAsked ==
  /\ Step("ensurePackage") /\ cfg.extended /\ ~pkg.created
  /\ todo' = <<"returnPackage">> \o Tail(todo)
  /\ UNCHANGED <<ops, cfg, valid, why, op, undo, err, cli, pkg, srv>>

Prepared(x, n) ==
  /\ Step(x) /\ Continue
  /\ NoteForPrepare(op.h, op.q)
  /\ \E packaged \in BOOLEAN :
       /\ packaged <=> specForPrepare(op.q)
       /\ srv' = [srv EXCEPT !.rpb[op.h] = NewRPB(op.q, n, packaged)]
  /\ op' = [op EXCEPT !.name = n]
  /\ undo' = IF op.kind \in {"query", "keys"} THEN <<"discard">> ELSE undo
  /\ UNCHANGED <<ops, cfg, valid, why, pkg>>

PrepareRejected(x) ==
  /\ Step(x) /\ Rejected
  /\ NoteForPrepare(op.h, op.q)
  /\ srv' = [srv EXCEPT !.rpb[op.h] = NewRPB(None, "own", FALSE)]
  /\ undo' = IF op.kind \in {"query", "keys"} THEN <<"discard">> ELSE undo
  /\ UNCHANGED <<ops, cfg, valid, why, op, pkg>>

Wanted == IF op.limit = 0 THEN -1 ELSE op.limit

SyncSkipped ==
  /\ Passed("sync")
  /\ \/ ~cfg.qqrytimlmt
     \/ cli.timeouts[op.h] = Wanted
     \/ Wanted = -1 /\ cli.timeouts[op.h] = 0

Synced ==
  /\ Step("sync") /\ Continue /\ cfg.qqrytimlmt
  /\ cli' = [cli EXCEPT !.timeouts[op.h] = Wanted]
  /\ srv' = IF srv.rpb[op.h] = None THEN srv ELSE [srv EXCEPT !.rpb[op.h].limit = op.limit]
  /\ UNCHANGED <<ops, cfg, valid, why, op, undo, pkg>>

DescriptorChanged ==
  /\ Step("change") /\ Continue
  /\ srv' = [srv EXCEPT !.descriptors = @ \cup {op.descriptor}]
  /\ UNCHANGED <<ops, cfg, valid, why, op, undo, cli, pkg>>

(* The statement has run, on n of the rows, of which k are counted. *)
Ran(n, k) == op' = [op EXCEPT !.applied = @ + n, !.total = @ + k]

Executed ==
  /\ Step("execute") /\ Continue /\ Ran(op.size, op.size)
  /\ UNCHANGED <<ops, cfg, valid, why, undo, cli, pkg, srv>>

ExecuteStopped(n, k) ==
  /\ Step("execute") /\ Stops /\ Ran(n, k)
  /\ n <= op.size /\ k \in {0, n}
  /\ UNCHANGED <<ops, cfg, undo, cli, pkg, srv>>

ExecutedLob ==
  /\ Step("execute") /\ Ran(op.size, op.size)
  /\ classifySQLStatement(op.q) = "call"
  /\ srv' = [srv EXCEPT !.locator = TRUE]
  /\ todo' = <<"lobLength", "lobData">>
  /\ undo' = <<"freeLob">> \o undo
  /\ UNCHANGED <<ops, cfg, valid, why, err, cli, pkg>>

CursorOpened == srv' = [srv EXCEPT !.cursors = @ \cup {op.cursor}]

NewRow ==
  [h |-> op.h, cursor |-> op.cursor, default |-> op.default, own |-> op.kind # "queryStmt",
   name |-> op.name]

OpenedRows ==
  /\ Step("open") /\ Continue /\ CursorOpened /\ op.kind # "keys"
  /\ cli' = [cli EXCEPT !.rows = @ \cup {NewRow}]
  /\ undo' = Tail(undo)
  /\ UNCHANGED <<ops, cfg, valid, why, op, pkg>>

OpenedKeys ==
  /\ Step("open") /\ Continue /\ CursorOpened /\ op.kind = "keys"
  /\ undo' = <<"closeCursor", "closeStatement", "releaseName">>
  /\ UNCHANGED <<ops, cfg, valid, why, op, cli, pkg>>

OpenedNothing ==
  /\ Step("open") /\ Fail("sql")
  /\ cli' = IF HasMarkers(op.q) \/ ~op.default THEN cli ELSE [cli EXCEPT !.busy = @ \ {op.h}]
  /\ undo' = Tail(undo)
  /\ UNCHANGED <<ops, cfg, valid, why, op, pkg, srv>>

OpenInterrupted ==
  /\ Step("open") /\ Fail("ctx") /\ CursorOpened
  /\ UNCHANGED <<ops, cfg, op, undo, cli, pkg>>

Quiet == {"writeLOB", "lobLength", "lobData", "immediate", "executeCall", "readKeys", "ping"}

StepOutcome ==
  \/ Stopped
  \/ \E x \in Quiet : Passed(x)
  \/ \E x \in {"ensurePackage", "returnPackage"} : PackageKnown(x)
  \/ PackageAsked
  \/ \E x \in {"prepare", "prepareOrReuse"} :
       PrepareRejected(x) \/ \E n \in {"own", "package"} : Prepared(x, n)
  \/ SyncSkipped \/ Synced
  \/ NextDescriptorHandle \/ DescriptorChanged
  \/ OpenCursorName
  \/ Executed \/ ExecutedLob
  \/ \E n, k \in Nat : ExecuteStopped(n, k)
  \/ OpenedRows \/ OpenedKeys \/ OpenedNothing \/ OpenInterrupted
  \/ NextRows

(* The operation that is running. *)
LEMMA OpType ==
  ASSUME TypeInv, op # None
  PROVE  op \in Operations /\ op.sent <= op.rows /\ op.total <= op.applied
BY DEF TypeInv, TypeOK

LEMMA StepIn ==
  ASSUME TypeInv, NEW x, Step(x)
  PROVE  x \in T /\ op # None /\ todo # <<>> /\ T # {}
BY HeadIn DEF TypeInv, Step, T

(* Only an operation on a valid connection has steps. *)
LEMMA Going ==
  ASSUME StepOutcome
  PROVE  op # None /\ valid /\ todo # <<>>
BY Zenon DEF StepOutcome, Stopped, Passed, PackageKnown, PackageAsked, Prepared, PrepareRejected, SyncSkipped, Synced,
   DescriptorChanged, NextDescriptorHandle, OpenCursorName, Executed, ExecutedLob, ExecuteStopped, OpenedRows,
   OpenedKeys, OpenedNothing, OpenInterrupted, NextRows, Step

LEMMA StepCases ==
  ASSUME TypeInv, ControlInv, PackageInv, Steps
  PROVE  StepOutcome
<1>1. ASSUME EnsurePackage PROVE StepOutcome
  <2>1. pkg \in PackageType /\ cfg.exception \in BOOLEAN
    BY ExecAssumption DEF TypeInv, TypeOK, PackageType
  <2>2. CASE ~(cfg.extended /\ ~pkg.created /\ pkg.enabled)
    BY Zenon, <1>1, <2>1, <2>2 DEF EnsurePackage, StepOutcome, PackageKnown, PackageLearned, PackageType, Continue, data
  <2>3. CASE cfg.extended /\ ~pkg.created /\ pkg.enabled
    BY Zenon, <1>1, <2>1, <2>3 DEF EnsurePackage, Plain, StepOutcome, PackageKnown, PackageAsked, PackageLearned, PackageType,
       Stopped, Stops, Step, Fail, Kept, Continue, data
  <2> QED BY <2>2, <2>3
<1>2. ASSUME CachePackage PROVE StepOutcome
  <2>1. pkg \in PackageType /\ cfg.exception \in BOOLEAN
    BY ExecAssumption DEF TypeInv, TypeOK, PackageType
  <2>2. cfg.extended /\ ~pkg.created
    BY <1>2, StepIn DEF CachePackage, PackageInv, Step
  <2> QED
    BY Zenon, <1>2, <2>1, <2>2, ExecAssumption
    DEF CachePackage, Plain, StepOutcome, PackageKnown, PackageLearned, PackageType, Stopped, Stops, Step, Fail, Kept,
       Continue, data
<1>3. ASSUME NEW x \in {"prepare", "prepareOrReuse"}, Step(x), PrepareAndDescribe PROVE StepOutcome
  <2>1. op \in Operations /\ op.name = "own"
    BY <1>3, OpType, StepIn DEF ControlInv, Step
  <2>2. op = [op EXCEPT !.name = "own"]
    BY <2>1 DEF Operations
  <2>3. specForPrepare(op.q) \in BOOLEAN
    BY DEF specForPrepare
  <2>4. PrepareRejected(x) \/ Prepared(x, "own") \/ Stopped
    BY Zenon, <1>3, <2>2, <2>3
    DEF PrepareAndDescribe, Plain, PrepareRejected, Prepared, Stopped, Stops, Step, Fail, Kept, data
  <2> QED BY <2>4 DEF StepOutcome
<1>4. ASSUME Prepare PROVE StepOutcome
  BY <1>3, <1>4 DEF Prepare
<1>5. ASSUME PrepareOrReuse PROVE StepOutcome
  <2>1. CASE ~cachedStatementFor(op.q)
    BY Zenon, <1>3, <1>5, <2>1 DEF PrepareOrReuse
  <2>2. CASE cachedStatementFor(op.q)
    <3>1. specForPrepare(op.q)
      BY <2>2 DEF cachedStatementFor, specForPrepare
    <3>2. op.kind \notin {"query", "keys"}
      BY <1>5, StepIn DEF PrepareOrReuse, ControlInv, StepOf
    <3>3. Prepared("prepareOrReuse", "package") \/ Stopped
      BY Zenon, <1>5, <2>2, <3>1, <3>2
      DEF PrepareOrReuse, Plain, Prepared, Stopped, Stops, Step, Fail, Kept, data
    <3> QED BY <3>3 DEF StepOutcome
  <2> QED BY <2>1, <2>2
<1>6. ASSUME SyncQueryTimeoutRPB PROVE StepOutcome
  <2>1. SyncSkipped \/ Synced \/ Stopped
    BY Zenon, <1>6 DEF SyncQueryTimeoutRPB, Plain, SyncSkipped, Synced, Passed, Wanted, Stopped, Stops, Step, Fail, Kept,
       Continue, data
  <2> QED BY <2>1 DEF StepOutcome
<1>7. ASSUME ChangeDescriptor PROVE StepOutcome
  <2>1. DescriptorChanged \/ Stopped
    BY Zenon, <1>7 DEF ChangeDescriptor, Plain, DescriptorChanged, Rejected, Stopped, Stops, Step, Fail, Kept, data
  <2> QED BY <2>1 DEF StepOutcome
<1>8. ASSUME NEW x \in Quiet, Step(x), \/ Continue /\ UNCHANGED <<valid, why, ctx, data>>
                                       \/ Plain((Continue \/ Rejected \/ Fail("sql") \/ Fail("bad")) /\ UNCHANGED data)
                                       \/ Statement((Continue \/ Rejected) /\ UNCHANGED data, srv, op)
      PROVE  StepOutcome
  <2>1. Passed(x) \/ Stopped
    BY Zenon, <1>8 DEF Plain, Statement, Passed, Rejected, Stopped, Stops, Step, Fail, Kept, data
  <2> QED BY <2>1 DEF StepOutcome
<1>9. ASSUME WriteLOBData \/ RetrieveLobData \/ ExecuteImmediate \/ ExecuteCall \/ ReadGeneratedKeyRows \/ Ping
      PROVE  StepOutcome
  <2>1. CASE WriteLOBData
    BY <1>8, <2>1 DEF WriteLOBData, Quiet, Plain
  <2>2. CASE RetrieveLobData
    BY <1>8, <2>2 DEF RetrieveLobData, Quiet, Plain
  <2>3. CASE ExecuteImmediate
    BY <1>8, <2>3 DEF ExecuteImmediate, Quiet, Plain
  <2>4. CASE ExecuteCall
    BY <1>8, <2>4 DEF ExecuteCall, Quiet
  <2>5. CASE ReadGeneratedKeyRows
    BY <1>8, <2>5 DEF ReadGeneratedKeyRows, Quiet
  <2>6. CASE Ping
    BY <1>8, <2>6 DEF Ping, Quiet, Plain
  <2> QED BY <1>9, <2>1, <2>2, <2>3, <2>4, <2>5, <2>6
<1>10. ASSUME Execute PROVE StepOutcome
  <2>1. op \in Operations
    BY <1>10, OpType DEF Execute, Step
  <2>0. op.size \in Nat /\ op.total \in Nat
    BY <2>1 DEF Operations
  <2>2. \A n \in Nat : Applied(n) = [op EXCEPT !.applied = @ + n, !.total = @ + 0]
    <3> SUFFICES ASSUME NEW n \in Nat PROVE Applied(n) = [op EXCEPT !.applied = @ + n, !.total = @ + 0]
      BY Zenon
    <3>1. op.total + 0 = op.total
      BY <2>0
    <3>2. [op EXCEPT !.applied = @ + n, !.total = @ + 0] = [op EXCEPT !.applied = @ + n]
      BY Zenon, <2>1, <3>1 DEF Operations
    <3> QED BY <3>2 DEF Applied
  <2>3. [Applied(op.size) EXCEPT !.total = @ + op.size] = [op EXCEPT !.applied = @ + op.size, !.total = @ + op.size]
    BY <2>1 DEF Applied, Operations
  <2> DEFINE Some == \E n, k \in Nat : ExecuteStopped(n, k)
  <2>4. ASSUME NEW n \in Nat, NEW k \in Nat, ExecuteStopped(n, k) PROVE Some
    BY <2>4
  <2>5. Step("execute") /\ UNCHANGED <<ops, cfg, cli, pkg>>
    BY <1>10 DEF Execute, Statement, Plain, data
  <2> HIDE DEF Some
  <2>6. CASE UNCHANGED data /\ Stops
    BY <2>5, <2>6 DEF Stopped, Step, StepOutcome, data
  <2>7. CASE /\ op' = [Applied(op.size) EXCEPT !.total = @ + op.size] /\ Kept
             /\ \/ Continue /\ UNCHANGED <<undo, srv>>
                \/ /\ classifySQLStatement(op.q) = "call"
                   /\ Fail("sql")
                   /\ UNCHANGED <<undo, srv>>
                \/ /\ classifySQLStatement(op.q) = "call"
                   /\ srv' = [srv EXCEPT !.locator = TRUE]
                   /\ todo' = <<"lobLength", "lobData">>
                   /\ undo' = <<"freeLob">> \o undo
                   /\ UNCHANGED err
    <3>1. Executed \/ ExecutedLob \/ ExecuteStopped(op.size, op.size)
      BY <2>0, <2>3, <2>5, <2>7 DEF Executed, ExecutedLob, ExecuteStopped, Ran, Fail, Stops, Kept
    <3> QED BY <2>0, <2>4, <3>1 DEF StepOutcome, Some
  <2>8. CASE Kept /\ (\E n \in 0..(op.size - 1) : op' = Applied(n)) /\ Rejected /\ UNCHANGED <<undo, srv>>
    <3>1. PICK n \in 0..(op.size - 1) : op' = Applied(n)
      BY <2>8
    <3>2. n \in Nat /\ n <= op.size
      BY <2>0
    <3>3. ExecuteStopped(n, 0)
      BY Zenon, <2>2, <2>5, <2>8, <3>1, <3>2 DEF ExecuteStopped, Ran, Rejected, Stops
    <3> QED BY <2>4, <3>2, <3>3 DEF StepOutcome, Some
  <2>9. CASE Fail("ctx") /\ (UNCHANGED <<srv, op>> \/ (srv' = srv /\ op' = Applied(op.size))) /\ UNCHANGED undo
    <3>1. CASE UNCHANGED op
      BY <2>5, <2>6, <2>9, <3>1 DEF Fail, Stops, data
    <3>2. CASE op' = Applied(op.size)
      <4>0. Ran(op.size, 0)
        BY Zenon, <2>0, <2>2, <3>2 DEF Ran
      <4>1. ExecuteStopped(op.size, 0)
        BY <2>0, <2>5, <2>9, <4>0 DEF ExecuteStopped, Fail, Stops
      <4> QED BY <2>0, <2>4, <4>1 DEF StepOutcome, Some
    <3> QED BY <2>9, <3>1, <3>2
  <2> QED BY <1>10, <2>6, <2>7, <2>8, <2>9 DEF Execute, Statement, Plain, Stops, Fail
<1>11. ASSUME OpenAndDescribe PROVE StepOutcome
  <2>1. OpenedRows \/ OpenedKeys \/ OpenedNothing \/ OpenInterrupted \/ Stopped
    BY Zenon, <1>11 DEF OpenAndDescribe, Statement, Plain, OpenedRows, OpenedKeys, OpenedNothing, OpenInterrupted, Stopped,
       CursorOpened, NewRow, Rejected, Stops, Step, Fail, Kept, data
  <2> QED BY <2>1 DEF StepOutcome
<1>12. ASSUME MessageText PROVE StepOutcome
  <2>1. err # "none" /\ err \in {"none", "ctx", "bad", "sql"}
    BY <1>12, StepIn DEF MessageText, ControlInv, TypeInv, TypeOK
  <2>2. Stopped
    BY <1>12, <2>1 DEF MessageText, Stopped, Stops, Step, data
  <2> QED BY <2>2 DEF StepOutcome
<1>13. ASSUME NextDescriptorHandle \/ OpenCursorName \/ NextRows PROVE StepOutcome
  BY <1>13 DEF StepOutcome
<1> QED
  BY <1>1, <1>2, <1>4, <1>5, <1>6, <1>7, <1>9, <1>10, <1>11, <1>12, <1>13 DEF Steps

-----------------------------------------------------------------------------
(* What a deferred call can do.  A lost connection leaves the server as it *)
(* was.                                                                    *)
Popping(x) == Undo(x) /\ undo' = Tail(undo) /\ UNCHANGED <<ops, cfg, todo, err, pkg>>

UndoDone(x, srvAfter) ==
  /\ Popping(x)
  /\ valid' => srv' = srvAfter
  /\ ~valid' => UNCHANGED srv
  /\ UNCHANGED op

UndoOutcome ==
  \/ UndoDone("deleteDescriptor", [srv EXCEPT !.descriptors = @ \ {op.descriptor}]) /\ UNCHANGED cli
  \/ UndoDone("freeLob", [srv EXCEPT !.locator = FALSE]) /\ UNCHANGED cli
  \/ /\ UndoDone("undoOpen", IF err = "ctx" THEN [srv EXCEPT !.cursors = @ \ {op.cursor}] ELSE srv)
     /\ ReleaseName(op.h, op.default)
  \/ /\ \E x \in {"closeStatement", "discard"} :
          /\ UndoDone(x, IF op.name = "package" THEN srv ELSE [srv EXCEPT !.rpb[op.h] = None])
          /\ x = "discard" => err # "none"
     /\ cli' = [cli EXCEPT !.used = @ \ {op.h}]
  \/ UndoDone("discard", srv) /\ err = "none" /\ UNCHANGED cli
  \/ UndoDone("releaseId", srv) /\ cli' = [cli EXCEPT !.used = @ \ {op.h}]
  \/ UndoDone("releaseName", srv) /\ ReleaseName(op.h, op.default)
  \/ UndoDone("closeCursor", [srv EXCEPT !.cursors = @ \ {op.cursor}]) /\ UNCHANGED cli
  \/ RowsDone

LEMMA UndoCases ==
  ASSUME TypeInv, Cleanup
  PROVE  UndoOutcome
<1>0. valid \in BOOLEAN
  BY DEF TypeInv, TypeOK
<1>1. ASSUME DeleteDescriptor \/ FreeLob PROVE UndoOutcome
  BY <1>1 DEF DeleteDescriptor, FreeLob, Deferred, UndoOutcome, UndoDone, Popping, Undo, Kept, Lost
<1>2. ASSUME UndoOpen PROVE UndoOutcome
  <2>1. CASE err = "ctx"
    BY Zenon, <1>2, <2>1 DEF UndoOpen, Deferred, UndoOutcome, UndoDone, Popping, Undo, Kept, Lost
  <2>2. CASE err # "ctx"
    BY <1>2, <2>2 DEF UndoOpen, UndoOutcome, UndoDone, Popping, Undo
  <2> QED BY <2>1, <2>2
<1>3. ASSUME ClosePreparedStatement PROVE UndoOutcome
  <2>1. PICK x \in {"closeStatement", "discard"} : Undo(x) /\ (x = "discard" => err # "none")
    BY <1>3 DEF ClosePreparedStatement
  <2>2. UndoDone(x, IF op.name = "package" THEN srv ELSE [srv EXCEPT !.rpb[op.h] = None])
    <3>1. CASE op.name = "package"
      BY <1>3, <2>1, <3>1 DEF ClosePreparedStatement, UndoDone, Popping, Undo
    <3>2. CASE op.name # "package"
      BY Zenon, <1>3, <2>1, <3>2 DEF ClosePreparedStatement, Deferred, UndoDone, Popping, Undo, Kept, Lost
    <3> QED BY <3>1, <3>2
  <2> QED BY <1>3, <2>1, <2>2 DEF ClosePreparedStatement, UndoOutcome
<1>4. ASSUME DeferredLocal PROVE UndoOutcome
  BY <1>4 DEF DeferredLocal, UndoOutcome, UndoDone, Popping, Undo
<1>5. ASSUME CloseCursor PROVE UndoOutcome
  BY Zenon, <1>5 DEF CloseCursor, Deferred, UndoOutcome, UndoDone, Popping, Undo, Kept, Lost
<1>6. ASSUME RowsDone PROVE UndoOutcome
  BY <1>6 DEF UndoOutcome
<1> QED BY <1>1, <1>2, <1>3, <1>4, <1>5, <1>6 DEF Cleanup

-----------------------------------------------------------------------------
(* The lists that operations begin with.                                   *)
LEMMA SyncJoined ==
  ASSUME NEW s \in Seq(Names), NEW t \in Seq(Names), SyncFirst(s), SyncFirst(t) \/ "sync" \in Range(s)
  PROVE  SyncFirst(s \o t)
<1> DEFINE m == Len(s)
           n == Len(t)
           r == s \o t
<1>0. m \in Nat /\ DOMAIN s = 1..m /\ n \in Nat
  OBVIOUS
<1>1. Len(r) = m + n /\ \A i \in 1..(m + n) : r[i] = IF i <= m THEN s[i] ELSE t[i - m]
  OBVIOUS
<1>2. \A i \in 1..m : s[i] \in Runs => \E j \in 1..(i - 1) : s[j] = "sync"
  BY DEF SyncFirst
<1>3. SyncFirst(t) => \A i \in 1..n : t[i] \in Runs => \E j \in 1..(i - 1) : t[j] = "sync"
  BY DEF SyncFirst
<1>4. "sync" \in Range(s) => \E j \in 1..m : s[j] = "sync"
  BY <1>0 DEF Range
<1> HIDE DEF m, n, r
<1>5. ASSUME NEW i \in 1..(m + n), r[i] \in Runs PROVE \E j \in 1..(i - 1) : r[j] = "sync"
  <2>1. CASE i <= m
    <3>1. PICK j \in 1..(i - 1) : s[j] = "sync"
      BY <1>0, <1>1, <1>2, <1>5, <2>1
    <3>2. j \in 1..(m + n) /\ j <= m
      BY <1>0, <2>1
    <3>3. r[j] = "sync"
      BY <1>1, <3>1, <3>2
    <3> QED BY <3>3
  <2>2. CASE ~(i <= m) /\ "sync" \in Range(s)
    <3>1. PICK j \in 1..m : s[j] = "sync"
      BY <1>4, <2>2
    <3>2. j \in 1..(m + n) /\ j <= m /\ j \in 1..(i - 1)
      BY <1>0, <2>2
    <3>3. r[j] = "sync"
      BY <1>1, <3>1, <3>2
    <3> QED BY <3>2, <3>3
  <2>3. CASE ~(i <= m) /\ SyncFirst(t)
    <3>1. i - m \in 1..n /\ t[i - m] \in Runs
      BY <1>0, <1>1, <1>5, <2>3
    <3>2. PICK k \in 1..((i - m) - 1) : t[k] = "sync"
      BY <1>3, <2>3, <3>1
    <3>3. k + m \in 1..(i - 1) /\ k + m \in 1..(m + n) /\ ~(k + m <= m) /\ (k + m) - m = k
      BY <1>0, <3>1
    <3>4. r[k + m] = "sync"
      BY <1>1, <3>2, <3>3
    <3> QED BY <3>3, <3>4
  <2> QED BY <2>1, <2>2, <2>3
<1> QED BY <1>1, <1>5 DEF SyncFirst, r

(* A list whose steps run nothing. *)
LEMMA SyncNone ==
  ASSUME NEW s \in Seq(Names), Range(s) \cap Runs = {}
  PROVE  SyncFirst(s)
BY DEF SyncFirst, Range

(* The list s has the steps S, in an order that is allowed. *)
Lists(s, S) == s \in Seq(Names) /\ Ordered(s) /\ Range(s) = S

LEMMA JoinLists ==
  ASSUME NEW s, NEW S, NEW t, NEW V, Lists(s, S), Lists(t, V), \A a \in S, b \in V : Follows(a, b)
  PROVE  Lists(s \o t, S \cup V)
BY Joined DEF Lists

LEMMA Literals ==
  /\ Lists(<<>>, {})
  /\ \A a \in Names : Lists(<<a>>, {a})
  /\ Lists(<<"descriptor", "change", "writeLOB">>, {"descriptor", "change", "writeLOB"})
  /\ Lists(execBlock, {"descriptor", "change", "execute"})
  /\ Lists(<<"sync", "executeCall">>, {"sync", "executeCall"}) /\ SyncFirst(<<"sync", "executeCall">>)
  /\ Lists(queryRowsForStatement, {"cursor", "sync", "open"}) /\ SyncFirst(queryRowsForStatement)
  /\ Lists(<<"ensurePackage", "immediate">>, {"ensurePackage", "immediate"})
  /\ Lists(<<"ensurePackage", "prepare">>, {"ensurePackage", "prepare"})
  /\ Lists(<<"ensurePackage", "prepareOrReuse">>, {"ensurePackage", "prepareOrReuse"})
  /\ Lists(<<"ensurePackage", "prepareOrReuse", "nextRows">>, {"ensurePackage", "prepareOrReuse", "nextRows"})
  /\ Lists(<<"lobLength", "lobData">>, {"lobLength", "lobData"})
  /\ Lists(<<"closeCursor", "closeStatement", "releaseName">>, {"closeCursor", "closeStatement", "releaseName"})
<1>1. Lists(<<>>, {}) /\ \A a \in Names : Lists(<<a>>, {a})
  BY Single, Nothing DEF Lists
<1>2. ASSUME NEW a \in Names, NEW b \in Names, Follows(a, b) PROVE Lists(<<a, b>>, {a, b})
  <2>1. <<a, b>> \in Seq(Names) /\ Len(<<a, b>>) = 2 /\ <<a, b>>[1] = a /\ <<a, b>>[2] = b
    OBVIOUS
  <2>2. DOMAIN <<a, b>> = {1, 2}
    BY <2>1
  <2>3. Ordered(<<a, b>>)
    BY <1>2, <2>1 DEF Ordered
  <2>4. Range(<<a, b>>) = {a, b}
    BY <2>1, <2>2 DEF Range
  <2> QED BY <2>1, <2>3, <2>4 DEF Lists
<1>3. ASSUME NEW a \in Names, NEW b \in Names, NEW c \in Names, Follows(a, b), Follows(a, c), Follows(b, c)
      PROVE  Lists(<<a, b, c>>, {a, b, c})
  <2>1. <<a, b, c>> \in Seq(Names) /\ Len(<<a, b, c>>) = 3 /\ <<a, b, c>>[1] = a /\ <<a, b, c>>[2] = b /\ <<a, b, c>>[3] = c
    OBVIOUS
  <2>2. DOMAIN <<a, b, c>> = {1, 2, 3}
    BY <2>1
  <2>3. Ordered(<<a, b, c>>)
    BY <1>3, <2>1 DEF Ordered
  <2>4. Range(<<a, b, c>>) = {a, b, c}
    BY <2>1, <2>2 DEF Range
  <2> QED BY <2>1, <2>3, <2>4 DEF Lists
<1>4. SyncFirst(<<"sync", "executeCall">>)
  BY DEF SyncFirst, Runs
<1>5. SyncFirst(queryRowsForStatement)
  BY DEF SyncFirst, Runs, queryRowsForStatement
<1>6. /\ Lists(<<"sync", "executeCall">>, {"sync", "executeCall"})
      /\ Lists(<<"ensurePackage", "immediate">>, {"ensurePackage", "immediate"})
      /\ Lists(<<"ensurePackage", "prepare">>, {"ensurePackage", "prepare"})
      /\ Lists(<<"ensurePackage", "prepareOrReuse">>, {"ensurePackage", "prepareOrReuse"})
      /\ Lists(<<"lobLength", "lobData">>, {"lobLength", "lobData"})
  <2>1. /\ {"sync", "executeCall", "ensurePackage", "immediate", "prepare", "prepareOrReuse",
            "lobLength", "lobData"} \subseteq Names
        /\ Follows("sync", "executeCall") /\ Follows("ensurePackage", "immediate")
        /\ Follows("ensurePackage", "prepare") /\ Follows("ensurePackage", "prepareOrReuse")
        /\ Follows("lobLength", "lobData")
    BY DEF Names, Follows
  <2> QED BY Zenon, <1>2, <2>1
<1>7. Lists(<<"descriptor", "change", "writeLOB">>, {"descriptor", "change", "writeLOB"})
  <2>1. "descriptor" \in Names /\ "change" \in Names /\ "writeLOB" \in Names
    BY DEF Names
  <2>2. Follows("descriptor", "change") /\ Follows("descriptor", "writeLOB") /\ Follows("change", "writeLOB")
    BY DEF Follows
  <2> QED BY <1>3, <2>1, <2>2
<1>8. Lists(execBlock, {"descriptor", "change", "execute"})
  <2>1. "descriptor" \in Names /\ "change" \in Names /\ "execute" \in Names
    BY DEF Names
  <2>2. Follows("descriptor", "change") /\ Follows("descriptor", "execute") /\ Follows("change", "execute")
    BY DEF Follows
  <2> QED BY <1>3, <2>1, <2>2 DEF execBlock
<1>9. Lists(queryRowsForStatement, {"cursor", "sync", "open"})
  <2>1. "cursor" \in Names /\ "sync" \in Names /\ "open" \in Names
    BY DEF Names
  <2>2. Follows("cursor", "sync") /\ Follows("cursor", "open") /\ Follows("sync", "open")
    BY DEF Follows
  <2> QED BY <1>3, <2>1, <2>2 DEF queryRowsForStatement
<1>10. Lists(<<"ensurePackage", "prepareOrReuse", "nextRows">>, {"ensurePackage", "prepareOrReuse", "nextRows"})
  <2>1. "ensurePackage" \in Names /\ "prepareOrReuse" \in Names /\ "nextRows" \in Names
    BY DEF Names
  <2>2. Follows("ensurePackage", "prepareOrReuse") /\ Follows("ensurePackage", "nextRows") /\ Follows("prepareOrReuse", "nextRows")
    BY DEF Follows
  <2> QED BY <1>3, <2>1, <2>2
<1>11. Lists(<<"closeCursor", "closeStatement", "releaseName">>, {"closeCursor", "closeStatement", "releaseName"})
  <2>1. "closeCursor" \in Names /\ "closeStatement" \in Names /\ "releaseName" \in Names
    BY DEF Names
  <2>2. Follows("closeCursor", "closeStatement") /\ Follows("closeCursor", "releaseName") /\ Follows("closeStatement", "releaseName")
    BY DEF Follows
  <2> QED BY <1>3, <2>1, <2>2
<1> QED BY <1>1, <1>4, <1>5, <1>6, <1>7, <1>8, <1>9, <1>10, <1>11

(* The lists of prepared statements and queries. *)
LEMMA ExecList ==
  ASSUME NEW q
  PROVE  \E S \in SUBSET {"descriptor", "change", "writeLOB"} :
           /\ Lists(execPrepared(q), {"sync"} \cup S \cup {"execute"})
           /\ SyncFirst(execPrepared(q))
           /\ "change" \in S => "descriptor" \in S
<1> DEFINE S == IF HasMarkers(q) THEN {"descriptor", "change", "writeLOB"} ELSE {}
           s == <<"sync">>
           b == BindSteps(q)
           e == <<"execute">>
<1>1. Lists(s, {"sync"}) /\ Lists(b, S) /\ Lists(e, {"execute"})
  BY Literals DEF BindSteps, Names
<1>2. execPrepared(q) = (s \o b) \o e
  BY DEF execPrepared
<1>3. S \subseteq {"descriptor", "change", "writeLOB"} /\ ("change" \in S => "descriptor" \in S)
  OBVIOUS
<1> HIDE DEF S, s, b, e
<1>4. Lists(s \o b, {"sync"} \cup S)
  BY Zenon, <1>1, <1>3, JoinLists DEF Follows
<1>5. Lists((s \o b) \o e, {"sync"} \cup S \cup {"execute"})
  BY Zenon, <1>1, <1>3, <1>4, JoinLists DEF Follows
<1>6. SyncFirst(s \o b)
  BY Zenon, <1>3, <1>4, SyncNone DEF Lists, Runs
<1>7. SyncFirst((s \o b) \o e)
  BY Zenon, <1>1, <1>4, <1>6, SyncJoined DEF Lists
<1> QED BY Zenon, <1>2, <1>3, <1>5, <1>7

-----------------------------------------------------------------------------
(* How the two lists change.                                               *)
LEMMA Went ==
  ASSUME TypeInv, ControlInv, NEW x, Step(x), Continue
  PROVE  /\ todo' \in Seq(Names) /\ Ordered(todo')
         /\ T = {x} \cup T' /\ \A b \in T' : Follows(x, b)
BY Popped DEF TypeInv, ControlInv, Step, Continue, T

LEMMA WentBack ==
  ASSUME TypeInv, ControlInv, NEW x, Undo(x), undo' = Tail(undo)
  PROVE  /\ undo' \in Seq(Names) /\ Ordered(undo')
         /\ U = {x} \cup U' /\ \A b \in U' : Follows(x, b)
         /\ T = {} /\ op # None
<1>1. T = {} /\ op # None
  BY Nothing DEF Undo, T
<1> QED BY <1>1, Popped DEF TypeInv, ControlInv, Undo, U

LEMMA StopsAt ==
  ASSUME Stops
  PROVE  todo' \in Seq(Names) /\ Ordered(todo') /\ T' \subseteq {"message"} /\ err' # "none" /\ ("message" \in T' => err' = "sql")
<1>1. "message" \in Names
  BY DEF Names
<1> QED BY Zenon, <1>1, Single, Nothing DEF Stops, T

LEMMA Deferring ==
  ASSUME TypeInv, ControlInv, NEW x \in Names, undo' = <<x>> \o undo, \A b \in U : Follows(x, b)
  PROVE  undo' \in Seq(Names) /\ Ordered(undo') /\ U' = {x} \cup U /\ undo' # <<>> /\ Head(undo') = x
BY Pushed DEF TypeInv, ControlInv, U

(* A list of one deferred call. *)
LEMMA OnlyDiscard ==
  ASSUME undo' = <<"discard">>
  PROVE  undo' \in Seq(Names) /\ Ordered(undo') /\ U' = {"discard"}
<1>1. "discard" \in Names
  BY DEF Names
<1> QED BY <1>1, Single DEF U

LEMMA ReleasesId ==
  ASSUME undo = <<"releaseId">>
  PROVE  U = {"releaseId"}
<1>1. "releaseId" \in Names
  BY DEF Names
<1> QED BY <1>1, Single DEF U

(* Which operations have a step or a deferred call. *)
LEMMA Belongs ==
  ASSUME ControlInv, op # None
  PROVE  (\A step \in T : StepOf(op.kind, step)) /\ \A call \in U : UndoOf(op.kind, call)
BY DEF ControlInv

LEMMA KindOf ==
  ASSUME ControlInv, op # None
  PROVE  /\ "prepare" \in T => op.kind \in {"query", "keys"}
         /\ "prepareOrReuse" \in T => op.kind \in {"prepare", "execTransient", "queryTransient", "batch"}
         /\ T \cap {"ensurePackage", "returnPackage"} # {}
              => op.kind \in {"exec", "query", "keys", "prepare", "execTransient", "queryTransient", "batch"}
         /\ T \cap Binding # {}
              => op.kind \in {"execTransient", "queryTransient", "execStmt", "queryStmt", "batch"}
         /\ T \cap {"cursor", "open"} # {} => op.kind \in {"query", "keys", "queryTransient", "queryStmt"}
         /\ "execute" \in T => op.kind \in {"execTransient", "execStmt", "batch"}
         /\ "nextRows" \in T => op.kind = "batch"
         /\ "readKeys" \in T => op.kind = "keys"
         /\ "executeCall" \in T => op.kind \in {"query", "queryStmt"}
BY Belongs DEF StepOf, Binding, Preparing

(* The operation that a step leaves. *)
LEMMA OpStep ==
  ASSUME TypeInv, ControlInv, BatchInv, NameInv, StepOutcome
  PROVE  /\ op # None /\ op \in Operations /\ op' # None /\ op' \in Operations
         /\ op'.sent <= op'.rows /\ op'.total <= op'.applied
         /\ op'.kind = op.kind /\ op'.q = op.q /\ op'.h = op.h /\ op'.limit = op.limit
         /\ op'.rows = op.rows /\ op'.sent = op.sent
         /\ op'.name # op.name => Head(todo) \in {"prepare", "prepareOrReuse"}
         /\ op'.descriptor # op.descriptor => Head(todo) = "descriptor"
         /\ op'.cursor # op.cursor \/ op'.default # op.default => Head(todo) = "cursor"
         /\ op'.size # op.size => Head(todo) = "nextRows"
         /\ op'.total # op.total \/ op'.applied # op.applied => Head(todo) = "execute"
<1> DEFINE OpKept ==
             /\ op' \in Operations
             /\ op'.sent <= op'.rows /\ op'.total <= op'.applied
             /\ op'.kind = op.kind /\ op'.q = op.q /\ op'.h = op.h /\ op'.limit = op.limit
             /\ op'.rows = op.rows /\ op'.sent = op.sent
             /\ op'.name # op.name => Head(todo) \in {"prepare", "prepareOrReuse"}
             /\ op'.descriptor # op.descriptor => Head(todo) = "descriptor"
             /\ op'.cursor # op.cursor \/ op'.default # op.default => Head(todo) = "cursor"
             /\ op'.size # op.size => Head(todo) = "nextRows"
             /\ op'.total # op.total \/ op'.applied # op.applied => Head(todo) = "execute"
<1>0. op # None /\ valid /\ todo # <<>> /\ op \in Operations /\ op.sent <= op.rows /\ op.total <= op.applied
  <2>1. op # None /\ valid /\ todo # <<>>
    BY Going
  <2> QED BY <2>1, OpType
<1>1. ASSUME UNCHANGED op PROVE OpKept
  BY <1>0, <1>1
<1>2. ASSUME NEW x \in {"prepare", "prepareOrReuse"}, NEW n \in {"own", "package"}, Prepared(x, n)
      PROVE  OpKept
  <2>1. op' = [op EXCEPT !.name = n] /\ Head(todo) = x
    BY <1>2 DEF Prepared, Step
  <2>2. op' \in Operations
    BY <1>0, <1>2, <2>1 DEF Operations
  <2> QED BY <1>0, <1>2, <2>1, <2>2 DEF Operations
<1>3. ASSUME NextDescriptorHandle PROVE OpKept
  <2>1. MaxDescriptor \in Nat \ {0} /\ cli.descriptorSeq \in 0..MaxDescriptor
    BY ExecAssumption DEF TypeInv
  <2>2. (cli.descriptorSeq % MaxDescriptor) + 1 \in 0..MaxDescriptor
    BY <2>1
  <2>3. cli'.descriptorSeq = (cli.descriptorSeq % MaxDescriptor) + 1 /\ Head(todo) = "descriptor"
        /\ op' = [op EXCEPT !.descriptor = cli'.descriptorSeq]
    BY <1>3 DEF NextDescriptorHandle, TypeInv, Step
  <2>4. op' \in Operations
    BY <1>0, <2>2, <2>3 DEF Operations
  <2> QED BY <1>0, <2>3, <2>4 DEF Operations
<1>4. ASSUME OpenCursorName PROVE OpKept
  <2>1. op.h \in Handles /\ "cursor" \in T /\ Head(todo) = "cursor"
    <3>1. Step("cursor")
      BY <1>4 DEF OpenCursorName
    <3> QED BY <3>1, StepIn, KindOf DEF TypeInv, Step
  <2>2. PICK c \in Cursors, d \in BOOLEAN : op' = [op EXCEPT !.default = d, !.cursor = c]
    <3>1. CASE op.h \notin cli.busy
      <4>1. <<"default", op.h>> \in Cursors
        BY <2>1 DEF Cursors
      <4>2. op' = [op EXCEPT !.default = TRUE, !.cursor = <<"default", op.h>>]
        BY Zenon, <1>4, <3>1 DEF OpenCursorName
      <4> QED BY Zenon, <4>1, <4>2
    <3>2. CASE op.h \in cli.busy
      <4>1. cli.cursorSeq < MaxCursor /\ cli.cursorSeq \in Nat /\ MaxCursor \in Nat
        BY <1>0, <2>1, <3>2, ExecAssumption DEF NameInv, TypeInv
      <4>2. cli.cursorSeq + 1 \in 1..MaxCursor
        BY <4>1
      <4>3. cli'.cursorSeq = cli.cursorSeq + 1
        BY <1>4, <3>2 DEF OpenCursorName, TypeInv
      <4>4. op' = [op EXCEPT !.default = FALSE, !.cursor = <<"extra", cli'.cursorSeq>>]
        BY Zenon, <1>4, <3>2 DEF OpenCursorName
      <4>5. <<"extra", cli'.cursorSeq>> \in Cursors
        BY <4>2, <4>3 DEF Cursors
      <4> QED BY Zenon, <4>4, <4>5
    <3> QED BY Zenon, <3>1, <3>2
  <2>3. op' \in Operations
    BY Zenon, <1>0, <2>2 DEF Operations
  <2> QED BY <1>0, <2>1, <2>2, <2>3 DEF Operations
<1>5. ASSUME NEW n \in Nat, NEW k \in Nat, Step("execute"), Ran(n, k), k <= n PROVE OpKept
  <2>1. op.applied \in Nat /\ op.total \in Nat
    BY <1>0 DEF Operations
  <2> DEFINE a == op.applied + n
             b == op.total + k
  <2>2. a \in Nat /\ b \in Nat /\ b <= a
    BY <1>0, <1>5, <2>1
  <2>3. op' = [op EXCEPT !.applied = a, !.total = b]
    BY <1>0, <1>5 DEF Ran, Operations
  <2> HIDE DEF a, b
  <2>4. op' \in Operations /\ op'.applied = a /\ op'.total = b
    BY Zenon, <1>0, <2>2, <2>3 DEF Operations
  <2>5. Head(todo) = "execute"
    BY <1>5 DEF Step
  <2> QED BY <1>0, <2>2, <2>3, <2>4, <2>5 DEF Operations
<1>6. ASSUME NextRows PROVE OpKept
  <2>1. PICK n \in 1..(op.rows - op.sent) : op' = [op EXCEPT !.size = n]
    BY <1>6 DEF NextRows
  <2>2. n \in Nat /\ Head(todo) = "nextRows"
    BY <1>6 DEF NextRows, Step
  <2>3. op' \in Operations
    BY <1>0, <2>1, <2>2 DEF Operations
  <2> QED BY <1>0, <2>1, <2>2, <2>3 DEF Operations
<1>7. ASSUME Executed \/ ExecutedLob PROVE OpKept
  <2>1. op.size \in Nat /\ op.size <= op.size
    BY <1>0 DEF Operations
  <2> QED BY <1>5, <1>7, <2>1 DEF Executed, ExecutedLob
<1>8. ASSUME NEW n \in Nat, NEW k \in Nat, ExecuteStopped(n, k) PROVE OpKept
  <2>1. Ran(n, k) /\ k <= n /\ Step("execute")
    BY <1>8 DEF ExecuteStopped
  <2> QED BY <1>5, <2>1
<1>9. OpKept
  <2> HIDE DEF OpKept
  <2>1. \/ UNCHANGED op
        \/ \E x \in {"prepare", "prepareOrReuse"}, n \in {"own", "package"} : Prepared(x, n)
        \/ NextDescriptorHandle \/ OpenCursorName \/ NextRows \/ Executed \/ ExecutedLob
        \/ \E n, k \in Nat : ExecuteStopped(n, k)
    BY Zenon DEF StepOutcome, Stopped, Passed, PackageKnown, PackageAsked, PrepareRejected, SyncSkipped, Synced,
       DescriptorChanged, OpenedRows, OpenedKeys, OpenedNothing, OpenInterrupted, data
  <2> QED BY <1>1, <1>2, <1>3, <1>4, <1>6, <1>7, <1>8, <2>1
<1>10. op' # None
  BY <1>9, ExecAssumption
<1> QED BY <1>0, <1>9, <1>10

(* When a cursor is to be opened, what undoes that is the next deferred call. *)
LEMMA OpenTop ==
  ASSUME TypeInv, ControlInv, Step("open")
  PROVE  /\ op # None /\ "open" \in T /\ T \subseteq {"open", "readKeys"} /\ err = "none"
         /\ op.kind \in {"query", "keys", "queryTransient", "queryStmt"}
         /\ op.kind # "keys" => T = {"open"}
         /\ undo # <<>> /\ Head(undo) = "undoOpen" /\ Tail(undo) \in Seq(Names) /\ Ordered(Tail(undo))
         /\ U = {"undoOpen"} \cup Range(Tail(undo)) /\ "undoOpen" \notin Range(Tail(undo))
<1>1. op # None /\ "open" \in T /\ todo # <<>> /\ Head(todo) = "open"
  BY StepIn DEF Step
<1>2. T = {"open"} \cup Range(Tail(todo)) /\ \A b \in Range(Tail(todo)) : Follows("open", b)
  BY <1>1, Popped DEF TypeInv, ControlInv, T
<1>3. T \subseteq {"open", "readKeys"}
  BY <1>2 DEF Follows
<1>4. op.kind \in {"query", "keys", "queryTransient", "queryStmt"} /\ ("readKeys" \in T => op.kind = "keys")
  BY <1>1, KindOf
<1>5. err = "none" /\ undo # <<>> /\ Head(undo) = "undoOpen"
  BY <1>1, <1>3 DEF ControlInv
<1>6. /\ Tail(undo) \in Seq(Names) /\ Ordered(Tail(undo))
      /\ U = {"undoOpen"} \cup Range(Tail(undo)) /\ \A b \in Range(Tail(undo)) : Follows("undoOpen", b)
  BY <1>5, Popped DEF TypeInv, ControlInv, U
<1>7. "undoOpen" \notin Range(Tail(undo))
  BY <1>6 DEF Follows
<1> QED BY Zenon, <1>1, <1>3, <1>4, <1>5, <1>6, <1>7

LEMMA NextList ==
  ASSUME NextRows
  PROVE  /\ todo' \in Seq(Names) /\ Ordered(todo')
         /\ T' \subseteq {"sync", "descriptor", "change", "writeLOB", "execute"} /\ "execute" \in T'
         /\ "change" \in T' => "descriptor" \in T'
         /\ ~cfg.blocks => SyncFirst(todo')
<1>1. todo' = IF cfg.blocks THEN execBlock ELSE execPrepared(op.q)
  BY DEF NextRows
<1>2. CASE cfg.blocks
  BY <1>1, <1>2, Literals DEF Lists, T
<1>3. CASE ~cfg.blocks
  <2>1. PICK S \in SUBSET {"descriptor", "change", "writeLOB"} :
          /\ Lists(execPrepared(op.q), {"sync"} \cup S \cup {"execute"})
          /\ SyncFirst(execPrepared(op.q))
          /\ "change" \in S => "descriptor" \in S
    BY Zenon, ExecList
  <2> QED BY Zenon, <1>1, <1>3, <2>1 DEF Lists, T
<1> QED BY <1>2, <1>3

LEMMA ControlGoes ==
  ASSUME TypeInv, ControlInv, BatchInv, NameInv, StepOutcome
  PROVE  ControlInv'
<1>ControlStops. ASSUME op # None, op' # None, todo # <<>>, Stops, op'.kind = op.kind,
                        undo' \in Seq(Names), Ordered(undo'), \A call \in U' : UndoOf(op.kind, call),
                        op.kind = "prepare" => "discard" \in U'
                 PROVE  ControlInv'
  <2> USE <1>ControlStops
  <2>1. todo' \in Seq(Names) /\ Ordered(todo') /\ T' \subseteq {"message"} /\ err' # "none" /\ ("message" \in T' => err' = "sql")
    BY StopsAt
  <2> QED BY <2>1 DEF ControlInv, StepOf
<1>1. CASE Stopped
  <2>1. op # None /\ todo # <<>> /\ Stops /\ UNCHANGED <<op, undo>> /\ U' = U
    BY <1>1 DEF Stopped, U
  <2>2. T # {}
    BY <2>1, EmptyRange DEF TypeInv, T
  <2> QED BY <2>1, <2>2, <1>ControlStops DEF ControlInv, TypeInv
<1>2. ASSUME NEW x, Step(x), Continue, UNCHANGED <<op, undo>>,
             x \in Quiet \cup {"ensurePackage", "returnPackage", "sync", "change"}
      PROVE  ControlInv'
  <2>1. /\ todo' \in Seq(Names) /\ Ordered(todo') /\ op # None /\ err' = err
        /\ T = {x} \cup T' /\ \A b \in T' : Follows(x, b)
    BY <1>2, Went DEF Step, Continue
  <2>2. U' = U
    BY <1>2 DEF U
  <2>3. "open" \in T <=> "open" \in T'
    BY <1>2, <2>1 DEF Quiet
  <2>4. "cursor" \in T <=> "cursor" \in T'
    BY <1>2, <2>1 DEF Quiet
  <2>5. "prepare" \in T <=> "prepare" \in T'
    BY <1>2, <2>1 DEF Quiet
  <2> QED BY <1>2, <2>1, <2>2, <2>3, <2>4, <2>5 DEF ControlInv
<1>3. CASE PackageAsked
  <2> DEFINE r == Tail(todo)
  <2>1. /\ r \in Seq(Names) /\ Ordered(r) /\ todo' = <<"returnPackage">> \o r /\ UNCHANGED <<op, undo, err>>
        /\ T = {"ensurePackage"} \cup Range(r) /\ \A b \in Range(r) : Follows("ensurePackage", b)
        /\ op # None
    BY <1>3, Popped DEF PackageAsked, Step, TypeInv, ControlInv, T
  <2> HIDE DEF r
  <2>2. \A b \in Range(r) : Follows("returnPackage", b)
    BY <2>1 DEF Follows
  <2>3. "returnPackage" \in Names
    BY DEF Names
  <2>4. todo' \in Seq(Names) /\ Ordered(todo') /\ T' = {"returnPackage"} \cup Range(r)
    BY <2>1, <2>2, <2>3, Pushed DEF T
  <2>5. U' = U
    BY <2>1 DEF U
  <2>6. \A step \in T' : StepOf(op.kind, step)
    <3>1. StepOf(op.kind, "returnPackage")
      BY <2>1, KindOf DEF StepOf, Preparing
    <3> QED BY <2>1, <2>4, <3>1, Belongs
  <2>7. \A b : b \notin {"ensurePackage", "returnPackage"} => (b \in T' <=> b \in T)
    BY <2>1, <2>4
  <2>8. T # {} /\ "message" \notin T
    BY Zenon, <2>1 DEF ControlInv
  <2> QED BY <2>1, <2>4, <2>5, <2>6, <2>7, <2>8 DEF ControlInv
<1>4. ASSUME NEW x \in {"prepare", "prepareOrReuse"}, Step(x),
             undo' = IF op.kind \in {"query", "keys"} THEN <<"discard">> ELSE undo
      PROVE  /\ undo' \in Seq(Names) /\ Ordered(undo') /\ \A call \in U' : UndoOf(op.kind, call)
             /\ op.kind \in {"query", "keys"} => U' = {"discard"} /\ U = {"releaseId"}
             /\ op.kind \notin {"query", "keys"} => U' = U
             /\ op # None /\ x \in T /\ T # {}
  <2>1. op # None /\ x \in T /\ T # {} /\ (op.kind \in {"query", "keys"} => undo = <<"releaseId">>)
    <3>1. op # None /\ x \in T /\ T # {}
      BY <1>4, StepIn
    <3> QED BY <1>4, <3>1, KindOf DEF ControlInv
  <2>2. CASE op.kind \in {"query", "keys"}
    BY <1>4, <2>1, <2>2, OnlyDiscard, ReleasesId DEF UndoOf
  <2>3. CASE op.kind \notin {"query", "keys"}
    BY <1>4, <2>1, <2>3 DEF ControlInv, TypeInv, U
  <2> QED BY <2>1, <2>2, <2>3
<1>5. ASSUME NEW x \in {"prepare", "prepareOrReuse"}, PrepareRejected(x) PROVE ControlInv'
  <2>1. Step(x) /\ Stops /\ op' = op /\ todo # <<>> /\ op # None
    BY <1>5 DEF PrepareRejected, Rejected, Stops, Step
  <2>2. /\ undo' \in Seq(Names) /\ Ordered(undo') /\ \A call \in U' : UndoOf(op.kind, call)
        /\ op.kind \notin {"query", "keys"} => U' = U
        /\ T # {}
    BY <1>4, <1>5, <2>1 DEF PrepareRejected
  <2> QED BY <2>1, <2>2, <1>ControlStops DEF ControlInv
<1>6. ASSUME NEW x \in {"prepare", "prepareOrReuse"}, NEW n \in {"own", "package"}, Prepared(x, n)
      PROVE  ControlInv'
  <2>1. Step(x) /\ Continue /\ err' = err /\ op' = [op EXCEPT !.name = n]
    BY <1>6 DEF Prepared, Continue
  <2>2. /\ undo' \in Seq(Names) /\ Ordered(undo') /\ \A call \in U' : UndoOf(op.kind, call)
        /\ op.kind \in {"query", "keys"} => U' = {"discard"} /\ U = {"releaseId"}
        /\ op.kind \notin {"query", "keys"} => U' = U /\ undo' = undo
        /\ op # None
    BY <1>4, <1>6, <2>1 DEF Prepared
  <2>3. /\ todo' \in Seq(Names) /\ Ordered(todo')
        /\ T = {x} \cup T' /\ \A b \in T' : Follows(x, b)
    BY <2>1, Went
  <2>4. op' # None /\ op'.kind = op.kind
    BY OpStep
  <2>5. T' \cap {"prepare", "prepareOrReuse", "message"} = {} /\ T \ {x} = T'
    <3>1. "message" \notin T
      BY <2>2, <2>3 DEF ControlInv
    <3> QED BY <2>3, <3>1 DEF Follows
  <2>6. "open" \in T' /\ "cursor" \notin T' => undo' # <<>> /\ Head(undo') = "undoOpen"
    <3> SUFFICES ASSUME "open" \in T', "cursor" \notin T' PROVE undo' # <<>> /\ Head(undo') = "undoOpen"
      OBVIOUS
    <3>1. undo # <<>> /\ Head(undo) = "undoOpen"
      BY <2>2, <2>5 DEF ControlInv
    <3>2. "undoOpen" \in U
      BY <3>1, HeadIn DEF TypeInv, U
    <3> QED BY <2>2, <3>1, <3>2
  <2>7. op.kind \in {"query", "keys"} => x = "prepare"
    BY <1>6, <2>2, <2>3, KindOf
  <2>8. \A b : b # x => (b \in T' <=> b \in T)
    BY <2>3
  <2>9. T' # {} => T # {}
    BY <2>3
  <2>10. "nextRows" \in T' => op.kind = "batch"
    BY <2>2, <2>3, KindOf
  <2>11. /\ "descriptor" \in T' => U' \cap {"deleteDescriptor", "freeLob", "undoOpen"} = {}
         /\ "cursor" \in T' => U' \cap {"undoOpen", "closeCursor", "releaseName"} = {}
         /\ "execute" \in T' => "freeLob" \notin U'
         /\ "nextRows" \in T' => U' \subseteq {"closeStatement"}
    BY <2>2, <2>8, <2>10 DEF ControlInv
  <2>12. /\ op.kind \in {"query", "keys", "queryTransient"} /\ "open" \in T' => "discard" \in U'
         /\ op.kind = "prepare" /\ T' # {} => "discard" \in U'
         /\ op.kind \in {"query", "queryTransient"} /\ err = "none" /\ T' # {} => "open" \in T'
    <3>1. op.kind = "queryTransient" => "prepare" \notin T
      BY <2>2, KindOf
    <3> QED BY <2>2, <2>3, <2>8, <2>9, <3>1 DEF ControlInv
  <2>13. \A step \in T' : StepOf(op.kind, step)
    BY Zenon, <2>2, <2>3 DEF ControlInv
  <2>14. err = "none"
    BY <2>2, <2>3 DEF ControlInv
  <2> QED BY <2>1, <2>2, <2>3, <2>4, <2>5, <2>6, <2>11, <2>12, <2>13, <2>14 DEF ControlInv
<1>7. CASE NextDescriptorHandle
  <2>1. Step("descriptor") /\ Continue /\ err' = err /\ undo' = <<"deleteDescriptor">> \o undo
    BY <1>7 DEF NextDescriptorHandle, Continue
  <2>2. /\ todo' \in Seq(Names) /\ Ordered(todo') /\ op # None /\ "descriptor" \in T
        /\ T = {"descriptor"} \cup T' /\ \A b \in T' : Follows("descriptor", b)
    BY <2>1, Went, StepIn
  <2>3. op' # None /\ op'.kind = op.kind /\ op'.name = op.name
    BY <2>1, OpStep DEF Step
  <2>4. \A b \in U : Follows("deleteDescriptor", b) /\ b \notin {"undoOpen", "releaseId"}
    <3>1. \A b \in U : UndoOf(op.kind, b) /\ b \notin {"deleteDescriptor", "freeLob", "undoOpen"}
      BY <2>2, Belongs DEF ControlInv
    <3>2. op.kind \in {"execTransient", "queryTransient", "execStmt", "queryStmt", "batch"}
      BY <2>2, KindOf DEF Binding
    <3> QED BY <3>1, <3>2 DEF Follows, UndoOf
  <2>5. "deleteDescriptor" \in Names
    BY DEF Names
  <2>6. undo' \in Seq(Names) /\ Ordered(undo') /\ U' = {"deleteDescriptor"} \cup U
    BY <2>1, <2>4, <2>5, Deferring
  <2>7. "open" \in T' => "cursor" \in T'
    <3>1. "open" \in T /\ "cursor" \notin T => "undoOpen" \in U
      BY <2>2, HeadIn DEF ControlInv, TypeInv, U
    <3> QED BY <2>2, <2>4, <3>1
  <2>8. T' \cap {"descriptor", "prepare", "prepareOrReuse", "nextRows", "message"} = {}
    BY <2>2 DEF Follows
  <2>9. UndoOf(op.kind, "deleteDescriptor")
    BY <2>2, KindOf DEF UndoOf, Binding
  <2>10. \A b : b # "descriptor" => (b \in T' <=> b \in T)
    BY <2>2
  <2>11. T # {} /\ err = "none"
    BY <2>2 DEF ControlInv
  <2> QED BY Zenon, <2>1, <2>2, <2>3, <2>6, <2>7, <2>8, <2>9, <2>10, <2>11 DEF ControlInv
<1>8. CASE OpenCursorName
  <2>1. Step("cursor") /\ Continue /\ err' = err /\ undo' = <<"undoOpen">> \o undo
    BY <1>8 DEF OpenCursorName, Continue
  <2>2. /\ todo' \in Seq(Names) /\ Ordered(todo') /\ op # None /\ "cursor" \in T
        /\ T = {"cursor"} \cup T' /\ \A b \in T' : Follows("cursor", b)
    BY <2>1, Went, StepIn
  <2>3. op' # None /\ op'.kind = op.kind /\ op'.name = op.name
    BY <2>1, OpStep DEF Step
  <2>4. \A b \in U : Follows("undoOpen", b)
    BY <2>2 DEF ControlInv, Follows
  <2>5. "undoOpen" \in Names
    BY DEF Names
  <2>6. undo' \in Seq(Names) /\ Ordered(undo') /\ U' = {"undoOpen"} \cup U /\ undo' # <<>> /\ Head(undo') = "undoOpen"
    BY <2>1, <2>4, <2>5, Deferring
  <2>7. UndoOf(op.kind, "undoOpen")
    BY <2>2, KindOf DEF UndoOf
  <2>8. T' \cap {"descriptor", "cursor", "execute", "prepare", "prepareOrReuse", "nextRows", "message"} = {}
    BY <2>2 DEF Follows
  <2>9. \A b : b # "cursor" => (b \in T' <=> b \in T)
    BY <2>2
  <2>10. T # {} /\ err = "none"
    BY <2>2 DEF ControlInv
  <2>11. "prepare" \notin T' /\ ("open" \in T' => "prepare" \notin T)
    BY <2>8, <2>9
  <2> QED BY Zenon, <2>1, <2>2, <2>3, <2>6, <2>7, <2>8, <2>9, <2>10, <2>11 DEF ControlInv
<1>9. CASE Executed
  <2>1. Step("execute") /\ Continue /\ err' = err /\ undo' = undo
    BY <1>9 DEF Executed, Continue
  <2>2. /\ todo' \in Seq(Names) /\ Ordered(todo') /\ op # None /\ "execute" \in T
        /\ T = {"execute"} \cup T' /\ \A b \in T' : Follows("execute", b)
    BY <2>1, Went, StepIn
  <2>3. op' # None /\ op'.kind = op.kind
    BY OpStep
  <2>4. T' = {} /\ U' = U
    BY <2>1, <2>2 DEF Follows, U
  <2>5. err = "none"
    BY <2>2 DEF ControlInv
  <2> QED BY <2>1, <2>2, <2>3, <2>4, <2>5 DEF ControlInv
<1>10. ASSUME NEW n \in Nat, NEW k \in Nat, ExecuteStopped(n, k) PROVE ControlInv'
  <2>1. Step("execute") /\ Stops /\ undo' = undo /\ todo # <<>> /\ op # None
    BY <1>10 DEF ExecuteStopped, Step
  <2>2. op' # None /\ op'.kind = op.kind /\ U' = U /\ op.kind # "prepare"
    BY <2>1, OpStep, StepIn, KindOf DEF U
  <2> QED BY <2>1, <2>2, <1>ControlStops DEF ControlInv, TypeInv
<1>11. CASE ExecutedLob
  <2>1. Step("execute") /\ err' = err /\ undo' = <<"freeLob">> \o undo /\ todo' = <<"lobLength", "lobData">>
    BY <1>11 DEF ExecutedLob
  <2>2. op # None /\ "execute" \in T
    BY <2>1, StepIn
  <2>3. op' # None /\ op'.kind = op.kind
    BY OpStep
  <2>4. op.kind \in {"execTransient", "execStmt"}
    <3>1. classifySQLStatement("insertArgs") = "insert"
      BY DEF classifySQLStatement
    <3>2. op.kind # "batch"
      BY <1>11, <2>2, <3>1 DEF ExecutedLob, BatchInv
    <3> QED BY <2>2, <3>2, KindOf
  <2>5. \A b \in U : Follows("freeLob", b)
    <3>1. \A b \in U : UndoOf(op.kind, b) /\ b # "freeLob"
      BY <2>2, Belongs DEF ControlInv
    <3> QED BY <2>4, <3>1 DEF Follows, UndoOf
  <2>6. "freeLob" \in Names
    BY DEF Names
  <2>7. undo' \in Seq(Names) /\ Ordered(undo') /\ U' = {"freeLob"} \cup U
    BY <2>1, <2>5, <2>6, Deferring
  <2>8. todo' \in Seq(Names) /\ Ordered(todo') /\ T' = {"lobLength", "lobData"}
    BY <2>1, Literals DEF Lists, T
  <2>9. (\A step \in T' : StepOf(op.kind, step)) /\ UndoOf(op.kind, "freeLob") /\ \A call \in U : UndoOf(op.kind, call)
    BY <2>2, <2>4, <2>8, Belongs DEF StepOf, UndoOf
  <2>10. err = "none"
    BY <2>2 DEF ControlInv
  <2> QED BY <2>1, <2>2, <2>3, <2>4, <2>7, <2>8, <2>9, <2>10 DEF ControlInv
<1>12. ASSUME Step("open"), undo' = Tail(undo), UNCHANGED op
       PROVE  undo' \in Seq(Names) /\ Ordered(undo') /\ U = {"undoOpen"} \cup U' /\ op' # None /\ op'.kind = op.kind
  BY <1>12, OpenTop DEF U
<1>13. CASE OpenedRows
  <2>1. Step("open") /\ Continue /\ err' = err /\ undo' = Tail(undo) /\ UNCHANGED op /\ op.kind # "keys"
    BY <1>13 DEF OpenedRows, Continue
  <2>2. todo' \in Seq(Names) /\ Ordered(todo') /\ T = {"open"} \cup T' /\ \A b \in T' : Follows("open", b)
    BY <2>1, Went
  <2>3. op # None /\ T = {"open"} /\ err = "none"
    BY <2>1, OpenTop
  <2>4. T' = {}
    BY <2>2, <2>3 DEF Follows
  <2>5. undo' \in Seq(Names) /\ Ordered(undo') /\ U = {"undoOpen"} \cup U' /\ op' # None /\ op'.kind = op.kind
    BY <1>12, <2>1
  <2> QED BY Zenon, <2>1, <2>2, <2>3, <2>4, <2>5 DEF ControlInv
<1>14. CASE OpenedKeys
  <2>1. /\ Step("open") /\ Continue /\ err' = err /\ UNCHANGED op /\ op.kind = "keys"
        /\ undo' = <<"closeCursor", "closeStatement", "releaseName">>
    BY <1>14 DEF OpenedKeys, Continue
  <2>2. todo' \in Seq(Names) /\ Ordered(todo') /\ T = {"open"} \cup T' /\ \A b \in T' : Follows("open", b)
    BY <2>1, Went
  <2>3. op # None /\ err = "none"
    BY <2>1, OpenTop
  <2>4. T' \subseteq {"readKeys"}
    BY <2>2 DEF Follows
  <2>5. undo' \in Seq(Names) /\ Ordered(undo') /\ U' = {"closeCursor", "closeStatement", "releaseName"}
    BY <2>1, Literals DEF Lists, U
  <2>6. (\A step \in T' : StepOf(op.kind, step)) /\ \A call \in U' : UndoOf(op.kind, call)
    BY <2>1, <2>4, <2>5 DEF StepOf, UndoOf
  <2> QED BY <2>1, <2>2, <2>3, <2>4, <2>5, <2>6 DEF ControlInv
<1>15. CASE OpenedNothing
  <2>1. Step("open") /\ Stops /\ undo' = Tail(undo) /\ UNCHANGED op /\ todo # <<>>
    BY <1>15 DEF OpenedNothing, Fail, Stops, Step
  <2>2. undo' \in Seq(Names) /\ Ordered(undo') /\ U = {"undoOpen"} \cup U' /\ op' # None /\ op'.kind = op.kind
    BY <1>12, <2>1
  <2>3. op # None /\ op.kind # "prepare"
    BY <2>1, OpenTop
  <2> QED BY Zenon, <2>1, <2>2, <2>3, <1>ControlStops, Belongs
<1>16. CASE OpenInterrupted
  <2>1. Step("open") /\ Stops /\ undo' = undo /\ UNCHANGED op /\ todo # <<>>
    BY <1>16 DEF OpenInterrupted, Fail, Stops, Step
  <2>2. op # None /\ op.kind # "prepare" /\ U' = U
    BY <2>1, OpenTop DEF U
  <2> QED BY <2>1, <2>2, <1>ControlStops DEF ControlInv, TypeInv
<1>17. CASE NextRows
  <2>1. Step("nextRows") /\ err' = err /\ undo' = <<"rowsDone">> \o undo
    BY <1>17 DEF NextRows
  <2>2. op # None /\ "nextRows" \in T /\ op.kind = "batch" /\ err = "none" /\ U \subseteq {"closeStatement"}
    BY <2>1, StepIn, KindOf DEF ControlInv
  <2>3. op' # None /\ op'.kind = op.kind
    BY OpStep
  <2>5. todo' \in Seq(Names) /\ Ordered(todo') /\ T' \subseteq {"sync", "descriptor", "change", "writeLOB", "execute"}
    BY <1>17, NextList
  <2>6. \A b \in U : Follows("rowsDone", b)
    BY <2>2 DEF Follows
  <2>7. "rowsDone" \in Names
    BY DEF Names
  <2>8. undo' \in Seq(Names) /\ Ordered(undo') /\ U' = {"rowsDone"} \cup U
    BY <2>1, <2>6, <2>7, Deferring
  <2>9. (\A step \in T' : StepOf(op.kind, step)) /\ \A call \in U' : UndoOf(op.kind, call)
    BY <2>2, <2>5, <2>8 DEF StepOf, UndoOf, Binding
  <2> QED BY <2>1, <2>2, <2>3, <2>5, <2>8, <2>9 DEF ControlInv
<1>18. CASE \/ \E x \in Quiet : Passed(x)
            \/ \E x \in {"ensurePackage", "returnPackage"} : PackageKnown(x)
            \/ SyncSkipped \/ Synced \/ DescriptorChanged
  BY <1>2, <1>18 DEF Passed, PackageKnown, SyncSkipped, Synced, DescriptorChanged, data
<1> HIDE DEF ControlInv
<1> QED
  BY <1>1, <1>3, <1>5, <1>6, <1>7, <1>8, <1>9, <1>10, <1>11, <1>13, <1>14, <1>15, <1>16, <1>17, <1>18 DEF StepOutcome

(* RowsDone goes on to the next rows of the batch. *)
LEMMA RoundDone ==
  ASSUME TypeInv, ControlInv, BatchInv, RowsDone
  PROVE  /\ op # None /\ op.kind = "batch" /\ T = {} /\ UNCHANGED err
         /\ op' # None /\ op' \in Operations /\ op'.sent <= op'.rows /\ op'.total <= op'.applied
         /\ op'.kind = op.kind /\ op'.q = op.q /\ op'.h = op.h /\ op'.limit = op.limit /\ op'.name = op.name
         /\ op'.rows = op.rows /\ op'.size = op.size /\ op'.total = op.total /\ op'.applied = op.applied
         /\ op'.descriptor = op.descriptor
         /\ op'.sent = IF err = "none" THEN op.sent + op.size ELSE op.sent
         /\ todo' \in Seq(Names) /\ Ordered(todo') /\ SyncFirst(todo')
         /\ T' = IF err = "none" /\ op'.sent < op'.rows THEN {"nextRows"} ELSE {}
         /\ undo' \in Seq(Names) /\ Ordered(undo') /\ U = {"rowsDone"} \cup U' /\ U' \subseteq {"closeStatement"}
<1>1. /\ Undo("rowsDone") /\ undo' = Tail(undo) /\ UNCHANGED err
      /\ IF err # "none" THEN UNCHANGED <<op, todo>>
         ELSE /\ op' = [op EXCEPT !.sent = @ + op.size]
              /\ todo' = IF op'.sent < op.rows THEN <<"nextRows">> ELSE <<>>
  BY DEF RowsDone
<1>2. /\ undo' \in Seq(Names) /\ Ordered(undo')
      /\ U = {"rowsDone"} \cup U' /\ \A b \in U' : Follows("rowsDone", b)
      /\ T = {} /\ op # None /\ todo = <<>>
  BY <1>1, WentBack DEF Undo
<1>3. U' \subseteq {"closeStatement"}
  BY <1>2 DEF Follows
<1>4. op.kind = "batch"
  BY <1>2, Belongs DEF UndoOf
<1>5. op \in Operations /\ op.sent <= op.rows /\ op.total <= op.applied
  BY <1>2, OpType
<1>6. CASE err # "none"
  <2>1. op' = op /\ todo' = <<>>
    BY <1>1, <1>2, <1>6
  <2>2. todo' \in Seq(Names) /\ Ordered(todo') /\ T' = {} /\ SyncFirst(todo')
    BY Zenon, <2>1, Nothing, SyncNone DEF T
  <2> QED BY <1>1, <1>2, <1>3, <1>4, <1>5, <1>6, <2>1, <2>2
<1>7. CASE err = "none"
  <2>1. op.sent \in Nat /\ op.size \in Nat /\ op.rows \in Nat
    BY <1>5 DEF Operations
  <2> DEFINE n == op.sent + op.size
  <2>2. n \in Nat /\ n <= op.rows
    BY <1>2, <1>4, <2>1 DEF BatchInv
  <2>3. op' = [op EXCEPT !.sent = n]
    BY <1>1, <1>5, <1>7 DEF Operations
  <2>4. todo' = IF op'.sent < op.rows THEN <<"nextRows">> ELSE <<>>
    BY <1>1, <1>7
  <2>5. n = op.sent + op.size
    OBVIOUS
  <2> HIDE DEF n
  <2>6. op' \in Operations /\ op'.sent = n /\ op'.rows = op.rows
    BY <1>5, <2>2, <2>3 DEF Operations
  <2>7. op' # None
    BY <2>6, ExecAssumption
  <2>8. "nextRows" \in Names
    BY DEF Names
  <2>9. todo' \in Seq(Names) /\ Ordered(todo') /\ T' = IF op'.sent < op.rows THEN {"nextRows"} ELSE {}
    BY Zenon, <2>4, <2>8, Single, Nothing DEF T
  <2>10. SyncFirst(todo')
    BY <2>9, SyncNone DEF T, Runs
  <2>11. /\ op'.kind = op.kind /\ op'.q = op.q /\ op'.h = op.h /\ op'.limit = op.limit /\ op'.name = op.name
         /\ op'.size = op.size /\ op'.total = op.total /\ op'.applied = op.applied
         /\ op'.descriptor = op.descriptor
    BY <1>5, <2>3 DEF Operations
  <2> QED BY <1>1, <1>2, <1>3, <1>4, <1>5, <1>7, <2>2, <2>5, <2>6, <2>7, <2>9, <2>10, <2>11
<1> QED BY <1>6, <1>7

LEMMA ControlBack ==
  ASSUME TypeInv, ControlInv, BatchInv, UndoOutcome
  PROVE  ControlInv'
<1>ControlUndo. ASSUME NEW x, Undo(x), undo' = Tail(undo), UNCHANGED <<op, todo, err>>
                PROVE  ControlInv'
  <2> USE <1>ControlUndo
  <2>1. /\ undo' \in Seq(Names) /\ Ordered(undo') /\ op # None
        /\ U = {x} \cup U' /\ T = {}
    BY WentBack
  <2>2. T' = T
    BY DEF T
  <2> QED BY <2>1, <2>2 DEF ControlInv
<1>1. CASE RowsDone
  <2>1. (\A step \in T' : StepOf(op.kind, step)) /\ \A call \in U' : UndoOf(op.kind, call)
    BY <1>1, RoundDone, Belongs DEF StepOf
  <2> QED BY <1>1, <2>1, RoundDone DEF ControlInv
<1>2. ASSUME ~RowsDone PROVE \E x : Undo(x) /\ undo' = Tail(undo) /\ UNCHANGED <<op, todo, err>>
  BY <1>2 DEF UndoOutcome, UndoDone, Popping
<1> QED BY <1>1, <1>2, <1>ControlUndo

-----------------------------------------------------------------------------
(* How an operation begins.                                                *)
Begun(kind, q, h, name) ==
  /\ op = None /\ valid
  /\ op' # None /\ op' \in Operations
  /\ op'.kind = kind /\ op'.q = q /\ op'.h = h /\ op'.name = name
  /\ op'.rows \in Nat \ {0} /\ op'.sent = 0 /\ op'.size = 1 /\ op'.total = 0 /\ op'.applied = 0
  /\ Lists(todo', T') /\ SyncFirst(todo') /\ Lists(undo', U')
  /\ "change" \in T' => "descriptor" \in T'
  /\ ops' \in 0..MaxOps /\ ctx' \in {"live", "done"} /\ err' = "none"
  /\ UNCHANGED <<cfg, valid, why, pkg, srv>>

BegunPlain ==
  /\ UNCHANGED cli /\ U' = {}
  /\ \/ \E q \in Queries : Begun("exec", q, None, "own") /\ T' = {"ensurePackage", "immediate"}
     \/ Begun("ping", None, None, "own") /\ T' = {"ping"}

(* With a free id. *)
BegunQuery(q, h) ==
  /\ RoomForRows(h) /\ undo' = <<"releaseId">> /\ U' = {"releaseId"}
  /\ \/ /\ Begun("query", q, h, "own")
        /\ \E S \in SUBSET {"executeCall"} : T' = {"ensurePackage", "prepare"} \cup (S \cup {"cursor", "sync", "open"})
     \/ /\ Begun("keys", q, h, "own")
        /\ T' = {"ensurePackage", "prepare"} \cup {"cursor", "sync", "open"} \cup {"readKeys"}

BegunPrepare(q, h) ==
  \/ Begun("prepare", q, h, "own") /\ T' = {"ensurePackage", "prepareOrReuse"} /\ U' = {"discard"}
  \/ /\ Begun("execTransient", q, h, "own") /\ U' = {"closeStatement"}
     /\ \E S \in SUBSET Binding : T' = {"ensurePackage", "prepareOrReuse"} \cup ({"sync"} \cup S \cup {"execute"})
  \/ /\ Begun("queryTransient", q, h, "own") /\ U' = {"discard"} /\ RoomForRows(h)
     /\ \E S \in SUBSET Binding : T' = {"ensurePackage", "prepareOrReuse"} \cup (S \cup {"cursor", "sync", "open"})
  \/ /\ Begun("batch", q, h, "own") /\ U' = {"closeStatement"} /\ q = "insertArgs"
     /\ T' = {"ensurePackage", "prepareOrReuse", "nextRows"}

(* On a Stmt. *)
BegunStmt(s) ==
  /\ UNCHANGED cli /\ U' = {}
  /\ \/ Begun("execStmt", s.q, s.h, s.name) /\ \E S \in SUBSET Binding : T' = {"sync"} \cup S \cup {"execute"}
     \/ /\ Begun("queryStmt", s.q, s.h, s.name) /\ RoomForRows(s.h)
        /\ \E S \in SUBSET (Binding \cup {"executeCall"}) : T' = S \cup {"cursor", "sync", "open"}
     \/ Begun("batch", s.q, s.h, s.name) /\ s.q = "insertArgs" /\ T' = {"nextRows"}

ClosingStmt(s) ==
  /\ Begun("closeStmt", s.q, s.h, s.name) /\ T' = {} /\ U' = {"closeStatement"}
  /\ \A r \in cli.rows : r.h # s.h
  /\ cli' = [cli EXCEPT !.stmts = @ \ {s}]

ClosingRows(r) ==
  /\ Begun("closeRows", None, r.h, r.name) /\ op'.cursor = r.cursor /\ op'.default = r.default
  /\ T' = {} /\ U' = {"closeCursor"} \cup (IF r.own THEN {"closeStatement"} ELSE {}) \cup {"releaseName"}
  /\ cli' = [cli EXCEPT !.rows = @ \ {r}]

BeginOutcome ==
  \/ BegunPlain
  \/ \E q \in Queries, h \in Handles : Taken(h) /\ (BegunQuery(q, h) \/ BegunPrepare(q, h))
  \/ \E s \in cli.stmts : BegunStmt(s) \/ ClosingStmt(s)
  \/ \E r \in cli.rows : ClosingRows(r)

LEMMA BeginCases ==
  ASSUME TypeInv, ControlInv, Begin
  PROVE  BeginOutcome
<1>QueryList. ASSUME NEW q
              PROVE  \E S \in SUBSET {"descriptor", "change", "writeLOB"} :
                       /\ Lists(queryPrepared(q), S \cup {"cursor", "sync", "open"})
                       /\ SyncFirst(queryPrepared(q))
                       /\ ~HasMarkers(q) => S = {}
                       /\ "change" \in S => "descriptor" \in S
  <2> USE <1>QueryList
  <2> DEFINE S == IF HasMarkers(q) THEN {"descriptor", "change", "writeLOB"} ELSE {}
             b == BindSteps(q)
             e == queryRowsForStatement
  <2>1. Lists(b, S) /\ Lists(e, {"cursor", "sync", "open"}) /\ SyncFirst(e)
    BY Literals DEF BindSteps
  <2>2. queryPrepared(q) = b \o e
    BY DEF queryPrepared
  <2>3. /\ S \subseteq {"descriptor", "change", "writeLOB"} /\ (~HasMarkers(q) => S = {})
        /\ "change" \in S => "descriptor" \in S
    OBVIOUS
  <2> HIDE DEF S, b, e
  <2>4. Lists(b \o e, S \cup {"cursor", "sync", "open"})
    BY Zenon, <2>1, <2>3, JoinLists DEF Follows
  <2>5. SyncFirst(b)
    BY <2>1, <2>3, SyncNone DEF Lists, Runs
  <2>6. SyncFirst(b \o e)
    BY <2>1, <2>5, SyncJoined DEF Lists
  <2> QED BY Zenon, <2>2, <2>3, <2>4, <2>6
<1>CallList. Lists(queryCallRows, {"sync", "executeCall", "cursor", "open"}) /\ SyncFirst(queryCallRows)
  <2> DEFINE b == <<"sync", "executeCall">>
             e == queryRowsForStatement
  <2>1. /\ Lists(b, {"sync", "executeCall"}) /\ SyncFirst(b)
        /\ Lists(e, {"cursor", "sync", "open"}) /\ SyncFirst(e)
    BY Literals
  <2>2. queryCallRows = b \o e
    BY DEF queryCallRows
  <2> HIDE DEF b, e
  <2>3. Lists(b \o e, {"sync", "executeCall"} \cup {"cursor", "sync", "open"})
    BY <2>1, JoinLists DEF Follows
  <2>4. SyncFirst(b \o e)
    BY <2>1, SyncJoined DEF Lists
  <2>5. {"sync", "executeCall"} \cup {"cursor", "sync", "open"} = {"sync", "executeCall", "cursor", "open"}
    OBVIOUS
  <2> QED BY Zenon, <2>2, <2>3, <2>4, <2>5
<1>QueryStepsList. ASSUME NEW q
                   PROVE  \E S \in SUBSET {"descriptor", "change", "writeLOB", "executeCall"} :
                            /\ Lists(QuerySteps(q), S \cup {"cursor", "sync", "open"})
                            /\ SyncFirst(QuerySteps(q))
                            /\ ~HasMarkers(q) => S \subseteq {"executeCall"}
                            /\ "change" \in S => "descriptor" \in S
  <2> USE <1>QueryStepsList
  <2>1. CASE q = "call"
    <3>1. {"sync", "executeCall", "cursor", "open"} = {"executeCall"} \cup {"cursor", "sync", "open"}
      OBVIOUS
    <3> QED BY Zenon, <2>1, <3>1, <1>CallList DEF QuerySteps
  <2>2. CASE q # "call"
    <3>1. PICK S \in SUBSET {"descriptor", "change", "writeLOB"} :
            /\ Lists(queryPrepared(q), S \cup {"cursor", "sync", "open"})
            /\ SyncFirst(queryPrepared(q))
            /\ ~HasMarkers(q) => S = {}
            /\ "change" \in S => "descriptor" \in S
      BY <1>QueryList
    <3>2. S \in SUBSET {"descriptor", "change", "writeLOB", "executeCall"} /\ QuerySteps(q) = queryPrepared(q)
      BY <2>2 DEF QuerySteps
    <3> QED BY <3>1, <3>2
  <2> QED BY <2>1, <2>2
<1>Started. ASSUME NEW kind \in Kinds, NEW q \in Queries \cup {None}, NEW h \in Handles \cup {None},
                   NEW name \in {"own", "package"}, NEW steps, NEW cleanup, NEW S, NEW D, Lists(steps, S), SyncFirst(steps),
                   "change" \in S => "descriptor" \in S, Lists(cleanup, D), Start(kind, q, h, name, steps, cleanup)
            PROVE  Begun(kind, q, h, name) /\ T' = S /\ U' = D /\ undo' = cleanup
  <2> USE <1>Started
  <2>1. PICK limit \in (IF cfg.qqrytimlmt THEN 0..1 ELSE {0}),
             rows \in (IF kind = "batch" THEN 1..MaxBatch ELSE {1}) :
          op' = [kind |-> kind, q |-> q, h |-> h, name |-> name, limit |-> limit,
                 descriptor |-> 0, cursor |-> None, default |-> FALSE,
                 rows |-> rows, sent |-> 0, size |-> 1, total |-> 0, applied |-> 0]
    BY Zenon DEF Start
  <2>2. limit \in 0..1 /\ rows \in Nat \ {0} /\ 0 \in 0..MaxDescriptor
    BY ExecAssumption
  <2>3. op' \in Operations
    BY <2>1, <2>2 DEF Operations
  <2>4. op' # None
    BY <2>3, ExecAssumption
  <2>5. ops' \in 0..MaxOps
    <3>1. ops \in 0..MaxOps
      BY Zenon DEF TypeInv, TypeOK
    <3>2. ops < MaxOps /\ ops' = ops + 1
      BY Zenon DEF Start
    <3> QED BY <3>1, <3>2, ExecAssumption
  <2>6. todo' = steps /\ undo' = cleanup /\ T' = S /\ U' = D
    BY DEF Start, Lists, T, U
  <2>7. /\ op'.kind = kind /\ op'.q = q /\ op'.h = h /\ op'.name = name
        /\ op'.rows \in Nat \ {0} /\ op'.sent = 0 /\ op'.size = 1 /\ op'.total = 0 /\ op'.applied = 0
    BY <2>1, <2>2
  <2> QED BY <2>3, <2>4, <2>5, <2>6, <2>7 DEF Start, Begun
<1> USE DEF Kinds
<1>0. /\ Lists(<<>>, {}) /\ SyncFirst(<<>>)
      /\ \A a \in {"discard", "closeStatement", "releaseId", "ping", "nextRows", "readKeys"} : Lists(<<a>>, {a})
  <2>1. {"discard", "closeStatement", "releaseId", "ping", "nextRows", "readKeys"} \subseteq Names
    BY DEF Names
  <2>2. Lists(<<>>, {}) /\ SyncFirst(<<>>)
    BY Zenon, Nothing, SyncNone DEF Lists
  <2> QED BY <2>1, <2>2, Literals
<1>1. \A s, S : Lists(s, S) /\ S \cap Runs = {} => SyncFirst(s)
  BY SyncNone DEF Lists
<1>2. ASSUME NEW q \in Queries, ExecContext(q) PROVE BegunPlain
  <2>1. Lists(<<"ensurePackage", "immediate">>, {"ensurePackage", "immediate"})
    BY Literals
  <2>2. SyncFirst(<<"ensurePackage", "immediate">>)
    BY <1>1, <2>1 DEF Runs
  <2>3. Begun("exec", q, None, "own") /\ T' = {"ensurePackage", "immediate"} /\ U' = {}
    BY Zenon, <1>0, <1>2, <2>1, <2>2, <1>Started DEF ExecContext
  <2> QED BY <1>2, <2>3 DEF ExecContext, BegunPlain
<1>3. ASSUME ConnPing PROVE BegunPlain
  <2>1. SyncFirst(<<"ping">>) /\ Lists(<<"ping">>, {"ping"})
    BY <1>0, <1>1 DEF Runs
  <2>2. Begun("ping", None, None, "own") /\ T' = {"ping"} /\ U' = {}
    BY <1>0, <1>3, <2>1, <1>Started DEF ConnPing
  <2> QED BY <1>3, <2>2 DEF ConnPing, BegunPlain
<1> DEFINE p == <<"ensurePackage", "prepare">>
           r == <<"ensurePackage", "prepareOrReuse">>
<1>4. /\ Lists(p, {"ensurePackage", "prepare"}) /\ SyncFirst(p)
      /\ Lists(r, {"ensurePackage", "prepareOrReuse"}) /\ SyncFirst(r)
  BY <1>1, Literals DEF Runs
<1>5. ASSUME NEW q \in Queries, NEW h \in Handles, PrepareStmt(q, h) PROVE Taken(h) /\ BegunPrepare(q, h)
  BY <1>0, <1>4, <1>5, <1>Started DEF PrepareStmt, BegunPrepare
<1> HIDE DEF p, r
<1>6. ASSUME NEW q, NEW s, NEW S, Lists(s, S), SyncFirst(s),
             S \cap {"ensurePackage", "returnPackage", "prepare", "prepareOrReuse"} = {}
      PROVE  /\ Lists(p \o s, {"ensurePackage", "prepare"} \cup S) /\ SyncFirst(p \o s)
             /\ Lists(r \o s, {"ensurePackage", "prepareOrReuse"} \cup S) /\ SyncFirst(r \o s)
  <2>1. \A b \in S : Follows("ensurePackage", b) /\ Follows("prepare", b) /\ Follows("prepareOrReuse", b)
    BY <1>6 DEF Follows
  <2>2. Lists(p \o s, {"ensurePackage", "prepare"} \cup S)
    BY <1>4, <1>6, <2>1, JoinLists
  <2>3. Lists(r \o s, {"ensurePackage", "prepareOrReuse"} \cup S)
    BY <1>4, <1>6, <2>1, JoinLists
  <2>4. SyncFirst(p \o s) /\ SyncFirst(r \o s)
    BY <1>4, <1>6, SyncJoined DEF Lists
  <2> QED BY <2>2, <2>3, <2>4
<1>7. ASSUME NEW q \in Queries, NEW h \in Handles, ExecTransient(q, h) PROVE Taken(h) /\ BegunPrepare(q, h)
  <2>1. PICK S \in SUBSET Binding :
          Lists(execPrepared(q), {"sync"} \cup S \cup {"execute"}) /\ SyncFirst(execPrepared(q))
          /\ ("change" \in S => "descriptor" \in S)
    BY Zenon, ExecList DEF Binding
  <2>2. ({"sync"} \cup S \cup {"execute"}) \cap {"ensurePackage", "returnPackage", "prepare", "prepareOrReuse"} = {}
    BY DEF Binding
  <2>3. /\ Lists(r \o execPrepared(q), {"ensurePackage", "prepareOrReuse"} \cup ({"sync"} \cup S \cup {"execute"}))
        /\ SyncFirst(r \o execPrepared(q))
    BY Zenon, <1>6, <2>1, <2>2
  <2>4. Taken(h) /\ Start("execTransient", q, h, "own", r \o execPrepared(q), <<"closeStatement">>)
    BY <1>7 DEF ExecTransient, r
  <2>5. /\ Begun("execTransient", q, h, "own") /\ U' = {"closeStatement"}
        /\ T' = {"ensurePackage", "prepareOrReuse"} \cup ({"sync"} \cup S \cup {"execute"})
    BY <1>0, <2>1, <2>3, <2>4, <1>Started
  <2> QED BY <2>4, <2>5 DEF BegunPrepare
<1>8. ASSUME NEW q \in Queries, NEW h \in Handles, QueryTransient(q, h), RoomForRows(h)
      PROVE  Taken(h) /\ BegunPrepare(q, h)
  <2>1. PICK S \in SUBSET Binding :
          Lists(queryPrepared(q), S \cup {"cursor", "sync", "open"}) /\ SyncFirst(queryPrepared(q))
          /\ ("change" \in S => "descriptor" \in S)
    BY Zenon, <1>QueryList DEF Binding
  <2>2. (S \cup {"cursor", "sync", "open"}) \cap {"ensurePackage", "returnPackage", "prepare", "prepareOrReuse"} = {}
    BY DEF Binding
  <2>3. /\ Lists(r \o queryPrepared(q), {"ensurePackage", "prepareOrReuse"} \cup (S \cup {"cursor", "sync", "open"}))
        /\ SyncFirst(r \o queryPrepared(q))
    BY Zenon, <1>6, <2>1, <2>2
  <2>4. Taken(h) /\ Start("queryTransient", q, h, "own", r \o queryPrepared(q), <<"discard">>)
    BY <1>8 DEF QueryTransient, r
  <2>5. /\ Begun("queryTransient", q, h, "own") /\ U' = {"discard"}
        /\ T' = {"ensurePackage", "prepareOrReuse"} \cup (S \cup {"cursor", "sync", "open"})
    BY <1>0, <2>1, <2>3, <2>4, <1>Started
  <2> QED BY <1>8, <2>4, <2>5 DEF BegunPrepare
<1>9. ASSUME NEW q \in Queries, NEW h \in Handles, ConnExecBatch(q, h) PROVE Taken(h) /\ BegunPrepare(q, h)
  <2>1. Lists(<<"ensurePackage", "prepareOrReuse", "nextRows">>, {"ensurePackage", "prepareOrReuse", "nextRows"})
    BY Literals
  <2>2. SyncFirst(<<"ensurePackage", "prepareOrReuse", "nextRows">>)
    BY <1>1, <2>1 DEF Runs
  <2>3. /\ Begun("batch", q, h, "own") /\ U' = {"closeStatement"}
        /\ T' = {"ensurePackage", "prepareOrReuse", "nextRows"}
    BY <1>0, <1>9, <2>1, <2>2, <1>Started DEF ConnExecBatch
  <2> QED BY <1>9, <2>3 DEF ConnExecBatch, BegunPrepare
<1>10. ASSUME NEW q \in Queries, NEW h \in Handles, QueryContext(q, h), RoomForRows(h)
       PROVE  Taken(h) /\ BegunQuery(q, h)
  <2>0. ~HasMarkers(q)
    BY <1>10 DEF QueryContext
  <2>1. PICK S \in SUBSET {"executeCall"} :
          Lists(QuerySteps(q), S \cup {"cursor", "sync", "open"}) /\ SyncFirst(QuerySteps(q))
    BY <2>0, <1>QueryStepsList
  <2>2. (S \cup {"cursor", "sync", "open"}) \cap {"ensurePackage", "returnPackage", "prepare", "prepareOrReuse"} = {}
    OBVIOUS
  <2>3. /\ Lists(p \o QuerySteps(q), {"ensurePackage", "prepare"} \cup (S \cup {"cursor", "sync", "open"}))
        /\ SyncFirst(p \o QuerySteps(q))
    BY Zenon, <1>6, <2>1, <2>2
  <2>4. Taken(h) /\ Start("query", q, h, "own", p \o QuerySteps(q), <<"releaseId">>)
    BY <1>10 DEF QueryContext, p
  <2>5. /\ Begun("query", q, h, "own") /\ U' = {"releaseId"} /\ undo' = <<"releaseId">>
        /\ T' = {"ensurePackage", "prepare"} \cup (S \cup {"cursor", "sync", "open"})
    BY <1>0, <2>1, <2>3, <2>4, <1>Started
  <2> QED BY <1>10, <2>4, <2>5 DEF BegunQuery
<1>11. ASSUME NEW q \in Queries, NEW h \in Handles, ExecInsertWithGeneratedKey(q, h), RoomForRows(h)
       PROVE  Taken(h) /\ BegunQuery(q, h)
  <2> DEFINE k == <<"readKeys">>
             s == p \o queryRowsForStatement
  <2>1. Lists(queryRowsForStatement, {"cursor", "sync", "open"}) /\ SyncFirst(queryRowsForStatement)
    BY Literals
  <2>2. Lists(s, {"ensurePackage", "prepare"} \cup {"cursor", "sync", "open"}) /\ SyncFirst(s)
    BY Zenon, <1>6, <2>1
  <2>3. Lists(k, {"readKeys"}) /\ SyncFirst(k)
    BY <1>0, <1>1 DEF Runs
  <2>4. Taken(h) /\ Start("keys", q, h, "own", s \o k, <<"releaseId">>)
    BY <1>11 DEF ExecInsertWithGeneratedKey, p
  <2> HIDE DEF s, k
  <2>5. Lists(s \o k, {"ensurePackage", "prepare"} \cup {"cursor", "sync", "open"} \cup {"readKeys"})
    BY <2>2, <2>3, JoinLists DEF Follows
  <2>6. SyncFirst(s \o k)
    BY <2>2, <2>3, SyncJoined DEF Lists
  <2>7. /\ Begun("keys", q, h, "own") /\ U' = {"releaseId"} /\ undo' = <<"releaseId">>
        /\ T' = {"ensurePackage", "prepare"} \cup {"cursor", "sync", "open"} \cup {"readKeys"}
    BY <1>0, <2>4, <2>5, <2>6, <1>Started
  <2> QED BY <1>11, <2>4, <2>7 DEF BegunQuery
<1>12. ASSUME NEW s \in cli.stmts PROVE s.q \in Queries /\ s.h \in Handles /\ s.name \in {"own", "package"}
  BY DEF TypeInv, StmtsOf
<1>13. ASSUME NEW s \in cli.stmts, StmtExec(s) PROVE BegunStmt(s)
  <2>1. PICK S \in SUBSET Binding :
          Lists(execPrepared(s.q), {"sync"} \cup S \cup {"execute"}) /\ SyncFirst(execPrepared(s.q))
          /\ ("change" \in S => "descriptor" \in S)
    BY Zenon, ExecList DEF Binding
  <2>2. Begun("execStmt", s.q, s.h, s.name) /\ U' = {} /\ T' = {"sync"} \cup S \cup {"execute"}
    <3>1. Start("execStmt", s.q, s.h, s.name, execPrepared(s.q), <<>>)
      BY Zenon, <1>13 DEF StmtExec
    <3>2. "change" \in {"sync"} \cup S \cup {"execute"} => "descriptor" \in {"sync"} \cup S \cup {"execute"}
      BY <2>1
    <3> QED BY <1>0, <1>12, <2>1, <3>1, <3>2, <1>Started
  <2> QED BY Zenon, <1>13, <2>2 DEF StmtExec, BegunStmt
<1>14. ASSUME NEW s \in cli.stmts, StmtQuery(s), RoomForRows(s.h) PROVE BegunStmt(s)
  <2>1. PICK S \in SUBSET (Binding \cup {"executeCall"}) :
          Lists(QuerySteps(s.q), S \cup {"cursor", "sync", "open"}) /\ SyncFirst(QuerySteps(s.q))
          /\ ("change" \in S => "descriptor" \in S)
    BY Zenon, <1>QueryStepsList DEF Binding
  <2>2. Begun("queryStmt", s.q, s.h, s.name) /\ U' = {} /\ T' = S \cup {"cursor", "sync", "open"}
    <3>1. Start("queryStmt", s.q, s.h, s.name, QuerySteps(s.q), <<>>)
      BY Zenon, <1>14 DEF StmtQuery
    <3>2. "change" \in S \cup {"cursor", "sync", "open"} => "descriptor" \in S \cup {"cursor", "sync", "open"}
      BY <2>1
    <3> QED BY <1>0, <1>12, <2>1, <3>1, <3>2, <1>Started
  <2> QED BY <1>14, <2>2 DEF StmtQuery, BegunStmt
<1>15. ASSUME NEW s \in cli.stmts, StmtExecBatch(s) PROVE BegunStmt(s)
  <2>1. Lists(<<"nextRows">>, {"nextRows"}) /\ SyncFirst(<<"nextRows">>)
    BY <1>0, <1>1 DEF Runs
  <2>2. Begun("batch", s.q, s.h, s.name) /\ U' = {} /\ T' = {"nextRows"}
    BY <1>0, <1>12, <1>15, <2>1, <1>Started DEF StmtExecBatch
  <2> QED BY <1>15, <2>2 DEF StmtExecBatch, BegunStmt
<1>16. ASSUME NEW s \in cli.stmts, StmtClose(s) PROVE ClosingStmt(s)
  <2>1. Begun("closeStmt", s.q, s.h, s.name) /\ U' = {"closeStatement"} /\ T' = {}
    BY <1>0, <1>12, <1>16, <1>Started DEF StmtClose
  <2> QED BY <1>16, <2>1 DEF StmtClose, ClosingStmt
<1>17. ASSUME NEW row \in cli.rows, RowsClose(row) PROVE ClosingRows(row)
  <2>1. row \in RowsOf /\ row.h \in Handles /\ row.cursor \in Cursors /\ row.default \in BOOLEAN /\ row.own \in BOOLEAN
        /\ row.name \in {"own", "package"}
    BY DEF TypeInv, RowsOf
  <2>2. op' = [kind |-> "closeRows", q |-> None, h |-> row.h, name |-> row.name, limit |-> 0,
               descriptor |-> 0, cursor |-> row.cursor, default |-> row.default,
               rows |-> 1, sent |-> 0, size |-> 1, total |-> 0, applied |-> 0]
    BY <1>17 DEF RowsClose
  <2>3. 0 \in 0..MaxDescriptor
    BY ExecAssumption
  <2>4. op' \in Operations
    BY <2>1, <2>2, <2>3 DEF Operations
  <2>5. op' # None
    BY <2>4, ExecAssumption
  <2>6. todo' = <<>> /\ T' = {}
    BY <1>17, Nothing DEF RowsClose, ControlInv, T
  <2> DEFINE m == IF row.own THEN <<"closeStatement">> ELSE <<>>
             M == IF row.own THEN {"closeStatement"} ELSE {}
             c == <<"closeCursor">>
             n == <<"releaseName">>
  <2>7. Lists(m, M) /\ Lists(c, {"closeCursor"}) /\ Lists(n, {"releaseName"}) /\ M \subseteq {"closeStatement"}
    <3>1. "closeCursor" \in Names /\ "releaseName" \in Names
      BY DEF Names
    <3> QED BY <1>0, <2>1, <3>1, Literals
  <2>8. undo' = (c \o m) \o n
    BY <1>17 DEF RowsClose
  <2> HIDE DEF m, M, c, n
  <2>9. Lists(c \o m, {"closeCursor"} \cup M)
    BY Zenon, <2>7, JoinLists DEF Follows
  <2>10. Lists((c \o m) \o n, {"closeCursor"} \cup M \cup {"releaseName"})
    BY Zenon, <2>7, <2>9, JoinLists DEF Follows
  <2>11. Lists(undo', {"closeCursor"} \cup M \cup {"releaseName"}) /\ U' = {"closeCursor"} \cup M \cup {"releaseName"}
    BY <2>8, <2>10 DEF Lists, U
  <2>12. ops' \in 0..MaxOps
    BY <1>17, ExecAssumption DEF RowsClose, TypeInv, TypeOK
  <2>13. Begun("closeRows", None, row.h, row.name) /\ op'.cursor = row.cursor /\ op'.default = row.default
    BY <1>0, <1>17, <2>2, <2>4, <2>5, <2>6, <2>11, <2>12 DEF RowsClose, Begun
  <2> QED BY <1>17, <2>6, <2>11, <2>13 DEF RowsClose, ClosingRows, M
<1> QED
  BY Zenon, <1>2, <1>3, <1>5, <1>7, <1>8, <1>9, <1>10, <1>11, <1>13, <1>14, <1>15, <1>16, <1>17 DEF Begin, BeginOutcome

LEMMA ControlBegins ==
  ASSUME BeginOutcome
  PROVE  ControlInv'
<1>1. ASSUME NEW kind, NEW q, NEW h, NEW name, Begun(kind, q, h, name),
             \A step \in T' : StepOf(kind, step),
             \A call \in U' : UndoOf(kind, call),
             "message" \notin T', U' \cap {"deleteDescriptor", "freeLob", "undoOpen"} = {},
             "open" \in T' => "cursor" \in T',
             "cursor" \in T' => U' \cap {"closeCursor", "releaseName"} = {},
             "prepare" \in T' => undo' = <<"releaseId">>,
             T' \cap {"prepare", "prepareOrReuse"} # {} => name = "own",
             kind \in {"query", "keys", "queryTransient"} => "prepare" \in T' \/ "discard" \in U',
             kind = "prepare" => "discard" \in U',
             kind \in {"query", "queryTransient"} => "open" \in T',
             "nextRows" \in T' => U' \subseteq {"closeStatement"}
      PROVE  ControlInv'
  BY <1>1 DEF Begun, ControlInv, Lists
<1>2. CASE BegunPlain
  <2>1. CASE \E q \in Queries : Begun("exec", q, None, "own") /\ T' = {"ensurePackage", "immediate"}
    <3>1. PICK q \in Queries : Begun("exec", q, None, "own")
      BY <2>1
    <3> QED BY <1>1, <1>2, <2>1, <3>1 DEF BegunPlain, StepOf
  <2>2. CASE Begun("ping", None, None, "own") /\ T' = {"ping"}
    BY <1>1, <1>2, <2>2 DEF BegunPlain, StepOf
  <2> QED BY <1>2, <2>1, <2>2 DEF BegunPlain
<1>3. ASSUME NEW q, NEW h, BegunQuery(q, h) PROVE ControlInv'
  <2>1. U' = {"releaseId"} /\ undo' = <<"releaseId">>
    BY <1>3 DEF BegunQuery
  <2>2. CASE /\ Begun("query", q, h, "own")
             /\ \E S \in SUBSET {"executeCall"} : T' = {"ensurePackage", "prepare"} \cup (S \cup {"cursor", "sync", "open"})
    <3>1. (\A step \in T' : StepOf("query", step)) /\ \A call \in U' : UndoOf("query", call)
      BY <2>1, <2>2 DEF StepOf, UndoOf
    <3> QED BY <1>1, <2>1, <2>2, <3>1
  <2>3. CASE /\ Begun("keys", q, h, "own")
             /\ T' = {"ensurePackage", "prepare"} \cup {"cursor", "sync", "open"} \cup {"readKeys"}
    <3>1. (\A step \in T' : StepOf("keys", step)) /\ \A call \in U' : UndoOf("keys", call)
      BY <2>1, <2>3 DEF StepOf, UndoOf
    <3> QED BY <1>1, <2>1, <2>3, <3>1
  <2> QED BY <1>3, <2>2, <2>3 DEF BegunQuery
<1>4. ASSUME NEW q, NEW h, BegunPrepare(q, h) PROVE ControlInv'
  <2>1. CASE Begun("prepare", q, h, "own") /\ T' = {"ensurePackage", "prepareOrReuse"} /\ U' = {"discard"}
    <3>1. (\A step \in T' : StepOf("prepare", step)) /\ \A call \in U' : UndoOf("prepare", call)
      BY <2>1 DEF StepOf, UndoOf, Preparing
    <3> QED BY <1>1, <2>1, <3>1
  <2>2. CASE /\ Begun("execTransient", q, h, "own") /\ U' = {"closeStatement"}
             /\ \E S \in SUBSET Binding : T' = {"ensurePackage", "prepareOrReuse"} \cup ({"sync"} \cup S \cup {"execute"})
    <3>1. (\A step \in T' : StepOf("execTransient", step)) /\ \A call \in U' : UndoOf("execTransient", call)
      BY <2>2 DEF StepOf, UndoOf, Preparing, Binding
    <3> QED BY <1>1, <2>2, <3>1 DEF Binding
  <2>3. CASE /\ Begun("queryTransient", q, h, "own") /\ U' = {"discard"}
             /\ \E S \in SUBSET Binding : T' = {"ensurePackage", "prepareOrReuse"} \cup (S \cup {"cursor", "sync", "open"})
    <3>1. (\A step \in T' : StepOf("queryTransient", step)) /\ \A call \in U' : UndoOf("queryTransient", call)
      BY <2>3 DEF StepOf, UndoOf, Preparing, Binding
    <3> QED BY <1>1, <2>3, <3>1 DEF Binding
  <2>4. CASE /\ Begun("batch", q, h, "own") /\ U' = {"closeStatement"}
             /\ T' = {"ensurePackage", "prepareOrReuse", "nextRows"}
    <3>1. (\A step \in T' : StepOf("batch", step)) /\ \A call \in U' : UndoOf("batch", call)
      BY <2>4 DEF StepOf, UndoOf, Preparing
    <3> QED BY <1>1, <2>4, <3>1
  <2> QED BY <1>4, <2>1, <2>2, <2>3, <2>4 DEF BegunPrepare
<1>5. ASSUME NEW s, BegunStmt(s) PROVE ControlInv'
  <2>1. U' = {}
    BY <1>5 DEF BegunStmt
  <2>2. CASE Begun("execStmt", s.q, s.h, s.name) /\ \E S \in SUBSET Binding : T' = {"sync"} \cup S \cup {"execute"}
    <3>1. \A step \in T' : StepOf("execStmt", step)
      BY <2>2 DEF StepOf, Binding
    <3> QED BY <1>1, <2>1, <2>2, <3>1 DEF Binding
  <2>3. CASE /\ Begun("queryStmt", s.q, s.h, s.name)
             /\ \E S \in SUBSET (Binding \cup {"executeCall"}) : T' = S \cup {"cursor", "sync", "open"}
    <3>1. \A step \in T' : StepOf("queryStmt", step)
      BY <2>3 DEF StepOf, Binding
    <3> QED BY <1>1, <2>1, <2>3, <3>1 DEF Binding
  <2>4. CASE Begun("batch", s.q, s.h, s.name) /\ T' = {"nextRows"}
    <3>1. \A step \in T' : StepOf("batch", step)
      BY <2>4 DEF StepOf
    <3> QED BY <1>1, <2>1, <2>4, <3>1
  <2> QED BY <1>5, <2>2, <2>3, <2>4 DEF BegunStmt
<1>6. ASSUME NEW s, ClosingStmt(s) PROVE ControlInv'
  BY <1>1, <1>6 DEF ClosingStmt, UndoOf
<1>7. ASSUME NEW r, ClosingRows(r) PROVE ControlInv'
  <2>1. U' \subseteq {"closeCursor", "closeStatement", "releaseName"} /\ T' = {} /\ Begun("closeRows", None, r.h, r.name)
    BY <1>7 DEF ClosingRows
  <2>2. \A call \in U' : UndoOf("closeRows", call)
    BY <2>1 DEF UndoOf
  <2> QED BY <1>1, <2>1, <2>2
<1> HIDE DEF ControlInv
<1> QED BY <1>2, <1>3, <1>4, <1>5, <1>6, <1>7 DEF BeginOutcome

LEMMA ControlStep ==
  ASSUME TypeInv, ControlInv, BatchInv, NameInv, PackageInv, [Next]_vars
  PROVE  ControlInv'
<1>1. CASE Begin
  BY <1>1, BeginCases, ControlBegins
<1>2. CASE Steps
  BY <1>2, StepCases, ControlGoes
<1>3. CASE Cleanup
  BY <1>3, UndoCases, ControlBack
<1>4. CASE Return
  <2>1. op' = None /\ todo' = <<>> /\ undo' = <<>>
    BY <1>4 DEF Return
  <2> QED BY <2>1, Nothing DEF ControlInv
<1>5. CASE Replace
  <2>1. op' = None /\ todo' = <<>> /\ undo' = <<>>
    BY <1>5 DEF Replace
  <2> QED BY <2>1, Nothing DEF ControlInv
<1>6. CASE CtxEnds \/ UNCHANGED vars
  <2>1. UNCHANGED <<op, todo, undo, err>>
    BY <1>6 DEF CtxEnds, vars, data
  <2> QED BY <2>1 DEF ControlInv, T, U
<1> HIDE DEF ControlInv
<1> QED BY <1>1, <1>2, <1>3, <1>4, <1>5, <1>6 DEF Next

(* What a step makes of the steps to come. *)
LEMMA NextSteps ==
  ASSUME TypeInv, ControlInv, StepOutcome
  PROVE  /\ op # None /\ valid /\ Head(todo) \in T
         /\ \/ /\ T = {Head(todo)} \cup T' /\ (\A b \in T' : Follows(Head(todo), b)) /\ Continue
               /\ Head(todo) = "descriptor" => NextDescriptorHandle
            \/ PackageAsked /\ T' = {"returnPackage"} \cup (T \ {"ensurePackage"})
            \/ T' \subseteq {"message"} /\ err' # "none"
            \/ ExecutedLob /\ T' = {"lobLength", "lobData"}
            \/ NextRows
<1>0. op # None /\ valid /\ todo # <<>>
  BY Going
<1>1. Head(todo) \in T /\ Step(Head(todo))
  BY <1>0, HeadIn DEF TypeInv, T, Step
<1>2. \/ Continue /\ (Head(todo) = "descriptor" => NextDescriptorHandle)
      \/ PackageAsked \/ Stops \/ ExecutedLob \/ NextRows
  BY Zenon DEF StepOutcome, Stopped, Passed, PackageKnown, Prepared, PrepareRejected, SyncSkipped, Synced,
     DescriptorChanged, NextDescriptorHandle, OpenCursorName, Executed, ExecuteStopped, OpenedRows,
     OpenedKeys, OpenedNothing, OpenInterrupted, Step, Rejected, Fail, Stops, Quiet
<1>3. CASE Continue /\ (Head(todo) = "descriptor" => NextDescriptorHandle)
  <2>1. T = {Head(todo)} \cup T' /\ (\A b \in T' : Follows(Head(todo), b))
    BY <1>1, <1>3, Went
  <2> QED BY <1>0, <1>1, <1>3, <2>1
<1>4. CASE PackageAsked
  <2>1. /\ T = {"ensurePackage"} \cup Range(Tail(todo)) /\ \A b \in Range(Tail(todo)) : Follows("ensurePackage", b)
        /\ Tail(todo) \in Seq(Names) /\ Ordered(Tail(todo))
    BY <1>4, Popped DEF PackageAsked, Step, TypeInv, ControlInv, T
  <2>2. "ensurePackage" \notin Range(Tail(todo)) /\ (\A b \in Range(Tail(todo)) : Follows("returnPackage", b))
    BY <2>1 DEF Follows
  <2>3. "returnPackage" \in Names /\ todo' = <<"returnPackage">> \o Tail(todo)
    BY <1>4 DEF Names, PackageAsked
  <2>4. T' = {"returnPackage"} \cup Range(Tail(todo))
    BY Zenon, <2>1, <2>2, <2>3, Pushed DEF T
  <2>5. T \ {"ensurePackage"} = Range(Tail(todo))
    BY <2>1, <2>2
  <2> QED BY <1>0, <1>1, <1>4, <2>4, <2>5
<1>5. CASE Stops
  BY <1>0, <1>1, <1>5, StopsAt
<1>6. CASE ExecutedLob
  <2>1. T' = {"lobLength", "lobData"}
    BY <1>6, Literals DEF ExecutedLob, Lists, T
  <2> QED BY <1>0, <1>1, <1>6, <2>1
<1> QED BY Zenon, <1>0, <1>1, <1>2, <1>3, <1>4, <1>5, <1>6

LEMMA BegunBinds ==
  ASSUME BeginOutcome
  PROVE  "change" \in T' => "descriptor" \in T'
<1>1. \A kind, q, h, name : Begun(kind, q, h, name) => ("change" \in T' => "descriptor" \in T')
  BY DEF Begun
<1> QED BY Zenon, <1>1 DEF BeginOutcome, BegunPlain, BegunQuery, BegunPrepare, BegunStmt, ClosingStmt, ClosingRows

LEMMA DescriptorStep ==
  ASSUME TypeInv, ControlInv, DescriptorInv, BatchInv, NameInv, PackageInv, [Next]_vars
  PROVE  DescriptorInv'
<1>1. CASE Begin
  <2>1. "change" \in T' => "descriptor" \in T'
    BY <1>1, BeginCases, BegunBinds
  <2> QED BY <2>1 DEF DescriptorInv
<1>2. CASE Steps
  <2>1. StepOutcome
    BY <1>2, StepCases
  <2>2. CASE NextDescriptorHandle
    <3>1. MaxDescriptor \in Nat \ {0} /\ cli.descriptorSeq \in 0..MaxDescriptor
      BY ExecAssumption DEF TypeInv
    <3>2. (cli.descriptorSeq % MaxDescriptor) + 1 # 0
      BY <3>1
    <3>3. op # None /\ op \in Operations
      BY <2>1, OpStep
    <3>4. cli'.descriptorSeq = (cli.descriptorSeq % MaxDescriptor) + 1 /\ op'.descriptor = cli'.descriptorSeq
      BY <2>2, <3>3 DEF NextDescriptorHandle, TypeInv, Operations
    <3> QED BY <3>2, <3>4 DEF DescriptorInv
  <2>3. CASE NextRows
    BY <2>3, NextList DEF DescriptorInv
  <2>4. ASSUME ~NextDescriptorHandle, ~NextRows, "change" \in T', "descriptor" \notin T'
        PROVE  "change" \in T /\ "descriptor" \notin T /\ op # None
    BY <2>1, <2>4, NextSteps
  <2>5. ASSUME ~NextDescriptorHandle, ~NextRows, "change" \in T' PROVE op'.descriptor = op.descriptor
    <3>1. Head(todo) # "descriptor"
      BY Zenon, <2>1, <2>5, NextSteps DEF PackageAsked, ExecutedLob, Step
    <3> QED BY <2>1, <3>1, OpStep
  <2> QED BY <2>2, <2>3, <2>4, <2>5 DEF DescriptorInv
<1>3. CASE Cleanup
  <2>1. "change" \notin T'
    <3>1. CASE RowsDone
      BY <3>1, RoundDone
    <3>2. CASE ~RowsDone
      <4>1. \E x : Undo(x) /\ UNCHANGED todo
        BY <1>3, <3>2, UndoCases DEF UndoOutcome, UndoDone, Popping
      <4>2. T' = {}
        BY <4>1, Nothing DEF Undo, T
      <4> QED BY <4>2
    <3> QED BY <3>1, <3>2
  <2> QED BY <2>1 DEF DescriptorInv
<1>4. CASE Return \/ Replace
  BY <1>4 DEF Return, Replace, DescriptorInv
<1>5. CASE CtxEnds \/ UNCHANGED vars
  BY <1>5 DEF CtxEnds, vars, data, DescriptorInv, T
<1> QED BY <1>1, <1>2, <1>3, <1>4, <1>5 DEF Next

-----------------------------------------------------------------------------
(* The types.                                                              *)
CliType ==
  [used : SUBSET Handles, stmts : SUBSET StmtsOf, rows : SUBSET RowsOf,
   busy : SUBSET Handles, cursorSeq : 0..MaxCursor, descriptorSeq : 0..MaxDescriptor,
   timeouts : [Handles -> -1..1], packaged : [Handles -> BOOLEAN]]

SrvType ==
  [rpb : [Handles -> RPBs \cup {None}], descriptors : SUBSET (1..MaxDescriptor),
   cursors : SUBSET Cursors, locator : BOOLEAN]

LEMMA TypeParts ==
  ASSUME TypeInv
  PROVE  /\ cfg \in Settings /\ ops \in 0..MaxOps /\ valid \in BOOLEAN /\ why \in {None, "io", "ctx", "cancel"}
         /\ ctx \in {"live", "done"} /\ err \in {"none", "ctx", "bad", "sql"}
         /\ todo \in Seq(Names) /\ undo \in Seq(Names)
         /\ pkg \in PackageType /\ cli \in CliType /\ srv \in SrvType
BY DEF TypeInv, TypeOK, PackageType, CliType, SrvType

(* The driver's data after a change of one part of it. *)
LEMMA CliParts ==
  ASSUME TypeInv
  PROVE  /\ \A X \in SUBSET Handles : [cli EXCEPT !.used = X] \in CliType /\ [cli EXCEPT !.busy = X] \in CliType
         /\ \A X \in SUBSET StmtsOf : [cli EXCEPT !.stmts = X] \in CliType
         /\ \A X \in SUBSET RowsOf : [cli EXCEPT !.rows = X] \in CliType
         /\ \A n \in 0..MaxCursor : [cli EXCEPT !.cursorSeq = n] \in CliType
         /\ \A n \in 0..MaxDescriptor : [cli EXCEPT !.descriptorSeq = n] \in CliType
         /\ \A f \in [Handles -> -1..1] : [cli EXCEPT !.timeouts = f] \in CliType
         /\ \A f \in [Handles -> BOOLEAN] : [cli EXCEPT !.packaged = f] \in CliType
<1>1. cli \in CliType
  BY TypeParts
<1> QED BY Zenon, <1>1 DEF CliType

LEMMA SrvParts ==
  ASSUME TypeInv
  PROVE  /\ \A f \in [Handles -> RPBs \cup {None}] : [srv EXCEPT !.rpb = f] \in SrvType
         /\ \A X \in SUBSET (1..MaxDescriptor) : [srv EXCEPT !.descriptors = X] \in SrvType
         /\ \A X \in SUBSET Cursors : [srv EXCEPT !.cursors = X] \in SrvType
         /\ \A b \in BOOLEAN : [srv EXCEPT !.locator = b] \in SrvType
<1>1. srv \in SrvType
  BY TypeParts
<1> QED BY <1>1 DEF SrvType

(* A cursor name is one of the names. *)
LEMMA CursorType ==
  ASSUME TypeInv, NEW cursor, NEW default \in BOOLEAN, NEW h \in Handles, Named(cursor, default, h)
  PROVE  cursor \in Cursors
<1>1. cli.cursorSeq \in Nat /\ cli.cursorSeq <= MaxCursor /\ MaxCursor \in Nat
  BY ExecAssumption DEF TypeInv
<1>2. \A n \in 1..cli.cursorSeq : n \in 1..MaxCursor
  BY <1>1
<1>3. CASE default
  BY <1>3 DEF Named, Cursors
<1>4. CASE ~default
  BY <1>2, <1>4 DEF Named, Cursors
<1> QED BY <1>3, <1>4

LEMMA OpFields ==
  ASSUME TypeInv, op # None
  PROVE  /\ op.kind \in Kinds /\ op.q \in Queries \cup {None} /\ op.h \in Handles \cup {None}
         /\ op.name \in {"own", "package"} /\ op.limit \in 0..1 /\ op.descriptor \in 0..MaxDescriptor
         /\ op.default \in BOOLEAN
         /\ op.kind \notin {"exec", "ping"} => op.h \in Handles
         /\ op.kind \notin {"ping", "closeRows"} => op.q \in Queries
<1>1. op \in Operations
  BY OpType
<1> QED BY <1>1 DEF Operations, TypeInv

(* The RPB of the operation, and only that, changes. *)
Rewritten(h, rpb) ==
  /\ srv' = [srv EXCEPT !.rpb = [srv.rpb EXCEPT ![h] = rpb]]
  /\ srv'.rpb = [srv.rpb EXCEPT ![h] = rpb]
  /\ srv'.descriptors = srv.descriptors /\ srv'.cursors = srv.cursors /\ srv'.locator = srv.locator

LEMMA RpbWritten ==
  ASSUME TypeInv, NEW h \in Handles, NEW rpb \in RPBs \cup {None}, srv' = [srv EXCEPT !.rpb[h] = rpb]
  PROVE  /\ srv' \in SrvType /\ Rewritten(h, rpb)
         /\ \A k \in Handles : srv'.rpb[k] = IF k = h THEN rpb ELSE srv.rpb[k]
<1>1. srv \in SrvType
  BY TypeParts
<1>2. [srv.rpb EXCEPT ![h] = rpb] \in [Handles -> RPBs \cup {None}]
  BY <1>1 DEF SrvType
<1>3. srv' = [srv EXCEPT !.rpb = [srv.rpb EXCEPT ![h] = rpb]]
  BY <1>1 DEF SrvType
<1>4. srv'.rpb = [srv.rpb EXCEPT ![h] = rpb]
  BY <1>1, <1>3 DEF SrvType
<1>5. srv'.descriptors = srv.descriptors /\ srv'.cursors = srv.cursors /\ srv'.locator = srv.locator
  BY <1>1, <1>3 DEF SrvType
<1>6. \A k \in Handles : srv'.rpb[k] = IF k = h THEN rpb ELSE srv.rpb[k]
  BY <1>1, <1>4 DEF SrvType
<1> QED BY Zenon, <1>2, <1>3, <1>4, <1>5, <1>6, SrvParts DEF Rewritten

(* The step is one of an operation with an id. *)
LEMMA StepHasId ==
  ASSUME TypeInv, ControlInv, NEW x, Step(x),
         x \in {"prepare", "prepareOrReuse", "sync", "descriptor", "change", "cursor", "execute", "executeCall", "open"}
  PROVE  op # None /\ op.kind \notin {"exec", "ping", "closeStmt", "closeRows"} /\ op.h \in Handles /\ op.q \in Queries
<1>1. op # None /\ x \in T
  BY StepIn
<1>2. op.kind \notin {"exec", "ping", "closeStmt", "closeRows"}
  BY <1>1, Belongs DEF StepOf, Preparing
<1> QED BY <1>1, <1>2, OpFields

(* What Prepared, PrepareRejected and Synced write. *)
LEMMA PreparedRpb ==
  ASSUME TypeInv, ControlInv, NEW x \in {"prepare", "prepareOrReuse"}, NEW n \in {"own", "package"}, Prepared(x, n)
  PROVE  \E packaged \in BOOLEAN :
           /\ packaged <=> specForPrepare(op.q)
           /\ srv' \in SrvType /\ Rewritten(op.h, NewRPB(op.q, n, packaged))
           /\ NewRPB(op.q, n, packaged) \in RPBs
           /\ \A k \in Handles : srv'.rpb[k] = IF k = op.h THEN NewRPB(op.q, n, packaged) ELSE srv.rpb[k]
<1>1. Step(x) /\ op.h \in Handles /\ op.q \in Queries
  BY StepHasId DEF Prepared
<1>2. PICK packaged \in BOOLEAN :
        /\ packaged <=> specForPrepare(op.q)
        /\ srv' = [srv EXCEPT !.rpb[op.h] = NewRPB(op.q, n, packaged)]
  BY DEF Prepared
<1>3. NewRPB(op.q, n, packaged) \in RPBs
  BY <1>1 DEF NewRPB, RPBs
<1> QED BY <1>1, <1>2, <1>3, RpbWritten

LEMMA RejectedRpb ==
  ASSUME TypeInv, ControlInv, NEW x \in {"prepare", "prepareOrReuse"}, PrepareRejected(x)
  PROVE  /\ srv' \in SrvType /\ Rewritten(op.h, NewRPB(None, "own", FALSE))
         /\ NewRPB(None, "own", FALSE) \in RPBs
         /\ \A k \in Handles : srv'.rpb[k] = IF k = op.h THEN NewRPB(None, "own", FALSE) ELSE srv.rpb[k]
<1>1. Step(x) /\ op.h \in Handles
  BY StepHasId DEF PrepareRejected
<1>2. NewRPB(None, "own", FALSE) \in RPBs /\ NewRPB(None, "own", FALSE) \in RPBs \cup {None}
  BY DEF NewRPB, RPBs
<1>3. srv' = [srv EXCEPT !.rpb[op.h] = NewRPB(None, "own", FALSE)]
  BY DEF PrepareRejected
<1> QED BY Zenon, <1>1, <1>2, <1>3, RpbWritten

LEMMA SyncedRpb ==
  ASSUME TypeInv, ControlInv, Synced
  PROVE  /\ srv' \in SrvType
         /\ srv'.descriptors = srv.descriptors /\ srv'.cursors = srv.cursors /\ srv'.locator = srv.locator
         /\ \A k \in Handles : k # op.h \/ srv.rpb[k] = None => srv'.rpb[k] = srv.rpb[k]
         /\ srv.rpb[op.h] # None =>
              /\ srv'.rpb[op.h] # None /\ srv'.rpb[op.h].limit = op.limit /\ srv'.rpb[op.h].sql = srv.rpb[op.h].sql
              /\ srv'.rpb[op.h].name = srv.rpb[op.h].name /\ srv'.rpb[op.h].packaged = srv.rpb[op.h].packaged
<1>1. Step("sync") /\ op.h \in Handles /\ op # None
  BY StepHasId DEF Synced
<1>2. CASE srv.rpb[op.h] = None
  <2>1. srv' = srv /\ srv \in SrvType
    BY <1>2, TypeParts DEF Synced
  <2> QED BY <1>2, <2>1
<1>3. CASE srv.rpb[op.h] # None
  <2> DEFINE rpb == [srv.rpb[op.h] EXCEPT !.limit = op.limit]
  <2>1. srv.rpb[op.h] \in RPBs
    BY Zenon, <1>1, <1>3, TypeParts DEF SrvType
  <2>2. op.limit \in 0..1
    BY <1>1, OpFields
  <2>3. /\ rpb \in RPBs /\ rpb.limit = op.limit /\ rpb.sql = srv.rpb[op.h].sql
        /\ rpb.name = srv.rpb[op.h].name /\ rpb.packaged = srv.rpb[op.h].packaged
    BY <2>1, <2>2 DEF RPBs
  <2>4. srv' = [srv EXCEPT !.rpb[op.h] = rpb]
    BY <1>3 DEF Synced
  <2> HIDE DEF rpb
  <2>5. rpb # None
    BY <2>3, ExecAssumption
  <2>6. /\ srv' \in SrvType /\ Rewritten(op.h, rpb)
        /\ \A k \in Handles : srv'.rpb[k] = IF k = op.h THEN rpb ELSE srv.rpb[k]
    BY <1>1, <2>3, <2>4, RpbWritten
  <2> QED BY <1>1, <1>3, <2>3, <2>5, <2>6 DEF Rewritten
<1> QED BY Zenon, <1>2, <1>3

Flags ==
  /\ valid \in BOOLEAN /\ why \in {None, "io", "ctx", "cancel"} /\ ctx \in {"live", "done"}
  /\ err \in {"none", "ctx", "bad", "sql"}

(* Releasing the name of a cursor, if it is a default name. *)
LEMMA Released ==
  ASSUME TypeInv, ReleaseName(op.h, op.default)
  PROVE  /\ cli' \in CliType /\ cli'.busy = (IF op.default THEN cli.busy \ {op.h} ELSE cli.busy)
         /\ cli'.used = cli.used /\ cli'.stmts = cli.stmts /\ cli'.rows = cli.rows /\ cli'.cursorSeq = cli.cursorSeq
         /\ cli'.timeouts = cli.timeouts /\ cli'.packaged = cli.packaged
<1>1. cli \in CliType
  BY TypeParts
<1>2. CASE op.default
  <2>1. cli' = [cli EXCEPT !.busy = cli.busy \ {op.h}] /\ cli.busy \ {op.h} \in SUBSET Handles
    BY <1>1, <1>2 DEF ReleaseName, CliType
  <2>2. cli' \in CliType
    BY Zenon, <2>1, CliParts
  <2> QED BY <1>1, <1>2, <2>1, <2>2 DEF CliType
<1>3. CASE ~op.default
  BY <1>1, <1>3 DEF ReleaseName
<1> QED BY <1>2, <1>3

LEMMA IdReleased ==
  ASSUME TypeInv, NEW h, cli' = [cli EXCEPT !.used = @ \ {h}]
  PROVE  /\ cli' \in CliType /\ cli'.used = cli.used \ {h}
         /\ cli'.stmts = cli.stmts /\ cli'.rows = cli.rows /\ cli'.busy = cli.busy /\ cli'.cursorSeq = cli.cursorSeq
         /\ cli'.timeouts = cli.timeouts /\ cli'.packaged = cli.packaged
<1>1. cli \in CliType
  BY TypeParts
<1>2. cli' = [cli EXCEPT !.used = cli.used \ {h}] /\ cli.used \ {h} \in SUBSET Handles
  BY <1>1 DEF CliType
<1>3. cli' \in CliType
  BY Zenon, <1>2, CliParts
<1> QED BY <1>1, <1>2, <1>3 DEF CliType

(* The id of an operation that holds one. *)
LEMMA UndoHasId ==
  ASSUME TypeInv, ControlInv, NEW x, x \in U, x \in {"releaseId", "discard", "closeStatement", "undoOpen", "closeCursor",
                                                     "releaseName", "deleteDescriptor", "freeLob", "rowsDone"}, op # None
  PROVE  op.kind \notin {"exec", "ping"} /\ op.h \in Handles
<1>1. op.kind \notin {"exec", "ping"}
  BY Belongs DEF UndoOf
<1> QED BY <1>1, OpFields

(* The driver's data when an operation begins. *)
LEMMA IdTaken ==
  ASSUME TypeInv, NEW h \in Handles, Taken(h)
  PROVE  /\ cli' \in CliType /\ cli'.used = cli.used \cup {h} /\ h \notin cli.used
         /\ cli'.stmts = cli.stmts /\ cli'.rows = cli.rows /\ cli'.busy = cli.busy /\ cli'.cursorSeq = cli.cursorSeq
         /\ cli'.timeouts = cli.timeouts /\ cli'.packaged = cli.packaged
<1>1. cli \in CliType
  BY TypeParts
<1>2. cli' = [cli EXCEPT !.used = cli.used \cup {h}] /\ cli.used \cup {h} \in SUBSET Handles /\ h \notin cli.used
  BY <1>1 DEF CliType, Taken
<1>3. cli' \in CliType
  BY Zenon, <1>2, CliParts
<1> QED BY <1>1, <1>2, <1>3 DEF CliType

LEMMA StmtTaken ==
  ASSUME TypeInv, NEW s, cli' = [cli EXCEPT !.stmts = @ \ {s}]
  PROVE  /\ cli' \in CliType /\ cli'.used = cli.used
         /\ cli'.stmts = cli.stmts \ {s} /\ cli'.rows = cli.rows /\ cli'.busy = cli.busy /\ cli'.cursorSeq = cli.cursorSeq
         /\ cli'.timeouts = cli.timeouts /\ cli'.packaged = cli.packaged
<1>1. cli \in CliType
  BY TypeParts
<1>2. cli' = [cli EXCEPT !.stmts = cli.stmts \ {s}] /\ cli.stmts \ {s} \in SUBSET StmtsOf
  BY <1>1 DEF CliType
<1>3. cli' \in CliType
  BY <1>2, CliParts
<1> QED BY <1>1, <1>2, <1>3 DEF CliType

LEMMA RowTaken ==
  ASSUME TypeInv, NEW r, cli' = [cli EXCEPT !.rows = @ \ {r}]
  PROVE  /\ cli' \in CliType /\ cli'.used = cli.used
         /\ cli'.stmts = cli.stmts /\ cli'.rows = cli.rows \ {r} /\ cli'.busy = cli.busy /\ cli'.cursorSeq = cli.cursorSeq
         /\ cli'.timeouts = cli.timeouts /\ cli'.packaged = cli.packaged
<1>1. cli \in CliType
  BY TypeParts
<1>2. cli' = [cli EXCEPT !.rows = cli.rows \ {r}] /\ cli.rows \ {r} \in SUBSET RowsOf
  BY <1>1 DEF CliType
<1>3. cli' \in CliType
  BY <1>2, CliParts
<1> QED BY <1>1, <1>2, <1>3 DEF CliType

LEMMA TypeStep ==
  ASSUME TypeInv, ControlInv, DescriptorInv, BatchInv, NameInv, PackageInv, [Next]_vars
  PROVE  TypeInv'
(* The parts of TypeInv that a step changes. *)
<1>Typed. ASSUME cfg' = cfg, ops' \in 0..MaxOps, valid' \in BOOLEAN, why' \in {None, "io", "ctx", "cancel"},
                 ctx' \in {"live", "done"}, err' \in {"none", "ctx", "bad", "sql"},
                 op' = None \/ (/\ op' \in Operations /\ op'.sent <= op'.rows /\ op'.total <= op'.applied
                                /\ op'.kind \notin {"exec", "ping"} => op'.h \in Handles
                                /\ op'.kind \notin {"ping", "closeRows"} => op'.q \in Queries),
                 todo' \in Seq(Names), undo' \in Seq(Names), pkg' \in PackageType, cli' \in CliType, srv' \in SrvType
          PROVE  TypeInv'
  <2> USE <1>Typed
  <2>1. /\ cli'.used \subseteq Handles /\ cli'.rows \subseteq RowsOf /\ cli'.descriptorSeq \in 0..MaxDescriptor
        /\ cli'.timeouts \in [Handles -> -1..1]
    BY DEF CliType
  <2>2. /\ srv'.rpb \in [Handles -> RPBs \cup {None}] /\ srv'.descriptors \subseteq 1..MaxDescriptor
        /\ srv'.cursors \subseteq Cursors /\ srv'.locator \in BOOLEAN
    BY DEF SrvType
  <2>3. TypeOK'
    BY <2>1, <2>2 DEF TypeInv, TypeOK
  <2> QED BY <2>3 DEF TypeInv, PackageType, CliType, SrvType
<1>StepCli. ASSUME StepOutcome
            PROVE  cli' \in CliType
  <2> USE <1>StepCli
  <2>0. cli \in CliType /\ pkg \in PackageType
    BY TypeParts
  <2>1. ASSUME NEW x \in {"prepare", "prepareOrReuse"}, Step(x), NoteForPrepare(op.h, op.q) PROVE cli' \in CliType
    <3>1. op.h \in Handles
      BY <2>1, StepIn, KindOf, OpFields
    <3>2. packageCriteriaMatches(op.q) \in BOOLEAN
      BY DEF packageCriteriaMatches, HasMarkers
    <3>3. [cli.packaged EXCEPT ![op.h] = packageCriteriaMatches(op.q)] \in [Handles -> BOOLEAN]
      BY <2>0, <3>1, <3>2 DEF CliType
    <3>4. [cli EXCEPT !.packaged = [cli.packaged EXCEPT ![op.h] = packageCriteriaMatches(op.q)]] \in CliType
      BY Zenon, <3>3, CliParts
    <3>5. CASE pkg.enabled
      BY Zenon, <2>0, <2>1, <3>4, <3>5 DEF NoteForPrepare, CliType
    <3>6. CASE ~pkg.enabled
      BY <2>0, <2>1, <3>6 DEF NoteForPrepare
    <3> QED BY <3>5, <3>6
  <2>2. CASE Synced
    <3>1. Step("sync") /\ "sync" \in T /\ op # None
      BY <2>2, StepIn DEF Synced
    <3>2. op.kind \notin {"exec", "ping"}
      BY <3>1, Belongs DEF StepOf
    <3>3. op.h \in Handles /\ Wanted \in -1..1
      BY <3>1, <3>2, OpFields DEF Wanted
    <3>4. [cli.timeouts EXCEPT ![op.h] = Wanted] \in [Handles -> -1..1]
      BY <2>0, <3>3 DEF CliType
    <3>5. [cli EXCEPT !.timeouts = [cli.timeouts EXCEPT ![op.h] = Wanted]] \in CliType
      BY Zenon, <3>4, CliParts
    <3> QED BY Zenon, <2>0, <2>2, <3>5 DEF Synced, CliType
  <2>3. CASE NextDescriptorHandle
    <3>1. MaxDescriptor \in Nat \ {0} /\ cli.descriptorSeq \in 0..MaxDescriptor
      BY ExecAssumption DEF TypeInv
    <3>2. (cli.descriptorSeq % MaxDescriptor) + 1 \in 0..MaxDescriptor
      BY <3>1
    <3>3. cli' = [cli EXCEPT !.descriptorSeq = (cli.descriptorSeq % MaxDescriptor) + 1]
      BY <2>3 DEF NextDescriptorHandle
    <3> QED BY <3>2, <3>3, CliParts
  <2>4. CASE OpenCursorName
    <3>1. Step("cursor") /\ "cursor" \in T /\ op # None /\ valid
      BY <2>4, StepIn DEF OpenCursorName, Step
    <3>2. op.h \in Handles
      BY <3>1, KindOf, OpFields
    <3>3. CASE op.h \notin cli.busy
      <4>1. cli.busy \cup {op.h} \in SUBSET Handles
        BY <2>0, <3>2 DEF CliType
      <4>2. cli' = [cli EXCEPT !.busy = cli.busy \cup {op.h}]
        BY <2>4, <3>3 DEF OpenCursorName
      <4> QED BY Zenon, <4>1, <4>2, CliParts
    <3>4. CASE op.h \in cli.busy
      <4>0. cli.cursorSeq < MaxCursor
        BY Zenon, <3>1, <3>4 DEF NameInv
      <4>1. cli.cursorSeq < MaxCursor /\ cli.cursorSeq \in Nat /\ MaxCursor \in Nat
        <5>1. cli.cursorSeq \in 0..MaxCursor
          BY <2>0 DEF CliType
        <5> QED BY <4>0, <5>1, ExecAssumption
      <4>2. cli.cursorSeq + 1 \in 0..MaxCursor
        BY <4>1
      <4>3. cli' = [cli EXCEPT !.cursorSeq = cli.cursorSeq + 1]
        BY <2>4, <3>4 DEF OpenCursorName
      <4> QED BY <4>2, <4>3, CliParts
    <3> QED BY <3>3, <3>4
  <2>5. CASE OpenedRows
    <3>1. Step("open") /\ valid
      BY <2>5 DEF OpenedRows, Step
    <3>2. HasName /\ op # None /\ op.kind \in {"query", "keys", "queryTransient", "queryStmt"}
      BY <3>1, OpenTop DEF HasName
    <3>3. op.h \in Handles /\ op.default \in BOOLEAN /\ op.name \in {"own", "package"}
      BY <3>2, OpFields
    <3>4. op.cursor \in Cursors
      BY <3>1, <3>2, <3>3, CursorType DEF NameInv
    <3>5. NewRow \in RowsOf
      BY <3>3, <3>4 DEF NewRow, RowsOf
    <3>6. cli.rows \cup {NewRow} \in SUBSET RowsOf
      BY <2>0, <3>5 DEF CliType
    <3>7. cli' = [cli EXCEPT !.rows = cli.rows \cup {NewRow}]
      BY <2>5 DEF OpenedRows
    <3> QED BY <3>6, <3>7, CliParts
  <2>6. CASE OpenedNothing
    <3>1. cli.busy \ {op.h} \in SUBSET Handles
      BY <2>0 DEF CliType
    <3>2. cli' = cli \/ cli' = [cli EXCEPT !.busy = cli.busy \ {op.h}]
      BY <2>6 DEF OpenedNothing
    <3> QED BY Zenon, <2>0, <3>1, <3>2, CliParts
  <2>7. CASE UNCHANGED cli
    BY <2>0, <2>7
  <2> QED
    BY Zenon, <2>1, <2>2, <2>3, <2>4, <2>5, <2>6, <2>7
    DEF StepOutcome, Stopped, Passed, PackageKnown, PackageAsked, Prepared, PrepareRejected, SyncSkipped,
        DescriptorChanged, Executed, ExecutedLob, ExecuteStopped, OpenedKeys, OpenInterrupted, NextRows, data
<1>StepSrv. ASSUME StepOutcome
            PROVE  srv' \in SrvType
  <2> USE <1>StepSrv
  <2>0. srv \in SrvType
    BY TypeParts
  <2>1. CASE \E x \in {"prepare", "prepareOrReuse"} : PrepareRejected(x) \/ \E n \in {"own", "package"} : Prepared(x, n)
    BY Zenon, <2>1, PreparedRpb, RejectedRpb
  <2>2. CASE Synced
    BY <2>2, SyncedRpb
  <2>3. CASE DescriptorChanged
    <3>1. Step("change") /\ srv' = [srv EXCEPT !.descriptors = srv.descriptors \cup {op.descriptor}]
      BY <2>3 DEF DescriptorChanged
    <3>2. op # None /\ "change" \in T /\ todo # <<>> /\ Head(todo) = "change" /\ Continue
      BY <2>3, <3>1, StepIn DEF DescriptorChanged, Step
    <3>3. T = {"change"} \cup T' /\ \A b \in T' : Follows("change", b)
      BY <3>1, <3>2, Went
    <3>4. "descriptor" \notin T
      BY <3>3 DEF Follows
    <3>5. op.descriptor \in 0..MaxDescriptor /\ op.descriptor # 0
      BY <3>2, <3>4, OpFields DEF DescriptorInv
    <3>6. op.descriptor \in 1..MaxDescriptor
      BY <3>5, ExecAssumption
    <3>7. srv.descriptors \cup {op.descriptor} \in SUBSET (1..MaxDescriptor)
      BY <2>0, <3>6 DEF SrvType
    <3> QED BY <3>1, <3>7, SrvParts
  <2>4. CASE ExecutedLob
    BY Zenon, <2>4, SrvParts DEF ExecutedLob
  <2>5. ASSUME Step("open"), CursorOpened PROVE srv' \in SrvType
    <3>1. HasName /\ op # None /\ op.kind \in {"query", "keys", "queryTransient", "queryStmt"} /\ valid
      BY <2>5, OpenTop DEF HasName, Step
    <3>2. op.h \in Handles /\ op.default \in BOOLEAN
      BY <3>1, OpFields
    <3>3. op.cursor \in Cursors
      BY <3>1, <3>2, CursorType DEF NameInv
    <3>4. srv.cursors \cup {op.cursor} \in SUBSET Cursors
      BY <2>0, <3>3 DEF SrvType
    <3>5. srv' = [srv EXCEPT !.cursors = srv.cursors \cup {op.cursor}]
      BY <2>5 DEF CursorOpened
    <3> QED BY <3>4, <3>5, SrvParts
  <2>6. CASE UNCHANGED srv
    BY <2>0, <2>6
  <2> QED
    BY <2>1, <2>2, <2>3, <2>4, <2>5, <2>6
    DEF StepOutcome, Stopped, Passed, PackageKnown, PackageAsked, SyncSkipped, NextDescriptorHandle, OpenCursorName,
        Executed, ExecuteStopped, OpenedRows, OpenedKeys, OpenedNothing, OpenInterrupted, NextRows, data
<1>StepFlags. ASSUME Steps
              PROVE  Flags' /\ UNCHANGED <<ops, cfg>>
  <2> USE <1>StepFlags
  <2>0. Flags
    BY TypeParts DEF Flags
  <2>1. CASE EnsurePackage
    BY Zenon, <2>0, <2>1 DEF EnsurePackage, Plain, Continue, Fail, Lost, Kept, data, Flags
  <2>2. CASE CachePackage
    BY Zenon, <2>0, <2>2 DEF CachePackage, Plain, Continue, Fail, Lost, Kept, data, Flags
  <2>3. CASE Prepare
    BY Zenon, <2>0, <2>3 DEF Prepare, PrepareAndDescribe, Plain, Continue, Fail, Rejected, Lost, Kept, data, Flags
  <2>4. CASE PrepareOrReuse
    BY Zenon, <2>0, <2>4 DEF PrepareOrReuse, PrepareAndDescribe, Plain, Continue, Fail, Rejected, Lost, Kept, data, Flags
  <2>5. CASE SyncQueryTimeoutRPB \/ ChangeDescriptor
    BY Zenon, <2>0, <2>5 DEF SyncQueryTimeoutRPB, ChangeDescriptor, Plain, Continue, Fail, Rejected, Lost, Kept, data, Flags
  <2>6. CASE NextDescriptorHandle \/ OpenCursorName \/ NextRows
    BY <2>0, <2>6 DEF NextDescriptorHandle, OpenCursorName, NextRows, Continue, Flags
  <2>7. CASE WriteLOBData \/ RetrieveLobData \/ ExecuteImmediate \/ Ping
    BY Zenon, <2>0, <2>7 DEF WriteLOBData, RetrieveLobData, ExecuteImmediate, Ping, Plain, Continue, Fail, Rejected, Lost, Kept,
       data, Flags
  <2>8. CASE ExecuteCall \/ ReadGeneratedKeyRows
    BY Zenon, <2>0, <2>8 DEF ExecuteCall, ReadGeneratedKeyRows, Statement, Plain, Continue, Fail, Rejected, Lost, Kept, data, Flags
  <2>9. CASE Execute
    BY Zenon, <2>0, <2>9 DEF Execute, Statement, Plain, Continue, Fail, Rejected, Lost, Kept, data, Flags
  <2>10. CASE OpenAndDescribe
    BY Zenon, <2>0, <2>10 DEF OpenAndDescribe, Statement, Plain, Continue, Fail, Rejected, Lost, Kept, data, Flags
  <2>11. CASE MessageText
    BY Zenon, <2>0, <2>11 DEF MessageText, Lost, Kept, data, Flags
  <2> HIDE DEF Flags
  <2> QED BY <2>1, <2>2, <2>3, <2>4, <2>5, <2>6, <2>7, <2>8, <2>9, <2>10, <2>11 DEF Steps
<1>UndoFlags. ASSUME Cleanup
              PROVE  Flags' /\ UNCHANGED <<ops, cfg, pkg>>
  <2> USE <1>UndoFlags
  <2>0. Flags
    BY TypeParts DEF Flags
  <2>1. CASE DeleteDescriptor \/ FreeLob
    BY Zenon, <2>0, <2>1 DEF DeleteDescriptor, FreeLob, Deferred, Lost, Kept, Flags
  <2>2. CASE UndoOpen
    BY Zenon, <2>0, <2>2 DEF UndoOpen, Deferred, Lost, Kept, Flags
  <2>3. CASE ClosePreparedStatement
    BY Zenon, <2>0, <2>3 DEF ClosePreparedStatement, Deferred, Lost, Kept, Flags
  <2>4. CASE DeferredLocal \/ RowsDone
    BY <2>0, <2>4 DEF DeferredLocal, RowsDone, Flags
  <2>5. CASE CloseCursor
    BY Zenon, <2>0, <2>5 DEF CloseCursor, Deferred, Lost, Kept, Flags
  <2> HIDE DEF Flags
  <2> QED BY <2>1, <2>2, <2>3, <2>4, <2>5 DEF Cleanup
<1>UndoTypes. ASSUME UndoOutcome
              PROVE  cli' \in CliType /\ srv' \in SrvType
  <2> USE <1>UndoTypes
  <2>0. cli \in CliType /\ srv \in SrvType
    BY TypeParts
  <2>1. [srv EXCEPT !.descriptors = @ \ {op.descriptor}] \in SrvType
    <3>1. srv.descriptors \ {op.descriptor} \in SUBSET (1..MaxDescriptor)
      BY <2>0 DEF SrvType
    <3> QED BY Zenon, <3>1, SrvParts
  <2>2. [srv EXCEPT !.cursors = @ \ {op.cursor}] \in SrvType
    <3>1. srv.cursors \ {op.cursor} \in SUBSET Cursors
      BY <2>0 DEF SrvType
    <3> QED BY <3>1, SrvParts
  <2>3. [srv EXCEPT !.locator = FALSE] \in SrvType
    BY Zenon, SrvParts
  <2>4. ASSUME NEW x, UndoDone(x, srv) PROVE srv' \in SrvType
    BY <2>0, <2>4 DEF UndoDone
  <2>5. CASE UndoDone("deleteDescriptor", [srv EXCEPT !.descriptors = @ \ {op.descriptor}]) /\ UNCHANGED cli
    BY <2>0, <2>1, <2>5 DEF UndoDone
  <2>6. CASE UndoDone("freeLob", [srv EXCEPT !.locator = FALSE]) /\ UNCHANGED cli
    BY Zenon, <2>0, <2>3, <2>6 DEF UndoDone
  <2>7. CASE /\ UndoDone("undoOpen", IF err = "ctx" THEN [srv EXCEPT !.cursors = @ \ {op.cursor}] ELSE srv)
             /\ ReleaseName(op.h, op.default)
    BY Zenon, <2>0, <2>2, <2>7, Released DEF UndoDone
  <2>8. CASE /\ \E x \in {"closeStatement", "discard"} :
                  UndoDone(x, IF op.name = "package" THEN srv ELSE [srv EXCEPT !.rpb[op.h] = None])
             /\ cli' = [cli EXCEPT !.used = @ \ {op.h}]
    <3>1. PICK x \in {"closeStatement", "discard"} :
            UndoDone(x, IF op.name = "package" THEN srv ELSE [srv EXCEPT !.rpb[op.h] = None])
      BY <2>8
    <3>2. op # None /\ x \in U
      BY <3>1, HeadIn DEF UndoDone, Popping, Undo, TypeInv, U
    <3>3. op.h \in Handles
      BY <3>2, UndoHasId
    <3>4. [srv.rpb EXCEPT ![op.h] = None] \in [Handles -> RPBs \cup {None}]
      BY <2>0, <3>3 DEF SrvType
    <3>5. [srv EXCEPT !.rpb[op.h] = None] \in SrvType
      BY <2>0, <3>4 DEF SrvType
    <3> QED BY <2>0, <2>8, <3>1, <3>5, IdReleased DEF UndoDone
  <2>9. CASE UndoDone("discard", srv) /\ UNCHANGED cli
    BY <2>0, <2>4, <2>9
  <2>10. CASE UndoDone("releaseId", srv) /\ cli' = [cli EXCEPT !.used = @ \ {op.h}]
    BY <2>4, <2>10, IdReleased
  <2>11. CASE UndoDone("releaseName", srv) /\ ReleaseName(op.h, op.default)
    BY Zenon, <2>4, <2>11, Released
  <2>12. CASE UndoDone("closeCursor", [srv EXCEPT !.cursors = @ \ {op.cursor}]) /\ UNCHANGED cli
    BY <2>0, <2>2, <2>12 DEF UndoDone
  <2>13. CASE RowsDone
    BY <2>0, <2>13 DEF RowsDone
  <2> QED BY <2>5, <2>6, <2>7, <2>8, <2>9, <2>10, <2>11, <2>12, <2>13 DEF UndoOutcome
(* The operation that has begun. *)
<1>BegunOp. ASSUME BeginOutcome
            PROVE  \E kind \in Kinds, q \in Queries \cup {None}, h \in Handles \cup {None}, name \in {"own", "package"} :
                     /\ Begun(kind, q, h, name)
                     /\ kind \notin {"exec", "ping"} => h \in Handles
                     /\ kind \notin {"ping", "closeRows"} => q \in Queries
  <2> USE <1>BegunOp
  <2> USE DEF Kinds
  <2>1. CASE BegunPlain
    BY <2>1 DEF BegunPlain
  <2>2. ASSUME NEW q \in Queries, NEW h \in Handles, BegunQuery(q, h) \/ BegunPrepare(q, h)
        PROVE  \E kind \in {"query", "keys", "prepare", "execTransient", "queryTransient", "batch"} : Begun(kind, q, h, "own")
    BY <2>2 DEF BegunQuery, BegunPrepare
  <2>3. ASSUME NEW s \in cli.stmts, BegunStmt(s) \/ ClosingStmt(s)
        PROVE  /\ \E kind \in {"execStmt", "queryStmt", "batch", "closeStmt"} : Begun(kind, s.q, s.h, s.name)
               /\ s.q \in Queries /\ s.h \in Handles /\ s.name \in {"own", "package"}
    BY <2>3 DEF BegunStmt, ClosingStmt, TypeInv, StmtsOf
  <2>4. ASSUME NEW r \in cli.rows, ClosingRows(r)
        PROVE  Begun("closeRows", None, r.h, r.name) /\ r.h \in Handles /\ r.name \in {"own", "package"}
    BY <2>4 DEF ClosingRows, TypeInv, RowsOf
  <2>5. CASE \E q \in Queries, h \in Handles : Taken(h) /\ (BegunQuery(q, h) \/ BegunPrepare(q, h))
    <3>1. PICK q \in Queries, h \in Handles : BegunQuery(q, h) \/ BegunPrepare(q, h)
      BY Zenon, <2>5
    <3>2. PICK kind \in {"query", "keys", "prepare", "execTransient", "queryTransient", "batch"} :
            Begun(kind, q, h, "own")
      BY Zenon, <2>2, <3>1
    <3> QED BY <3>2
  <2>6. CASE \E s \in cli.stmts : BegunStmt(s) \/ ClosingStmt(s)
    <3>1. PICK s \in cli.stmts : BegunStmt(s) \/ ClosingStmt(s)
      BY Zenon, <2>6
    <3>2. /\ \E kind \in {"execStmt", "queryStmt", "batch", "closeStmt"} : Begun(kind, s.q, s.h, s.name)
          /\ s.q \in Queries /\ s.h \in Handles /\ s.name \in {"own", "package"}
      BY Zenon, <2>3, <3>1
    <3> QED BY <3>2
  <2>7. CASE \E r \in cli.rows : ClosingRows(r)
    <3>1. PICK r \in cli.rows : ClosingRows(r)
      BY Zenon, <2>7
    <3>2. Begun("closeRows", None, r.h, r.name) /\ r.h \in Handles /\ r.name \in {"own", "package"}
      BY Zenon, <2>4, <3>1
    <3> QED BY <3>2
  <2> QED BY Zenon, <2>1, <2>5, <2>6, <2>7 DEF BeginOutcome
<1>BegunCli. ASSUME BeginOutcome
             PROVE  cli' \in CliType
  <2> USE <1>BegunCli
  <2>1. CASE BegunPlain
    BY <2>1, TypeParts DEF BegunPlain
  <2>2. CASE \E q \in Queries, h \in Handles : Taken(h) /\ (BegunQuery(q, h) \/ BegunPrepare(q, h))
    BY <2>2, IdTaken
  <2>3. CASE \E s \in cli.stmts : BegunStmt(s) \/ ClosingStmt(s)
    BY Zenon, <2>3, StmtTaken, TypeParts DEF BegunStmt, ClosingStmt
  <2>4. CASE \E r \in cli.rows : ClosingRows(r)
    BY <2>4, RowTaken DEF ClosingRows
  <2> QED BY <2>1, <2>2, <2>3, <2>4 DEF BeginOutcome
(* The lists stay lists of steps. *)
<1>StepLists. ASSUME StepOutcome
              PROVE  todo' \in Seq(Names) /\ undo' \in Seq(Names)
  <2> USE <1>StepLists
  <2>0. todo \in Seq(Names) /\ undo \in Seq(Names)
    BY TypeParts
  <2>1. op # None /\ valid /\ todo # <<>> /\ Head(todo) \in Names /\ Tail(todo) \in Seq(Names)
    <3>1. op # None /\ valid /\ todo # <<>>
      BY Going
    <3> QED BY <2>0, <3>1, HeadIn
  <2>2. \A x \in Names : \A s \in Seq(Names) : <<x>> \o s \in Seq(Names)
    BY Single
  <2>3. "returnPackage" \in Names /\ "deleteDescriptor" \in Names /\ "undoOpen" \in Names /\ "freeLob" \in Names
        /\ "rowsDone" \in Names
    BY DEF Names
  <2>4. todo' \in Seq(Names)
    <3>1. \/ Continue \/ PackageAsked \/ Stops \/ ExecutedLob \/ NextRows
      BY Zenon DEF StepOutcome, Stopped, Passed, PackageKnown, Prepared, PrepareRejected, SyncSkipped, Synced,
         DescriptorChanged, NextDescriptorHandle, OpenCursorName, Executed, ExecuteStopped, OpenedRows,
         OpenedKeys, OpenedNothing, OpenInterrupted, Rejected, Fail, Stops
    <3>2. CASE Continue
      BY <2>1, <3>2 DEF Continue
    <3>3. CASE PackageAsked
      BY <2>1, <2>2, <2>3, <3>3 DEF PackageAsked
    <3>4. CASE ExecutedLob
      BY <3>4, Literals DEF ExecutedLob, Lists
    <3> QED BY <3>1, <3>2, <3>3, <3>4, StopsAt, NextList
  <2>5. undo' \in Seq(Names)
    <3>1. \/ undo' = undo \/ undo' = <<"discard">> \/ undo' = <<"deleteDescriptor">> \o undo
          \/ undo' = <<"undoOpen">> \o undo \/ undo' = <<"freeLob">> \o undo \/ undo' = <<"rowsDone">> \o undo
          \/ undo' = <<"closeCursor", "closeStatement", "releaseName">>
          \/ Step("open") /\ undo' = Tail(undo)
      BY Zenon DEF StepOutcome, Stopped, Passed, PackageKnown, PackageAsked, Prepared, PrepareRejected, SyncSkipped, Synced,
         DescriptorChanged, NextDescriptorHandle, OpenCursorName, Executed, ExecutedLob, ExecuteStopped, OpenedRows,
         OpenedKeys, OpenedNothing, OpenInterrupted, NextRows, data
    <3>2. <<"closeCursor", "closeStatement", "releaseName">> \in Seq(Names)
      BY Literals DEF Lists
    <3>3. CASE Step("open") /\ undo' = Tail(undo)
      BY <3>3, OpenTop
    <3>4. CASE undo' = <<"discard">>
      BY <3>4, OnlyDiscard
    <3> QED BY Zenon, <2>0, <2>2, <2>3, <3>1, <3>2, <3>3, <3>4
  <2> QED BY <2>4, <2>5
<1>0. Flags
  BY TypeParts DEF Flags
<1>1. CASE Begin
  <2>1. BeginOutcome
    BY <1>1, BeginCases
  <2>2. PICK kind \in Kinds, q \in Queries \cup {None}, h \in Handles \cup {None}, name \in {"own", "package"} :
           /\ Begun(kind, q, h, name)
           /\ kind \notin {"exec", "ping"} => h \in Handles
           /\ kind \notin {"ping", "closeRows"} => q \in Queries
    BY <2>1, <1>BegunOp
  <2>3. cli' \in CliType /\ srv' \in SrvType /\ pkg' \in PackageType
    BY <2>1, <2>2, <1>BegunCli, TypeParts DEF Begun
  <2>4. op'.sent <= op'.rows /\ op'.total <= op'.applied
    BY <2>2 DEF Begun
  <2>5. todo' \in Seq(Names) /\ undo' \in Seq(Names)
    BY <2>2 DEF Begun, Lists
  <2>6. /\ op' \in Operations
        /\ op'.kind \notin {"exec", "ping"} => op'.h \in Handles
        /\ op'.kind \notin {"ping", "closeRows"} => op'.q \in Queries
    BY <2>2 DEF Begun
  <2>7. /\ cfg' = cfg /\ ops' \in 0..MaxOps /\ valid' \in BOOLEAN /\ why' \in {None, "io", "ctx", "cancel"}
        /\ ctx' \in {"live", "done"} /\ err' \in {"none", "ctx", "bad", "sql"}
    BY <1>0, <2>2 DEF Begun, Flags
  <2> QED BY <2>3, <2>4, <2>5, <2>6, <2>7, <1>Typed
<1>2. CASE Steps
  <2>1. StepOutcome /\ Flags' /\ ops' = ops /\ cfg' = cfg
    BY <1>2, StepCases, <1>StepFlags
  <2>2. cli' \in CliType /\ srv' \in SrvType
    BY <2>1, <1>StepCli, <1>StepSrv
  <2>3. pkg' \in PackageType
    <3>1. pkg' = pkg \/ pkg' \in PackageType
      BY Zenon, <2>1 DEF StepOutcome, Stopped, Passed, PackageKnown, PackageLearned, PackageAsked, Prepared, PrepareRejected,
         SyncSkipped, Synced, NextDescriptorHandle, DescriptorChanged, OpenCursorName, Executed, ExecutedLob,
         ExecuteStopped, OpenedRows, OpenedKeys, OpenedNothing, OpenInterrupted, NextRows, data
    <3> QED BY <3>1, TypeParts
  <2>4. todo' \in Seq(Names) /\ undo' \in Seq(Names)
    BY <2>1, <1>StepLists
  <2>5. /\ op' \in Operations /\ op'.sent <= op'.rows /\ op'.total <= op'.applied
        /\ op'.kind \notin {"exec", "ping"} => op'.h \in Handles
        /\ op'.kind \notin {"ping", "closeRows"} => op'.q \in Queries
    BY <2>1, OpStep, OpFields
  <2>6. ops \in 0..MaxOps
    BY TypeParts
  <2> QED BY <2>1, <2>2, <2>3, <2>4, <2>5, <2>6, <1>Typed DEF Flags
<1>3. CASE Cleanup
  <2>1. UndoOutcome /\ Flags' /\ UNCHANGED <<ops, cfg, pkg>>
    BY <1>3, UndoCases, <1>UndoFlags
  <2>2. cli' \in CliType /\ srv' \in SrvType
    BY <2>1, <1>UndoTypes
  <2>3. /\ todo' \in Seq(Names) /\ undo' \in Seq(Names) /\ op' \in Operations /\ op'.sent <= op'.rows
        /\ op'.total <= op'.applied /\ op'.kind = op.kind /\ op'.q = op.q /\ op'.h = op.h /\ op # None
    <3>1. CASE RowsDone
      BY <3>1, RoundDone
    <3>2. CASE ~RowsDone
      <4>1. PICK x : Undo(x) /\ undo' = Tail(undo) /\ UNCHANGED <<op, todo, err>>
        BY <2>1, <3>2 DEF UndoOutcome, UndoDone, Popping
      <4>2. undo' \in Seq(Names) /\ op # None /\ todo' \in Seq(Names)
        BY <4>1, WentBack, TypeParts
      <4> QED BY <4>1, <4>2, OpType
    <3> QED BY <3>1, <3>2
  <2>4. op.kind \notin {"exec", "ping"} => op.h \in Handles
    BY <2>3, OpFields
  <2>5. op.kind \notin {"ping", "closeRows"} => op.q \in Queries
    BY <2>3, OpFields
  <2> QED BY <2>1, <2>2, <2>3, <2>4, <2>5, <1>Typed, TypeParts DEF Flags
<1>4. CASE Return
  <2>1. cli' \in CliType
    <3>1. CASE op.kind = "prepare" /\ err = "none"
      <4>1. op # None /\ op.h \in Handles /\ op.q \in Queries /\ op.name \in {"own", "package"}
        BY <1>4, <3>1, OpFields DEF Return
      <4>2. [q |-> op.q, h |-> op.h, name |-> op.name] \in StmtsOf
        BY <4>1 DEF StmtsOf
      <4>3. cli.stmts \cup {[q |-> op.q, h |-> op.h, name |-> op.name]} \in SUBSET StmtsOf
        BY <4>2, TypeParts DEF CliType
      <4> QED BY Zenon, <1>4, <3>1, <4>3, CliParts DEF Return
    <3>2. CASE ~(op.kind = "prepare" /\ err = "none")
      BY <1>4, <3>2, TypeParts DEF Return
    <3> QED BY <3>1, <3>2
  <2>2. /\ op' = None /\ Flags' /\ UNCHANGED <<ops, cfg, todo, undo, pkg, srv>>
    BY <1>0, <1>4 DEF Return, Flags
  <2> QED BY <2>1, <2>2, <1>Typed, TypeParts DEF Flags
<1>5. CASE Replace
  <2>1. NewConn \in CliType
    <3>1. 0 \in 0..MaxCursor /\ 0 \in 0..MaxDescriptor /\ 0 \in -1..1
      BY ExecAssumption
    <3> QED BY Zenon, <3>1 DEF NewConn, CliType
  <2>2. NewJob \in SrvType
    BY Zenon DEF NewJob, SrvType
  <2>3. NewPackageState(cfg) \in PackageType
    <3>1. cfg.extended \in BOOLEAN
      BY TypeParts, ExecAssumption
    <3> QED BY <3>1 DEF NewPackageState, PackageType
  <2>4. 0 \in 0..MaxOps
    BY ExecAssumption
  <2>5. <<>> \in Seq(Names)
    BY Nothing
  <2>6. /\ op' = None /\ todo' = <<>> /\ undo' = <<>> /\ cfg' = cfg /\ ops' = 0 /\ Flags'
        /\ cli' = NewConn /\ srv' = NewJob /\ pkg' = NewPackageState(cfg)
    BY <1>5 DEF Replace, Flags
  <2> QED BY <2>1, <2>2, <2>3, <2>4, <2>5, <2>6, <1>Typed DEF Flags
<1>6. CASE CtxEnds
  BY <1>6 DEF CtxEnds, data, TypeInv, TypeOK
<1>7. CASE UNCHANGED vars
  <2>1. UNCHANGED <<ops, cfg, valid, why, ctx, op, todo, undo, err, cli, pkg, srv>>
    BY <1>7 DEF vars
  <2>2. /\ todo' \in Seq(Names) /\ undo' \in Seq(Names) /\ pkg' \in PackageType /\ cli' \in CliType /\ srv' \in SrvType
    BY <2>1, TypeParts
  <2>3. TypeOK'
    BY <2>1 DEF TypeInv, TypeOK
  <2> QED BY <2>1, <2>2, <2>3 DEF TypeInv, PackageType, CliType, SrvType
<1> HIDE DEF TypeInv
<1> QED BY <1>1, <1>2, <1>3, <1>4, <1>5, <1>6, <1>7 DEF Next

-----------------------------------------------------------------------------
(* The rows of a batch.                                                    *)
LEMMA BatchBegins ==
  ASSUME BeginOutcome
  PROVE  BatchInv'
<1>1. ASSUME NEW kind, NEW q, NEW h, NEW name, Begun(kind, q, h, name), kind # "batch" PROVE BatchInv'
  BY <1>1 DEF Begun, BatchInv
<1>2. ASSUME NEW q, NEW h, NEW name, Begun("batch", q, h, name), q = "insertArgs",
             "rowsDone" \notin U', "nextRows" \in T', "execute" \notin T'
      PROVE  BatchInv'
  <2>1. /\ op'.q = "insertArgs" /\ op'.rows \in Nat \ {0} /\ op'.sent = 0 /\ op'.size = 1 /\ op'.total = 0
        /\ op'.applied = 0
    BY <1>2 DEF Begun
  <2>2. op'.sent < op'.rows /\ op'.size >= 1 /\ op'.applied <= op'.total + op'.size
    BY <2>1
  <2> QED BY <1>2, <2>1, <2>2 DEF BatchInv
<1>3. CASE BegunPlain
  BY <1>1, <1>3 DEF BegunPlain
<1>4. ASSUME NEW q, NEW h, BegunQuery(q, h) PROVE BatchInv'
  BY <1>1, <1>4 DEF BegunQuery
<1>5. ASSUME NEW q, NEW h, BegunPrepare(q, h) PROVE BatchInv'
  BY <1>1, <1>2, <1>5 DEF BegunPrepare
<1>6. ASSUME NEW s, BegunStmt(s) PROVE BatchInv'
  BY <1>1, <1>2, <1>6 DEF BegunStmt
<1>7. ASSUME NEW s, ClosingStmt(s) PROVE BatchInv'
  BY <1>1, <1>7 DEF ClosingStmt
<1>8. ASSUME NEW r, ClosingRows(r) PROVE BatchInv'
  BY <1>1, <1>8 DEF ClosingRows
<1> HIDE DEF BatchInv
<1> QED BY <1>3, <1>4, <1>5, <1>6, <1>7, <1>8 DEF BeginOutcome

(* Of the deferred calls of a batch, only NextRows adds rowsDone. *)
LEMMA BatchCalls ==
  ASSUME TypeInv, ControlInv, BatchInv, StepOutcome, op.kind = "batch", ~NextRows
  PROVE  U' \ {"deleteDescriptor"} = U \ {"deleteDescriptor"}
<1>0. op # None
  BY Going
<1>1. T \cap {"cursor", "open"} = {}
  BY <1>0, KindOf
<1>2. ~ExecutedLob
  <2>1. classifySQLStatement("insertArgs") = "insert"
    BY DEF classifySQLStatement
  <2> QED BY <1>0, <2>1 DEF ExecutedLob, BatchInv
<1>3. ~Step("cursor") /\ ~Step("open")
  BY <1>1, StepIn
<1>4. NextDescriptorHandle \/ undo' = undo
  BY Zenon, <1>2, <1>3 DEF StepOutcome, Stopped, Passed, PackageKnown, PackageAsked, Prepared, PrepareRejected, SyncSkipped,
     Synced, DescriptorChanged, OpenCursorName, Executed, ExecuteStopped, OpenedRows, OpenedKeys, OpenedNothing,
     OpenInterrupted, data
<1>5. CASE NextDescriptorHandle
  <2>1. undo' = <<"deleteDescriptor">> \o undo
    BY <1>5 DEF NextDescriptorHandle
  <2>2. "descriptor" \in T
    BY <1>5, StepIn DEF NextDescriptorHandle
  <2>3. \A b \in U : Follows("deleteDescriptor", b)
    <3>1. \A b \in U : UndoOf(op.kind, b) /\ b \notin {"deleteDescriptor", "freeLob", "undoOpen"}
      BY <1>0, <2>2, Belongs DEF ControlInv
    <3> QED BY <3>1 DEF Follows, UndoOf
  <2>4. "deleteDescriptor" \in Names
    BY DEF Names
  <2> QED BY <2>1, <2>3, <2>4, Deferring
<1> QED BY <1>4, <1>5 DEF U

LEMMA BatchGoes ==
  ASSUME TypeInv, ControlInv, BatchInv, NameInv, StepOutcome
  PROVE  BatchInv'
<1>0. op # None /\ op' # None /\ op \in Operations /\ op'.kind = op.kind /\ op'.q = op.q /\ op'.rows = op.rows
      /\ op'.sent = op.sent
  BY OpStep
<1> SUFFICES ASSUME op.kind = "batch" PROVE BatchInv'
  BY <1>0 DEF BatchInv
<1>1. /\ op.q = "insertArgs" /\ op.size >= 1 /\ op.applied <= op.total + op.size
      /\ "rowsDone" \in U => op.sent + op.size <= op.rows
      /\ "nextRows" \in T => op.sent < op.rows
      /\ err = "none" /\ "rowsDone" \in U =>
           /\ op.total = IF "execute" \in T THEN op.sent ELSE op.sent + op.size
           /\ op.applied = op.total
      /\ err = "none" /\ "rowsDone" \notin U =>
           /\ op.total = op.sent /\ op.applied = op.sent
           /\ "execute" \notin T
           /\ "nextRows" \in T \/ op.sent = op.rows
  BY <1>0 DEF BatchInv
<1>2. op.rows \in Nat /\ op.sent \in Nat /\ op.size \in Nat /\ op.total \in Nat /\ op.applied \in Nat
  BY <1>0 DEF Operations
<1>3. CASE NextRows
  <2>1. PICK n \in 1..(op.rows - op.sent) : op' = [op EXCEPT !.size = n]
    BY <1>3 DEF NextRows
  <2>2. Step("nextRows") /\ undo' = <<"rowsDone">> \o undo /\ err' = err
    BY <1>3 DEF NextRows
  <2>3. "nextRows" \in T /\ U \subseteq {"closeStatement"} /\ err = "none"
    BY <1>0, <2>2, StepIn DEF ControlInv
  <2>4. \A b \in U : Follows("rowsDone", b)
    BY <2>3 DEF Follows
  <2>5. "rowsDone" \in Names
    BY DEF Names
  <2>6. U' = {"rowsDone"} \cup U
    BY <2>2, <2>4, <2>5, Deferring
  <2>7. "execute" \in T' /\ "nextRows" \notin T'
    BY <1>3, NextList
  <2>8. op'.size = n /\ op'.total = op.total /\ op'.applied = op.applied
    BY <1>0, <2>1 DEF Operations
  <2>9. n >= 1 /\ op.sent + n <= op.rows /\ op.applied <= op.total + n /\ op.total = op.sent /\ op.applied = op.sent
    BY <1>1, <1>2, <2>3
  <2> QED BY <1>0, <1>1, <2>2, <2>3, <2>6, <2>7, <2>8, <2>9 DEF BatchInv
<1>4. CASE Executed
  <2>1. Step("execute") /\ Continue /\ undo' = undo /\ op' = [op EXCEPT !.applied = @ + op.size, !.total = @ + op.size]
    BY <1>4 DEF Executed, Ran
  <2>2. "execute" \in T /\ err = "none" /\ err' = err /\ U' = U
    BY <1>0, <2>1, StepIn DEF ControlInv, Continue, U
  <2>3. T = {"execute"} \cup T' /\ \A b \in T' : Follows("execute", b)
    BY <2>1, Went
  <2>4. T' = {}
    BY <2>3 DEF Follows
  <2>5. op'.size = op.size /\ op'.total = op.total + op.size /\ op'.applied = op.applied + op.size
    BY <1>0, <2>1 DEF Operations
  <2>6. "rowsDone" \in U
    BY <1>1, <2>2
  <2>7. op'.applied <= op'.total + op'.size /\ op'.total = op.sent + op.size /\ op'.applied = op.sent + op.size
    BY <1>1, <1>2, <2>2, <2>5, <2>6
  <2> QED BY <1>0, <1>1, <2>2, <2>4, <2>5, <2>6, <2>7 DEF BatchInv
<1>5. ASSUME NEW n \in Nat, NEW k \in Nat, ExecuteStopped(n, k) PROVE BatchInv'
  <2>1. /\ Step("execute") /\ Stops /\ undo' = undo /\ op' = [op EXCEPT !.applied = @ + n, !.total = @ + k]
        /\ n <= op.size
    BY <1>5 DEF ExecuteStopped, Ran
  <2>2. "execute" \in T /\ err = "none" /\ U' = U
    BY <1>0, <2>1, StepIn DEF ControlInv, U
  <2>3. T' \subseteq {"message"} /\ err' # "none"
    BY <2>1, StopsAt
  <2>4. op'.size = op.size /\ op'.total = op.total + k /\ op'.applied = op.applied + n
    BY <1>0, <2>1 DEF Operations
  <2>5. op.applied = op.total
    BY <1>1, <2>2
  <2>6. op'.applied <= op'.total + op'.size
    BY <1>2, <2>1, <2>4, <2>5
  <2> QED BY <1>0, <1>1, <2>2, <2>3, <2>4, <2>6 DEF BatchInv
<1>6. ASSUME ~NextRows, ~Executed, ~\E n, k \in Nat : ExecuteStopped(n, k) PROVE BatchInv'
  <2>1. "rowsDone" \in U' <=> "rowsDone" \in U
    BY <1>6, BatchCalls
  <2>2. Head(todo) = "execute" => Stopped
    <3>1. ~ExecutedLob
      <4>1. classifySQLStatement("insertArgs") = "insert"
        BY DEF classifySQLStatement
      <4> QED BY <1>1, <4>1 DEF ExecutedLob
    <3> QED BY Zenon, <1>6, <3>1
        DEF StepOutcome, Passed, PackageKnown, PackageAsked, Prepared, PrepareRejected, SyncSkipped,
        Synced, NextDescriptorHandle, DescriptorChanged, OpenCursorName, OpenedRows, OpenedKeys, OpenedNothing,
        OpenInterrupted, Step, Quiet
  <2>3. Head(todo) = "nextRows" => Stopped
    BY Zenon, <1>6
    DEF StepOutcome, Passed, PackageKnown, PackageAsked, Prepared, PrepareRejected, SyncSkipped,
        Synced, NextDescriptorHandle, DescriptorChanged, OpenCursorName, OpenedRows, OpenedKeys, OpenedNothing,
        OpenInterrupted, ExecutedLob, Step, Quiet
  <2>4. op'.size = op.size /\ op'.total = op.total /\ op'.applied = op.applied
    <3>1. CASE Stopped
      BY <3>1 DEF Stopped
    <3>2. CASE ~Stopped
      BY <2>2, <2>3, <3>2, OpStep
    <3> QED BY <3>1, <3>2
  <2>5. CASE err' # "none"
    <3>1. "nextRows" \in T' => "nextRows" \in T
      <4>1. ~NextRows
        BY <1>6
      <4> QED BY <4>1, NextSteps
    <3> QED BY <1>0, <1>1, <2>1, <2>4, <2>5, <3>1 DEF BatchInv
  <2>6. CASE err' = "none"
    <3>1. ~Stopped /\ ~ExecutedLob
      <4>1. classifySQLStatement("insertArgs") = "insert"
        BY DEF classifySQLStatement
      <4> QED BY <1>1, <2>6, <4>1, StopsAt DEF Stopped, ExecutedLob
    <3>2. Head(todo) # "execute" /\ Head(todo) # "nextRows"
      BY <2>2, <2>3, <3>1
    <3>3. err' = err /\ ("nextRows" \in T' <=> "nextRows" \in T) /\ ("execute" \in T' <=> "execute" \in T)
      BY Zenon, <1>6, <2>6, <3>1, <3>2, NextSteps DEF PackageAsked, Continue
    <3> QED BY <1>0, <1>1, <2>1, <2>4, <3>3 DEF BatchInv
  <2> QED BY <2>5, <2>6
<1> QED BY <1>3, <1>4, <1>5, <1>6

LEMMA BatchStep ==
  ASSUME TypeInv, ControlInv, BatchInv, NameInv, PackageInv, [Next]_vars
  PROVE  BatchInv'
<1>1. CASE Begin
  BY <1>1, BeginCases, BatchBegins
<1>2. CASE Steps
  BY <1>2, StepCases, BatchGoes
<1>3. CASE Cleanup
  <2>1. CASE RowsDone
    <3>1. /\ op # None /\ op.kind = "batch" /\ T = {} /\ err' = err /\ op' # None /\ op \in Operations
          /\ op'.sent <= op'.rows
          /\ op'.kind = op.kind /\ op'.q = op.q /\ op'.rows = op.rows /\ op'.size = op.size /\ op'.total = op.total
          /\ op'.applied = op.applied /\ op'.sent = IF err = "none" THEN op.sent + op.size ELSE op.sent
          /\ T' = IF err = "none" /\ op'.sent < op'.rows THEN {"nextRows"} ELSE {}
          /\ U = {"rowsDone"} \cup U' /\ U' \subseteq {"closeStatement"}
      BY <2>1, RoundDone, OpType
    <3>2. op.rows \in Nat /\ op.sent \in Nat /\ op.size \in Nat /\ op'.sent \in Nat
      BY <3>1 DEF Operations
    <3>3. "rowsDone" \notin U'
      BY <3>1
    <3>4. CASE err = "none"
      <4>1. op.total = op.sent + op.size /\ op.applied = op.sent + op.size
        BY <3>1, <3>4 DEF BatchInv
      <4>2. "nextRows" \in T' \/ op'.sent = op'.rows
        BY <3>1, <3>2, <3>4
      <4> QED BY <3>1, <3>3, <3>4, <4>1, <4>2 DEF BatchInv
    <3>5. CASE err # "none"
      BY <3>1, <3>3, <3>5 DEF BatchInv
    <3> QED BY <3>4, <3>5
  <2>2. CASE ~RowsDone
    <3>1. PICK x : x # "rowsDone" /\ Undo(x) /\ undo' = Tail(undo) /\ UNCHANGED <<op, todo, err>>
      BY <1>3, <2>2, UndoCases DEF UndoOutcome, UndoDone, Popping
    <3>2. U = {x} \cup U' /\ T' = T
      BY <3>1, WentBack DEF T
    <3> QED BY <3>1, <3>2 DEF BatchInv
  <2> QED BY <2>1, <2>2
<1>4. CASE Return \/ Replace
  BY <1>4 DEF Return, Replace, BatchInv
<1>5. CASE CtxEnds \/ UNCHANGED vars
  BY <1>5 DEF CtxEnds, vars, data, BatchInv, T, U
<1> HIDE DEF BatchInv
<1> QED BY <1>1, <1>2, <1>3, <1>4, <1>5 DEF Next
=============================================================================
