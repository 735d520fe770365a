--------------------------- MODULE StatementCache ---------------------------
(***************************************************************************)
(* Prepared statements of one Conn: statement ids (RPB handles), the LRU   *)
(* cache of statements for ExecContext and QueryContext with arguments,    *)
(* and the RPBs that the server keeps under the ids.                       *)
(*                                                                         *)
(* An operation is one ExecContext or QueryContext: it looks its query up, *)
(* prepares a statement when it misses, uses the statement (until          *)
(* execPrepared returns, or until the rows are closed) and releases it.    *)
(* Operations interleave: rows stay open while other operations run, and   *)
(* eviction closes statements in goroutines of their own.  A statement is  *)
(* named after the operation that prepared it.                             *)
(***************************************************************************)
EXTENDS Naturals, Sequences, FiniteSets, FiniteSetsExt, Functions

CONSTANTS
  Ops,        \* operations, each performed once
  Queries,    \* SQL texts
  MaxHandle,  \* maxStatements - 1, the largest statement id
  CacheSizes, \* values of cfg.StatementCacheSize
  NoStmt      \* the nil *cachedStatement

ASSUME CacheAssumption ==
  /\ IsFiniteSet(Ops)
  /\ NoStmt \notin Ops
  /\ MaxHandle \in Nat \ {0}
  /\ CacheSizes \subseteq Nat

Handles == 1..MaxHandle

VARIABLES
  pc,       \* where each operation is
  query,    \* its SQL text
  stmt,     \* the statement it uses
  handle,   \* statementHandle of each statement, 0 before it has one
  refs,     \* cachedStatement.refs
  evicted,  \* cachedStatement.evicted
  phase,    \* "none", "live", "closing", "deleted", "freed"
  cache,    \* statementCache: the statement cached for a query
  order,    \* statementCacheOrder, least recently used first
  used,     \* usedStatementHandles
  rpb,      \* server: the SQL prepared in the RPB of a handle, NoStmt if none
  valid,    \* Conn.IsValid()
  cacheSize \* cfg.StatementCacheSize; 0 makes every statement transient

vars == <<pc, query, stmt, handle, refs, evicted, phase, cache, order, used,
          rpb, valid, cacheSize>>

TypeOK ==
  /\ pc \in [Ops -> {"idle", "name", "prepare", "insert", "dup", "use",
                     "done", "failed"}]
  /\ query \in [Ops -> Queries]
  /\ stmt \in [Ops -> Ops \cup {NoStmt}]
  /\ handle \in [Ops -> Handles \cup {0}]
  /\ refs \in [Ops -> Nat]
  /\ evicted \in [Ops -> BOOLEAN]
  /\ phase \in [Ops -> {"none", "live", "closing", "deleted", "freed"}]
  /\ cache \in [Queries -> Ops \cup {NoStmt}]
  /\ order \in Seq(Queries)
  /\ used \subseteq Handles
  /\ rpb \in [Handles -> Queries \cup {NoStmt}]
  /\ valid \in BOOLEAN
  /\ cacheSize \in CacheSizes

Init ==
  /\ pc = [o \in Ops |-> "idle"]
  /\ query \in [Ops -> Queries]
  /\ stmt = [o \in Ops |-> NoStmt]
  /\ handle = [o \in Ops |-> 0]
  /\ refs = [o \in Ops |-> 0]
  /\ evicted = [o \in Ops |-> FALSE]
  /\ phase = [o \in Ops |-> "none"]
  /\ cache = [q \in Queries |-> NoStmt]
  /\ order = <<>>
  /\ used = {}
  /\ rpb = [h \in Handles |-> NoStmt]
  /\ valid = TRUE
  /\ cacheSize \in CacheSizes

Cached == {q \in Queries : cache[q] # NoStmt}

Goto(o, l) == pc' = [pc EXCEPT ![o] = l]

-----------------------------------------------------------------------------
(* The order with query q, where it lists it, moved to the end.            *)
MoveToEnd(s, q) ==
  LET i == Min({j \in DOMAIN s : s[j] = q})
  IN  Append(IF q \in Range(s) THEN SubSeq(s, 1, i - 1) \o SubSeq(s, i + 1, Len(s)) ELSE s, q)

(* Mutant: a hit does not count its user. *)
Lookup_NoReference(o) ==
  /\ pc[o] = "idle"
  /\ LET s == cache[query[o]]
     IN  IF s # NoStmt
         THEN /\ UNCHANGED refs
              /\ order' = MoveToEnd(order, query[o])
              /\ stmt' = [stmt EXCEPT ![o] = s]
              /\ Goto(o, "use")
         ELSE Goto(o, "name") /\ UNCHANGED <<refs, order, stmt>>
  /\ UNCHANGED <<query, handle, evicted, phase, cache, used, rpb,
                 valid, cacheSize>>

(* Mutant: a hit is appended to the order and not moved. *)
Lookup_NoRemove(o) ==
  /\ pc[o] = "idle"
  /\ LET s == cache[query[o]]
     IN  IF s # NoStmt
         THEN /\ refs' = [refs EXCEPT ![s] = @ + 1]
              /\ order' = Append(order, query[o])
              /\ stmt' = [stmt EXCEPT ![o] = s]
              /\ Goto(o, "use")
         ELSE Goto(o, "name") /\ UNCHANGED <<refs, order, stmt>>
  /\ UNCHANGED <<query, handle, evicted, phase, cache, used, rpb,
                 valid, cacheSize>>

(* First lock of cachedPreparedStatement: a hit takes a reference and moves *)
(* the query to the end of the order.  Without a cache nothing is looked up.*)
Lookup(o) ==
  /\ pc[o] = "idle"
  /\ LET s == cache[query[o]]
     IN  IF s # NoStmt
         THEN /\ refs' = [refs EXCEPT ![s] = @ + 1]
              /\ order' = MoveToEnd(order, query[o])
              /\ stmt' = [stmt EXCEPT ![o] = s]
              /\ Goto(o, "use")
         ELSE Goto(o, "name") /\ UNCHANGED <<refs, order, stmt>>
  /\ UNCHANGED <<query, handle, evicted, phase, cache, used, rpb,
                 valid, cacheSize>>

(* Mutant: ids start at 0. *)
NextStatementName_FromZero(o) ==
  /\ pc[o] = "name"
  /\ IF used # Handles
     THEN /\ handle' = [handle EXCEPT ![o] = Min((Handles \cup {0}) \ used)]
          /\ used' = used \cup {Min((Handles \cup {0}) \ used)}
          /\ phase' = [phase EXCEPT ![o] = "live"]
          /\ Goto(o, "prepare")
     ELSE Goto(o, "failed") /\ UNCHANGED <<handle, used, phase>>
  /\ UNCHANGED <<query, stmt, refs, evicted, cache, order, rpb,
                 valid, cacheSize>>

(* Mutant: the id of a statement that is being closed counts as free. *)
NextStatementName_ReusesClosing(o) ==
  /\ pc[o] = "name"
  /\ IF used # Handles
     THEN /\ LET live == {handle[s] : s \in {t \in Ops : phase[t] = "live"}}
                 free == Min(Handles \ live)
             IN  /\ handle' = [handle EXCEPT ![o] = free]
                 /\ used' = used \cup {free}
          /\ phase' = [phase EXCEPT ![o] = "live"]
          /\ Goto(o, "prepare")
     ELSE Goto(o, "failed") /\ UNCHANGED <<handle, used, phase>>
  /\ UNCHANGED <<query, stmt, refs, evicted, cache, order, rpb,
                 valid, cacheSize>>

(* nextStatementName: the lowest unused id, or errMaxStatementsExceeded.   *)
NextStatementName(o) ==
  /\ pc[o] = "name"
  /\ IF used # Handles
     THEN /\ handle' = [handle EXCEPT ![o] = Min(Handles \ used)]
          /\ used' = used \cup {Min(Handles \ used)}
          /\ phase' = [phase EXCEPT ![o] = "live"]
          /\ Goto(o, "prepare")
     ELSE Goto(o, "failed") /\ UNCHANGED <<handle, used, phase>>
  /\ UNCHANGED <<query, stmt, refs, evicted, cache, order, rpb,
                 valid, cacheSize>>

(* prepareAndDescribe: Create RPB and Prepare.  The RPB exists whether or  *)
(* not the server accepts the statement; discardStatement closes it when   *)
(* the prepare fails.                                                      *)
Prepare(o) ==
  /\ pc[o] = "prepare"
  /\ rpb' = IF valid THEN [rpb EXCEPT ![handle[o]] = query[o]] ELSE rpb
  /\ \/ valid /\ Goto(o, "insert") /\ UNCHANGED phase
     \/ Goto(o, "failed") /\ phase' = [phase EXCEPT ![o] = "closing"]
  /\ UNCHANGED <<query, stmt, handle, refs, evicted, cache, order, used,
                 valid, cacheSize>>

(* Mutant: the evicted statement is closed at once. *)
Insert_ClosesUsed(o) ==
  /\ pc[o] = "insert"
  /\ cacheSize > 0
  /\ LET q        == query[o]
         existing == cache[q]
         full     == Cardinality(Cached) >= cacheSize
         victim   == cache[Head(order)]
     IN  IF existing # NoStmt
         THEN /\ refs' = [refs EXCEPT ![existing] = @ + 1]
              /\ stmt' = [stmt EXCEPT ![o] = existing]
              /\ phase' = [phase EXCEPT ![o] = "closing"]
              /\ Goto(o, "dup")
              /\ UNCHANGED <<cache, order, evicted>>
         ELSE /\ refs' = [refs EXCEPT ![o] = 1]
              /\ stmt' = [stmt EXCEPT ![o] = o]
              /\ Goto(o, "use")
              /\ IF full
                 THEN /\ evicted' = [evicted EXCEPT ![victim] = TRUE]
                      /\ phase' = [phase EXCEPT ![victim] =
                                     "closing"]
                      /\ cache' = [cache EXCEPT ![Head(order)] = NoStmt,
                                                ![q] = o]
                      /\ order' = Append(Tail(order), q)
                 ELSE /\ cache' = [cache EXCEPT ![q] = o]
                      /\ order' = Append(order, q)
                      /\ UNCHANGED <<evicted, phase>>
  /\ UNCHANGED <<query, handle, used, rpb, valid, cacheSize>>

(* Second lock of cachedPreparedStatement.  Another operation may have     *)
(* cached the query meanwhile: close this one and use that one.  Else the  *)
(* least recently used entry makes room; when nobody uses it a goroutine   *)
(* closes it.                                                              *)
Insert(o) ==
  /\ pc[o] = "insert"
  /\ cacheSize > 0
  /\ LET q        == query[o]
         existing == cache[q]
         full     == Cardinality(Cached) >= cacheSize
         victim   == cache[Head(order)]
     IN  IF existing # NoStmt
         THEN /\ refs' = [refs EXCEPT ![existing] = @ + 1]
              /\ stmt' = [stmt EXCEPT ![o] = existing]
              /\ phase' = [phase EXCEPT ![o] = "closing"]
              /\ Goto(o, "dup")
              /\ UNCHANGED <<cache, order, evicted>>
         ELSE /\ refs' = [refs EXCEPT ![o] = 1]
              /\ stmt' = [stmt EXCEPT ![o] = o]
              /\ Goto(o, "use")
              /\ IF full
                 THEN /\ evicted' = [evicted EXCEPT ![victim] = TRUE]
                      /\ phase' = [phase EXCEPT ![victim] =
                                     IF refs[victim] = 0 THEN "closing" ELSE @]
                      /\ cache' = [cache EXCEPT ![Head(order)] = NoStmt,
                                                ![q] = o]
                      /\ order' = Append(Tail(order), q)
                 ELSE /\ cache' = [cache EXCEPT ![q] = o]
                      /\ order' = Append(order, q)
                      /\ UNCHANGED <<evicted, phase>>
  /\ UNCHANGED <<query, handle, used, rpb, valid, cacheSize>>

(* The duplicate is closed, the cached statement is returned.              *)
UseExisting(o) ==
  /\ pc[o] = "dup"
  /\ phase[o] = "freed"
  /\ Goto(o, "use")
  /\ UNCHANGED <<query, stmt, handle, refs, evicted, phase, cache, order, used,
                 rpb, valid, cacheSize>>

(* execPreparedTransient and queryPreparedTransient own their statement.   *)
UseTransient(o) ==
  /\ pc[o] = "insert"
  /\ cacheSize = 0
  /\ stmt' = [stmt EXCEPT ![o] = o]
  /\ Goto(o, "use")
  /\ UNCHANGED <<query, handle, refs, evicted, phase, cache, order, used, rpb,
                 valid, cacheSize>>

(* Mutant: the last user does not close an evicted statement. *)
ReleaseCachedStatement_IgnoresEvicted(o) ==
  /\ pc[o] = "use"
  /\ cacheSize > 0
  /\ LET s    == stmt[o]
         left == IF refs[s] > 0 THEN refs[s] - 1 ELSE 0
     IN  /\ refs' = [refs EXCEPT ![s] = left]
         /\ phase' = [phase EXCEPT ![s] = @]
  /\ Goto(o, "done")
  /\ UNCHANGED <<query, stmt, handle, evicted, cache, order, used, rpb,
                 valid, cacheSize>>

(* The end of a use.  releaseCachedStatement drops the reference; the last *)
(* user of an evicted statement closes it.                                 *)
ReleaseCachedStatement(o) ==
  /\ pc[o] = "use"
  /\ cacheSize > 0
  /\ LET s    == stmt[o]
         left == IF refs[s] > 0 THEN refs[s] - 1 ELSE 0
     IN  /\ refs' = [refs EXCEPT ![s] = left]
         /\ phase' = [phase EXCEPT ![s] = IF evicted[s] /\ left = 0
                                          THEN "closing" ELSE @]
  /\ Goto(o, "done")
  /\ UNCHANGED <<query, stmt, handle, evicted, cache, order, used, rpb,
                 valid, cacheSize>>

CloseTransient(o) ==
  /\ pc[o] = "use"
  /\ cacheSize = 0
  /\ phase' = [phase EXCEPT ![stmt[o]] = "closing"]
  /\ Goto(o, "done")
  /\ UNCHANGED <<query, stmt, handle, refs, evicted, cache, order, used, rpb,
                 valid, cacheSize>>

(* closePreparedStatement: delete the RPB on the server, if the connection *)
(* still works ...                                                         *)
DeleteRPB(s) ==
  /\ phase[s] = "closing"
  /\ phase' = [phase EXCEPT ![s] = "deleted"]
  /\ rpb' = IF valid THEN [rpb EXCEPT ![handle[s]] = NoStmt] ELSE rpb
  /\ UNCHANGED <<pc, query, stmt, handle, refs, evicted, cache, order, used,
                 valid, cacheSize>>

(* Mutant: a lost connection skips the release. *)
ReleaseStatementHandle_OnlyIfValid(s) ==
  /\ phase[s] = "deleted"
  /\ phase' = [phase EXCEPT ![s] = "freed"]
  /\ used' = IF valid THEN used \ {handle[s]} ELSE used
  /\ UNCHANGED <<pc, query, stmt, handle, refs, evicted, cache, order, rpb,
                 valid, cacheSize>>

(* ... and release the id, whether or not the delete succeeded.            *)
ReleaseStatementHandle(s) ==
  /\ phase[s] = "deleted"
  /\ phase' = [phase EXCEPT ![s] = "freed"]
  /\ used' = used \ {handle[s]}
  /\ UNCHANGED <<pc, query, stmt, handle, refs, evicted, cache, order, rpb,
                 valid, cacheSize>>

(* The connection is invalidated; the server job ends with its RPBs.       *)
ConnLost ==
  /\ valid
  /\ valid' = FALSE
  /\ UNCHANGED <<pc, query, stmt, handle, refs, evicted, phase, cache, order,
                 used, rpb, cacheSize>>

(* Conn.Close drops the cache without closing its statements.  Through     *)
(* database/sql it never runs inside an operation, but rows may be open.   *)
Close ==
  /\ valid
  /\ \A o \in Ops : pc[o] \in {"idle", "use", "done", "failed"}
  /\ valid' = FALSE
  /\ cache' = [q \in Queries |-> NoStmt]
  /\ order' = <<>>
  /\ UNCHANGED <<pc, query, stmt, handle, refs, evicted, phase, used, rpb,
                 cacheSize>>

Operation(o) ==
  \/ Lookup(o) \/ NextStatementName(o) \/ Prepare(o) \/ Insert(o)
  \/ UseExisting(o) \/ ReleaseCachedStatement(o)
  \/ UseTransient(o) \/ CloseTransient(o)

ClosePreparedStatement(s) == DeleteRPB(s) \/ ReleaseStatementHandle(s)

Quiescent ==
  /\ \A o \in Ops : /\ pc[o] \in {"done", "failed"}
                    /\ phase[o] \notin {"closing", "deleted"}
  /\ UNCHANGED vars

Next ==
  \/ \E o \in Ops : Operation(o) \/ ClosePreparedStatement(o)
  \/ ConnLost
  \/ Close
  \/ Quiescent

Spec == Init /\ [][Next]_vars

(* Callers finish their operations and close their rows; goroutines run.   *)
Fairness == \A o \in Ops : WF_vars(Operation(o)) /\ WF_vars(ClosePreparedStatement(o))

LiveSpec == Spec /\ Fairness

-----------------------------------------------------------------------------
(* Statements that hold an id, and the users of a statement.               *)
Open == {s \in Ops : phase[s] \in {"live", "closing", "deleted"}}

Users(s) == {o \in Ops : pc[o] \in {"dup", "use"} /\ stmt[o] = s}

(* sql.go nextStatementName and releaseStatementHandle: an id is used      *)
(* exactly while one open statement has it, so no id is lost and none is   *)
(* given out twice.                                                        *)
HandleOwnership ==
  /\ used = {handle[s] : s \in Open}
  /\ \A s, t \in Open : handle[s] = handle[t] => s = t

(* driver.go refs and evicted: while an operation uses a statement, the    *)
(* server's RPB under its id holds the SQL of that operation.  Eviction,   *)
(* the release of the last user, a lost prepare race and the reuse of ids  *)
(* never take a statement away from a user.                                *)
UsesOwnStatement ==
  valid => \A o \in Ops : pc[o] = "use" => rpb[handle[stmt[o]]] = query[o]

(* driver.go statementCache, statementCacheOrder and refs stay three views *)
(* of one thing: the order lists every cached query once, at most          *)
(* cacheSize, a cached statement is open and not evicted, the counter is   *)
(* the number of operations that use the statement, and a statement that   *)
(* is neither cached nor used is on its way to be closed.  (With the types *)
(* of all variables.)                                                      *)
CacheConsistent ==
  /\ TypeOK
  /\ IsInjective(order)
  /\ Range(order) = Cached
  /\ Len(order) <= cacheSize
  /\ \A q \in Cached : /\ query[cache[q]] = q
                       /\ phase[cache[q]] = "live"
                       /\ ~evicted[cache[q]]
  /\ \A s \in Ops :
       /\ cacheSize > 0 => refs[s] = Cardinality(Users(s))
       /\ valid /\ phase[s] = "live" => \/ s \in {cache[q] : q \in Queries}
                                        \/ Users(s) # {}
                                        \/ pc[s] \in {"prepare", "insert"}

(* driver.go: an evicted statement is closed and its id comes back, once   *)
(* the users it had are done.                                              *)
EvictedIsClosed == \A s \in Ops : evicted[s] ~> phase[s] = "freed"
=============================================================================
