------------------------------ MODULE HostConn ------------------------------
(***************************************************************************)
(* The request layer of one Conn: how the calls of the driver share the    *)
(* single socket to the database host server.                              *)
(*                                                                         *)
(* A call is one invocation of doRequest ("plain"), doStatementRequest on  *)
(* a connection that can cancel natively ("stmt"), sendRequestNoReply or   *)
(* sendWithoutReply ("noreply"), or Conn.Close ("close").  opMu serialises *)
(* the calls; replies carry no identifier, so a reply belongs to a request *)
(* only by its position in the stream.  Beside the calls run the goroutine *)
(* of context.AfterFunc, the watcher that sends the native cancel on a     *)
(* second connection, the server job, and time.                            *)
(***************************************************************************)
EXTENDS Naturals, Sequences, FiniteSets

CONSTANTS
  Calls,       \* every call made on the connection, each made once
  Background,  \* the calls of eviction goroutines: doRequest(Background())
  NoCall,      \* the value of opMu and running when nobody has them
  Kinds,       \* which kinds of foreground calls are made
  CtxKinds,    \* which kinds of contexts they are given
  Pool         \* TRUE: foreground calls come through database/sql, which
               \* holds the driverConn lock, so one at a time

ASSUME CallAssumption ==
  /\ NoCall \notin Calls
  /\ Background \subseteq Calls
  /\ Kinds \subseteq {"plain", "stmt", "noreply", "close"}
  /\ CtxKinds \subseteq {"background", "cancel", "timeout"}
  /\ Pool \in BOOLEAN

VARIABLES
  pc,        \* where each call is
  kind,      \* the kind of each call
  ctxKind,   \* "background", "cancel" (no deadline) or "timeout"
  ctx,       \* state of the call's context, see CtxStates
  result,    \* what the call returned
  got,       \* whose reply the call read
  after,     \* the AfterFunc of a doRequest call
  watch,     \* the watcher goroutine of a doStatementRequest call
  opMu,      \* the call that holds Conn.opMu
  closed,    \* Conn.closed (netConn is nil exactly when it is TRUE)
  sock,      \* the net.Conn: "open" or "closed"
  deadline,  \* I/O deadline of the socket, see Deadlines
  queue,     \* requests written and not yet taken by the server job
  running,   \* the request the server job executes
  replies,   \* replies written by the server and not yet read
  served,    \* requests the server has started to execute
  interrupted, \* requests a native cancel hit while they ran
  fault,     \* "none", "garbled" (a malformed reply) or "down"
  stale      \* an AfterFunc moved the deadline after its call returned

connVars == <<opMu, closed, sock, deadline>>
serverVars == <<queue, running, replies, served, interrupted, fault>>
callVars == <<pc, kind, ctxKind, result, got>>
vars == <<callVars, ctx, after, watch, connVars, serverVars, stale>>

-----------------------------------------------------------------------------
(* "expired": the deadline has passed but ctx.Err() is still nil. *)
CtxStates == {"live", "expired", "deadline", "canceled"}

(* "ctx": the deadline of the context of the call that holds opMu.         *)
(* "grace": nativeCancelGracePeriod from when the cancel was accepted.     *)
(* "past": SetDeadline(time.Now()), every later read and write fails.      *)
Deadlines == {"none", "ctx", "grace", "past"}

Results == {"none", "ok", "ctxErr", "ErrBadConn", "protocolErr"}

TypeOK ==
  /\ pc \in [Calls -> {"idle", "enter", "lock", "write", "read", "done"}]
  /\ kind \in [Calls -> {"plain", "stmt", "noreply", "close"}]
  /\ ctxKind \in [Calls -> {"background", "cancel", "timeout"}]
  /\ ctx \in [Calls -> CtxStates]
  /\ result \in [Calls -> Results]
  /\ got \in [Calls -> Calls \cup {NoCall}]
  /\ after \in [Calls -> {"off", "armed", "started"}]
  /\ watch \in [Calls -> {"off", "select", "dial", "sent", "accepted", "failed"}]
  /\ opMu \in Calls \cup {NoCall}
  /\ closed \in BOOLEAN
  /\ sock \in {"open", "closed"}
  /\ deadline \in Deadlines
  /\ queue \in Seq(Calls)
  /\ running \in Calls \cup {NoCall}
  /\ replies \in Seq(Calls)
  /\ served \subseteq Calls
  /\ interrupted \subseteq Calls
  /\ fault \in {"none", "garbled", "down"}
  /\ stale \in BOOLEAN

Init ==
  /\ pc = [c \in Calls |-> "idle"]
  /\ kind = [c \in Calls |-> "plain"]
  /\ ctxKind = [c \in Calls |-> "background"]
  /\ ctx = [c \in Calls |-> "live"]
  /\ result = [c \in Calls |-> "none"]
  /\ got = [c \in Calls |-> NoCall]
  /\ after = [c \in Calls |-> "off"]
  /\ watch = [c \in Calls |-> "off"]
  /\ opMu = NoCall
  /\ closed = FALSE
  /\ sock = "open"
  /\ deadline = "none"
  /\ queue = <<>>
  /\ running = NoCall
  /\ replies = <<>>
  /\ served = {}
  /\ interrupted = {}
  /\ fault = "none"
  /\ stale = FALSE

-----------------------------------------------------------------------------
(* ctx.Err() # nil *)
CtxErr(c) == ctx[c] \in {"deadline", "canceled"}

(* ctxIOError(ctx) # nil: a passed deadline counts before ctx.Err() tells. *)
ctxIOError(c) == ctx[c] # "live"

Active(c) == pc[c] \notin {"idle", "done"}

(* Mutant: only the flag is set. *)
invalidateConnection_KeepsSocket ==
  /\ closed' = TRUE
  /\ UNCHANGED sock

(* closed and netConn change together, so a socket that a pending Close has *)
(* already taken from the Conn is not closed here.                          *)
invalidateConnection ==
  /\ closed' = TRUE
  /\ sock' = IF closed THEN sock ELSE "closed"

Return(c, r) ==
  /\ pc' = [pc EXCEPT ![c] = "done"]
  /\ result' = [result EXCEPT ![c] = r]

(* The deferred calls of doRequestWithPreamble, in their order: the stop   *)
(* function of AfterFunc, which does not wait for a started goroutine,     *)
(* clearConnDeadline, opMu.Unlock.  In doStatementRequest finished is set  *)
(* before them; pc # "write", "read" stands for finished.                  *)
Unlock(c) ==
  /\ after' = [after EXCEPT ![c] = IF @ = "armed" THEN "off" ELSE @]
  /\ deadline' = "none"
  /\ opMu' = NoCall

-----------------------------------------------------------------------------
(* A caller starts a call.  database/sql admits one foreground call at a   *)
(* time; eviction goroutines are not under its lock.                       *)
Begin(c) ==
  /\ pc[c] = "idle"
  /\ \/ c \in Background
     \/ ~Pool
     \/ \A d \in Calls \ Background : ~Active(d)
  /\ \E k \in IF c \in Background THEN {"plain"} ELSE Kinds,
        x \in IF c \in Background THEN {"background"} ELSE CtxKinds :
       /\ kind' = [kind EXCEPT ![c] = k]
       /\ ctxKind' = [ctxKind EXCEPT ![c] = x]
  /\ pc' = [pc EXCEPT ![c] = "enter"]
  /\ UNCHANGED <<ctx, result, got, after, watch, connVars, serverVars, stale>>

(* The checks before opMu: a finished context invalidates the connection   *)
(* in doRequest and the no-reply senders, and only returns in              *)
(* doStatementRequest; then closed and netConn are read under mu.          *)
Enter(c) ==
  /\ pc[c] = "enter"
  /\ kind[c] # "close"
  /\ \/ /\ CtxErr(c)
        /\ Return(c, "ctxErr")
        /\ IF kind[c] = "stmt" THEN UNCHANGED <<closed, sock>>
                               ELSE invalidateConnection
     \/ /\ ~CtxErr(c)
        /\ closed
        /\ Return(c, "ErrBadConn")
        /\ UNCHANGED <<closed, sock>>
     \/ /\ ~CtxErr(c)
        /\ ~closed
        /\ pc' = [pc EXCEPT ![c] = "lock"]
        /\ UNCHANGED <<result, closed, sock>>
  /\ UNCHANGED <<kind, ctxKind, ctx, got, after, watch, opMu, deadline,
                 serverVars, stale>>

(* Mutant: the state of the context ends up as the deadline. *)
Lock_CopiesContext(c) ==
  /\ pc[c] = "lock"
  /\ kind[c] # "close"
  /\ opMu = NoCall
  /\ opMu' = c
  /\ pc' = [pc EXCEPT ![c] = "write"]
  /\ deadline' = IF kind[c] = "stmt" THEN "none"
                 ELSE IF ctxKind[c] = "timeout" THEN ctx[c] ELSE deadline
  /\ after' = [after EXCEPT ![c] =
                 IF kind[c] = "plain" /\ ctxKind[c] # "background"
                 THEN "armed" ELSE @]
  /\ watch' = [watch EXCEPT ![c] = IF kind[c] = "stmt" THEN "select" ELSE @]
  /\ UNCHANGED <<kind, ctxKind, ctx, result, got, closed, sock, serverVars,
                 stale>>

(* opMu.Lock, then the socket deadline: doRequest and the no-reply senders *)
(* set it only when the context has one, doStatementRequest clears it.     *)
(* doRequest registers its AfterFunc, doStatementRequest its watcher.      *)
Lock(c) ==
  /\ pc[c] = "lock"
  /\ kind[c] # "close"
  /\ opMu = NoCall
  /\ opMu' = c
  /\ pc' = [pc EXCEPT ![c] = "write"]
  /\ deadline' = IF kind[c] = "stmt" THEN "none"
                 ELSE IF ctxKind[c] = "timeout" THEN "ctx" ELSE deadline
  /\ after' = [after EXCEPT ![c] =
                 IF kind[c] = "plain" /\ ctxKind[c] # "background"
                 THEN "armed" ELSE @]
  /\ watch' = [watch EXCEPT ![c] = IF kind[c] = "stmt" THEN "select" ELSE @]
  /\ UNCHANGED <<kind, ctxKind, ctx, result, got, closed, sock, serverVars,
                 stale>>

(* When a read or write of the holder of opMu works, and when it may fail. *)
IOWorks == sock = "open" /\ deadline # "past"
IOMayFail(c) ==
  \/ sock = "closed"
  \/ fault = "down"
  \/ deadline \in {"past", "grace"}
  \/ deadline = "ctx" /\ ctx[c] # "live"

(* Mutant: the pending reply stays in the stream. *)
AbortIO_KeepsConnection(c) ==
  /\ UNCHANGED <<closed, sock>>
  /\ Unlock(c)
  /\ LET explained == IF kind[c] = "noreply" THEN CtxErr(c) ELSE ctxIOError(c)
     IN  Return(c, IF explained THEN "ctxErr" ELSE "ErrBadConn")

(* Mutant: ctx.Err() decides for every sender. *)
AbortIO_AsksCtxErr(c) ==
  /\ invalidateConnection
  /\ Unlock(c)
  /\ LET explained == CtxErr(c)
     IN  Return(c, IF explained THEN "ctxErr" ELSE "ErrBadConn")

(* A failed read or write: the context's error if it explains the failure, *)
(* else ErrBadConn; the connection is invalidated either way.  The         *)
(* no-reply senders ask ctx.Err(), the others ctxIOError.                  *)
AbortIO(c) ==
  /\ invalidateConnection
  /\ Unlock(c)
  /\ LET explained == IF kind[c] = "noreply" THEN CtxErr(c) ELSE ctxIOError(c)
     IN  Return(c, IF explained THEN "ctxErr" ELSE "ErrBadConn")

(* conn.Write of the preamble and the request; a no-reply sender is done.  *)
Write(c) ==
  /\ pc[c] = "write"
  /\ IOWorks
  /\ queue' = Append(queue, c)
  /\ IF kind[c] = "noreply"
     THEN Return(c, "ok") /\ Unlock(c)
     ELSE /\ pc' = [pc EXCEPT ![c] = "read"]
          /\ UNCHANGED <<result, after, deadline, opMu>>
  /\ UNCHANGED <<kind, ctxKind, ctx, got, watch, closed, sock, running,
                 replies, served, interrupted, fault, stale>>

IOFails(c) ==
  /\ pc[c] \in {"write", "read"}
  /\ IOMayFail(c)
  /\ AbortIO(c)
  /\ UNCHANGED <<kind, ctxKind, ctx, got, watch, serverVars, stale>>

(* Mutant: the success path does not unlock opMu. *)
Read_KeepsLock(c) ==
  /\ pc[c] = "read"
  /\ IOWorks
  /\ replies # <<>>
  /\ got' = [got EXCEPT ![c] = Head(replies)]
  /\ replies' = Tail(replies)
  /\ Return(c, IF kind[c] = "stmt" /\ CtxErr(c) THEN "ctxErr" ELSE "ok")
  /\ UNCHANGED <<kind, ctxKind, ctx, watch, after, connVars, queue, running,
                 served, interrupted, fault, stale>>

(* readPacket takes the next reply of the stream.  doRequest returns it;   *)
(* doStatementRequest drops it for ctx.Err() when the context is done.     *)
Read(c) ==
  /\ pc[c] = "read"
  /\ IOWorks
  /\ replies # <<>>
  /\ got' = [got EXCEPT ![c] = Head(replies)]
  /\ replies' = Tail(replies)
  /\ Return(c, IF kind[c] = "stmt" /\ CtxErr(c) THEN "ctxErr" ELSE "ok")
  /\ Unlock(c)
  /\ UNCHANGED <<kind, ctxKind, ctx, watch, closed, sock, queue, running,
                 served, interrupted, fault, stale>>

(* A malformed reply.  A length that readPacket rejects aborts every call;  *)
(* an envelope that readReplyEnvelope cannot parse aborts                   *)
(* doStatementRequest, while doRequest returns the error and keeps the      *)
(* connection.                                                              *)
ReadGarbled(c) ==
  /\ pc[c] = "read"
  /\ IOWorks
  /\ replies # <<>>
  /\ fault = "none"
  /\ fault' = "garbled"
  /\ got' = [got EXCEPT ![c] = Head(replies)]
  /\ replies' = Tail(replies)
  /\ \/ AbortIO(c)
     \/ /\ kind[c] # "stmt"
        /\ Return(c, "protocolErr")
        /\ Unlock(c)
        /\ UNCHANGED <<closed, sock>>
  /\ UNCHANGED <<kind, ctxKind, ctx, watch, queue, running, served,
                 interrupted, stale>>

(* Conn.Close first takes the socket from the Conn under mu ...            *)
CloseEnter(c) ==
  /\ pc[c] = "enter"
  /\ kind[c] = "close"
  /\ closed' = TRUE
  /\ IF closed THEN Return(c, "ok")
               ELSE pc' = [pc EXCEPT ![c] = "lock"] /\ UNCHANGED result
  /\ UNCHANGED <<kind, ctxKind, ctx, got, after, watch, opMu, sock, deadline,
                 serverVars, stale>>

(* ... then waits for opMu to send EndJob and close it.                    *)
CloseSocket(c) ==
  /\ pc[c] = "lock"
  /\ kind[c] = "close"
  /\ opMu = NoCall
  /\ sock' = "closed"
  /\ Return(c, "ok")
  /\ UNCHANGED <<kind, ctxKind, ctx, got, after, watch, opMu, closed, deadline,
                 serverVars, stale>>

Caller(c) ==
  \/ Enter(c) \/ Lock(c) \/ Write(c) \/ Read(c) \/ ReadGarbled(c)
  \/ IOFails(c) \/ CloseEnter(c) \/ CloseSocket(c)

-----------------------------------------------------------------------------
(* context.AfterFunc starts its goroutine once the context is done ...     *)
AfterStart(c) ==
  /\ after[c] = "armed"
  /\ CtxErr(c)
  /\ after' = [after EXCEPT ![c] = "started"]
  /\ UNCHANGED <<callVars, ctx, watch, connVars, serverVars, stale>>

(* ... which sets the deadline of the socket whenever it gets to run.      *)
AfterFire(c) ==
  /\ after[c] = "started"
  /\ after' = [after EXCEPT ![c] = "off"]
  /\ deadline' = "past"
  /\ stale' = (stale \/ opMu # c)
  /\ UNCHANGED <<callVars, ctx, watch, opMu, closed, sock, serverVars>>

(* The watcher: select on stop and ctx.Done.                               *)
WatchStop(c) ==
  /\ watch[c] = "select"
  /\ pc[c] = "done"
  /\ watch' = [watch EXCEPT ![c] = "off"]
  /\ UNCHANGED <<callVars, ctx, after, connVars, serverVars, stale>>

WatchDone(c) ==
  /\ watch[c] = "select"
  /\ CtxErr(c)
  /\ watch' = [watch EXCEPT ![c] = "dial"]
  /\ UNCHANGED <<callVars, ctx, after, connVars, serverVars, stale>>

(* cancelStatement: the request names the server job, so it interrupts     *)
(* whatever that job runs when it arrives.                                 *)
CancelArrives(c) ==
  /\ watch[c] = "dial"
  /\ fault # "down"
  /\ watch' = [watch EXCEPT ![c] = "sent"]
  /\ interrupted' = interrupted \cup ({running} \ {NoCall})
  /\ UNCHANGED <<callVars, ctx, after, connVars, queue, running, replies,
                 served, fault, stale>>

(* Connecting, the request or its reply fails, or nativeCancelTimeout ends. *)
CancelFails(c) ==
  /\ watch[c] \in {"dial", "sent"}
  /\ watch' = [watch EXCEPT ![c] = "failed"]
  /\ UNCHANGED <<callVars, ctx, after, connVars, serverVars, stale>>

CancelAccepted(c) ==
  /\ watch[c] = "sent"
  /\ watch' = [watch EXCEPT ![c] = "accepted"]
  /\ UNCHANGED <<callVars, ctx, after, connVars, serverVars, stale>>

(* Mutant: the watcher does not look at finished. *)
WatchEnd_NoFinishedCheck(c) ==
  /\ watch[c] \in {"accepted", "failed"}
  /\ watch' = [watch EXCEPT ![c] = "off"]
  /\ deadline' = IF watch[c] = "accepted" THEN "grace" ELSE "past"
  /\ UNCHANGED <<callVars, ctx, after, opMu, closed, sock, serverVars, stale>>

(* Mutant: an accepted cancel leaves the read unbounded. *)
WatchEnd_NoGrace(c) ==
  /\ watch[c] \in {"accepted", "failed"}
  /\ watch' = [watch EXCEPT ![c] = "off"]
  /\ deadline' = IF pc[c] = "done" THEN deadline
                 ELSE IF watch[c] = "accepted" THEN deadline ELSE "past"
  /\ UNCHANGED <<callVars, ctx, after, opMu, closed, sock, serverVars, stale>>

(* Under watchMu: unless the call has finished, bound the pending read.    *)
WatchEnd(c) ==
  /\ watch[c] \in {"accepted", "failed"}
  /\ watch' = [watch EXCEPT ![c] = "off"]
  /\ deadline' = IF pc[c] = "done" THEN deadline
                 ELSE IF watch[c] = "accepted" THEN "grace" ELSE "past"
  /\ UNCHANGED <<callVars, ctx, after, opMu, closed, sock, serverVars, stale>>

Watcher(c) ==
  \/ WatchStop(c) \/ WatchDone(c) \/ CancelArrives(c)
  \/ CancelFails(c) \/ CancelAccepted(c) \/ WatchEnd(c)

-----------------------------------------------------------------------------
(* The context of a call ends while the call, or a goroutine it left       *)
(* behind, can still tell.                                                 *)
CtxWatched(c) == Active(c) \/ watch[c] = "select"

CtxCancel(c) ==
  /\ CtxWatched(c)
  /\ ctxKind[c] # "background"
  /\ ctx[c] \in {"live", "expired"}
  /\ ctx' = [ctx EXCEPT ![c] = "canceled"]
  /\ UNCHANGED <<callVars, after, watch, connVars, serverVars, stale>>

(* The deadline passes, and a moment later ctx.Err() reports it.           *)
CtxTime(c) ==
  /\ CtxWatched(c)
  /\ ctxKind[c] = "timeout"
  /\ ctx[c] \in {"live", "expired"}
  /\ ctx' = [ctx EXCEPT ![c] = IF @ = "live" THEN "expired" ELSE "deadline"]
  /\ UNCHANGED <<callVars, after, watch, connVars, serverVars, stale>>

(* The server job takes requests in order and answers those that expect a  *)
(* reply, also after the client has closed the socket.                     *)
ServerTake ==
  /\ fault # "down"
  /\ running = NoCall
  /\ queue # <<>>
  /\ running' = Head(queue)
  /\ queue' = Tail(queue)
  /\ served' = served \cup {Head(queue)}
  /\ UNCHANGED <<callVars, ctx, after, watch, connVars, replies, interrupted,
                 fault, stale>>

ServerAnswer ==
  /\ fault # "down"
  /\ running # NoCall
  /\ replies' = IF kind[running] = "noreply" THEN replies
                ELSE Append(replies, running)
  /\ running' = NoCall
  /\ UNCHANGED <<callVars, ctx, after, watch, connVars, queue, served,
                 interrupted, fault, stale>>

Server == ServerTake \/ ServerAnswer

(* The network or the server fails for good.                               *)
NetworkFails ==
  /\ fault = "none"
  /\ fault' = "down"
  /\ UNCHANGED <<callVars, ctx, after, watch, connVars, queue, running,
                 replies, served, interrupted, stale>>

(* Every call has been made and no goroutine is left.                      *)
Quiescent ==
  /\ \A c \in Calls : pc[c] = "done" /\ after[c] = "off" /\ watch[c] = "off"
  /\ UNCHANGED vars

Next ==
  \/ \E c \in Calls :
       \/ Begin(c) \/ Caller(c) \/ AfterStart(c) \/ AfterFire(c) \/ Watcher(c)
       \/ CtxCancel(c) \/ CtxTime(c)
  \/ Server
  \/ NetworkFails
  \/ Quiescent

Spec == Init /\ [][Next]_vars

(* The Go scheduler runs every goroutine, time passes, and cancelStatement *)
(* ends within nativeCancelTimeout.  Callers need not call, contexts need  *)
(* not be cancelled, the server need not answer.                           *)
Fairness ==
  \A c \in Calls :
    /\ WF_vars(Caller(c))
    /\ WF_vars(AfterStart(c) \/ AfterFire(c))
    /\ WF_vars(Watcher(c))
    /\ WF_vars(CtxTime(c))

LiveSpec == Spec /\ Fairness

-----------------------------------------------------------------------------
(* Positional replies, sql.go doRequestWithPreamble and doStatementRequest: *)
(* as long as nothing has closed the connection, the reply a call reads is  *)
(* the reply to its own request.  Every path that gives up a pending reply  *)
(* must invalidate the connection for this to hold.                         *)
ReplyMatching ==
  [][\A c \in Calls : got'[c] # got[c] /\ ~closed => got'[c] = c]_vars

(* What doRequestWithPreamble documents, "reading exactly one reply for the *)
(* main request", with no exception for a connection that is being closed.  *)
OwnReply == \A c \in Calls : got[c] \in {NoCall, c}

(* sql.go doStatementRequest promises that the watcher "never changes the   *)
(* deadline of a connection that has already been handed back", and every   *)
(* call clears its own: an unlocked socket carries no I/O deadline, unless  *)
(* the AfterFunc of a call that had returned has fired.                     *)
HandedBackUnbounded == opMu = NoCall /\ ~stale => deadline = "none"

(* driver.go Close and sql.go invalidateConnection share the duty to close  *)
(* the socket: a Conn marked closed has a closed socket, or a Close that is *)
(* still waiting for opMu to close it.                                      *)
NoSocketLeak ==
  closed => \/ sock = "closed"
            \/ \E c \in Calls : kind[c] = "close" /\ pc[c] = "lock"

(* Through database/sql a foreground call whose request the server has      *)
(* executed gets ErrBadConn, which makes database/sql run it again, only    *)
(* after a real failure of the network or the server, or when the stale     *)
(* AfterFunc of an earlier doRequest hit it.                                *)
ErrBadConnExplained ==
  \A c \in served \ Background :
     result[c] = "ErrBadConn" => fault # "none" \/ stale

(* sql.go:786, "Otherwise it is a genuine I/O failure and driver.ErrBadConn *)
(* is returned": no executed request reports ErrBadConn without a failure.  *)
ErrBadConnGenuine ==
  \A c \in served \ Background : result[c] = "ErrBadConn" => fault # "none"

(* sql.go ctxIOError: a read or write of doRequest or doStatementRequest    *)
(* that fails after the deadline of its own context, also before ctx.Err()  *)
(* tells, is reported as the context's error.                               *)
DeadlineIsCtxError ==
  [][\A c \in Calls :
       /\ pc[c] \in {"write", "read"}
       /\ kind[c] # "noreply"
       /\ result'[c] = "ErrBadConn"
       /\ fault = "none"
       => ctx[c] = "live"]_vars

(* readme.md:249, "A deadline never returns driver.ErrBadConn": the same    *)
(* for every sender.                                                        *)
DeadlineNeverBadConn ==
  [][\A c \in Calls :
       /\ pc[c] \in {"write", "read"}
       /\ result'[c] = "ErrBadConn"
       /\ fault = "none"
       => ctx[c] = "live"]_vars

(* readme.md:249 and sql.go:689, the cancel is sent for the statement whose *)
(* context is done "while this connection keeps waiting for the pending     *)
(* reply": no statement with a live context is interrupted.                 *)
OnlyExpiredInterrupted == \A c \in interrupted : CtxErr(c)

(* readme.md:249: a call whose context is done returns, whatever the server *)
(* does, unless it waits for opMu behind an eviction goroutine that never   *)
(* gives it up: the eviction's request has no deadline.                     *)
CtxDoneReturns ==
  []<>(opMu \notin Background)
    => \A c \in Calls : Active(c) /\ CtxErr(c) ~> pc[c] = "done"

(* No deadlock among callers, Close, eviction goroutines and watchers: with *)
(* a server that answers unless the network is down, every call returns.    *)
EveryCallReturns ==
  WF_vars(Server) => \A c \in Calls : Active(c) ~> pc[c] = "done"
=============================================================================
