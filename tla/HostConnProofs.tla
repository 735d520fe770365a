--------------------------- MODULE HostConnProofs ---------------------------
(***************************************************************************)
(* Proofs about HostConn for every set of calls.  The inductive invariant  *)
(* IInv says who owns what: opMu belongs to the call between its lock and  *)
(* its return, every pending reply of an open connection belongs to the    *)
(* holder of opMu, and a deadline on the socket belongs to the holder's    *)
(* context.                                                                *)
(***************************************************************************)
EXTENDS HostConn, TLAPS

(* x is an element of the sequence s *)
In(x, s) == \E i \in 1..Len(s) : s[i] = x

NoDup(s) == \A i, j \in 1..Len(s) : s[i] = s[j] => i = j

(* The request of c is somewhere between conn.Write and readPacket. *)
Pending(c) == In(c, queue) \/ running = c \/ In(c, replies)

Sent(c) == Pending(c) \/ c \in served

Fresh(c) == pc[c] \in {"idle", "enter", "lock", "write"}

-----------------------------------------------------------------------------
HolderInv == \A c \in Calls : opMu = c <=> pc[c] \in {"write", "read"}

ResultInv == \A c \in Calls : pc[c] # "done" => result[c] = "none"

(* A request is in one place of the pipe, and only after it was written. *)
PipeInv ==
  /\ NoDup(queue) /\ NoDup(replies)
  /\ \A c \in Calls : Fresh(c) => ~Sent(c)
  /\ \A c \in Calls : In(c, queue) => running # c /\ ~In(c, replies)
  /\ running # NoCall => ~In(running, replies)
  /\ \A c \in Calls : In(c, replies) => kind[c] # "noreply"

(* The pipe of a connection that is not closed holds only the reply that   *)
(* the holder of opMu waits for.                                           *)
CleanInv ==
  ~closed => \A c \in Calls : Pending(c) /\ kind[c] # "noreply" => pc[c] = "read"

CtxInv ==
  \A c \in Calls :
    /\ pc[c] = "idle" => ctx[c] = "live"
    /\ ctxKind[c] = "background" => ctx[c] = "live"
    /\ c \in Background => ctxKind[c] = "background" /\ kind[c] = "plain"
    /\ pc[c] = "read" => kind[c] # "noreply"

GoroutineInv ==
  \A c \in Calls :
    /\ after[c] = "started" => CtxErr(c)
    /\ watch[c] # "off" => pc[c] \in {"write", "read", "done"}
    /\ watch[c] \in {"dial", "sent", "accepted", "failed"} => CtxErr(c)

DeadlineInv ==
  stale \/ deadline = "none"
        \/ /\ opMu # NoCall
           /\ deadline = "ctx" \/ CtxErr(opMu)

PoolInv ==
  Pool => \A c, d \in Calls \ Background : Active(c) /\ Active(d) => c = d

OpenInv ==
  Pool /\ fault = "none" /\ ~stale =>
    \A c \in Calls \ Background : pc[c] = "read" => sock = "open"

RetryInv ==
  Pool /\ fault = "none" /\ ~stale =>
    \A c \in Calls \ Background : Sent(c) => result[c] # "ErrBadConn"

IInv ==
  /\ TypeOK /\ HolderInv /\ ResultInv /\ PipeInv /\ CleanInv /\ CtxInv
  /\ GoroutineInv /\ DeadlineInv /\ PoolInv /\ OpenInv /\ RetryInv
  /\ NoSocketLeak

-----------------------------------------------------------------------------
(* Sequences: what the elements of Append and Tail are.                    *)
LEMMA InAppend ==
  ASSUME NEW S, NEW s \in Seq(S), NEW e \in S
  PROVE  /\ Append(s, e) \in Seq(S)
         /\ \A x : In(x, Append(s, e)) <=> In(x, s) \/ x = e
         /\ NoDup(s) /\ ~In(e, s) => NoDup(Append(s, e))
BY DEF In, NoDup

LEMMA InTail ==
  ASSUME NEW S, NEW s \in Seq(S), s # <<>>
  PROVE  /\ Tail(s) \in Seq(S)
         /\ Head(s) \in S
         /\ In(Head(s), s)
         /\ \A x : In(x, Tail(s)) => In(x, s)
         /\ \A x : In(x, s) => x = Head(s) \/ In(x, Tail(s))
         /\ NoDup(s) => NoDup(Tail(s)) /\ ~In(Head(s), Tail(s))
<1>1. /\ Tail(s) \in Seq(S) /\ Head(s) \in S /\ Len(s) \in Nat /\ Len(s) > 0
      /\ Len(Tail(s)) = Len(s) - 1 /\ Head(s) = s[1]
      /\ \A i \in 1..Len(Tail(s)) : Tail(s)[i] = s[i + 1] /\ i + 1 \in 1..Len(s)
  OBVIOUS
<1>2. In(Head(s), s)
  BY <1>1 DEF In
<1>3. \A x : In(x, Tail(s)) => In(x, s)
  BY <1>1 DEF In
<1>4. ASSUME NEW x, In(x, s) PROVE x = Head(s) \/ In(x, Tail(s))
  <2>1. PICK i \in 1..Len(s) : s[i] = x
    BY <1>4 DEF In
  <2>2. CASE i = 1
    BY <1>1, <2>1, <2>2
  <2>3. CASE i # 1
    <3>1. i - 1 \in 1..Len(Tail(s)) /\ Tail(s)[i - 1] = x
      BY <1>1, <2>1, <2>3
    <3> QED BY Zenon, <3>1 DEF In
  <2> QED BY <2>2, <2>3
<1>5. NoDup(s) => NoDup(Tail(s)) /\ ~In(Head(s), Tail(s))
  BY <1>1 DEF In, NoDup
<1> QED BY <1>1, <1>2, <1>3, <1>4, <1>5

-----------------------------------------------------------------------------
(* The goroutines, the contexts and the network touch neither the calls    *)
(* nor the pipe, so they keep every conjunct that speaks of those only.    *)
LEMMA QuietStep ==
  ASSUME IInv,
         UNCHANGED <<callVars, opMu, closed, sock, queue, running, replies, served>>,
         stale => stale', fault # "none" => fault' # "none"
  PROVE  /\ HolderInv' /\ ResultInv' /\ PipeInv' /\ CleanInv'
         /\ PoolInv' /\ OpenInv' /\ RetryInv' /\ NoSocketLeak'
<1>1. HolderInv' /\ ResultInv' /\ NoSocketLeak' /\ PoolInv'
  BY DEF IInv, HolderInv, ResultInv, NoSocketLeak, PoolInv, Active, callVars
<1>2. PipeInv' /\ CleanInv'
  BY DEF IInv, PipeInv, CleanInv, Pending, Sent, Fresh, callVars
<1>3. OpenInv' /\ RetryInv'
  BY DEF IInv, OpenInv, RetryInv, Pending, Sent, callVars
<1> QED BY <1>1, <1>2, <1>3

LEMMA BeginStep ==
  ASSUME IInv, NEW c \in Calls, Begin(c)
  PROVE  IInv'
<1>1. TypeOK'
  BY CallAssumption DEF IInv, Begin, TypeOK, Deadlines, CtxStates, Results,
     CtxErr, connVars, serverVars
<1>2. HolderInv'
  BY CallAssumption DEF IInv, Begin, TypeOK, HolderInv, CtxErr, connVars,
     serverVars
<1>3. ResultInv'
  BY CallAssumption DEF IInv, Begin, TypeOK, ResultInv, CtxErr, connVars,
     serverVars
<1>4. PipeInv'
  BY CallAssumption DEF IInv, Begin, TypeOK, PipeInv, Pending, Sent, Fresh,
     CtxErr, connVars, serverVars
<1>5. CleanInv'
  BY CallAssumption DEF IInv, Begin, TypeOK, HolderInv, PipeInv, CleanInv,
     Pending, Sent, Fresh, CtxErr, connVars, serverVars
<1>6. CtxInv'
  BY CallAssumption DEF IInv, Begin, TypeOK, CtxInv, GoroutineInv, CtxErr,
     connVars, serverVars
<1>7. GoroutineInv'
  BY CallAssumption DEF IInv, Begin, TypeOK, HolderInv, GoroutineInv, CtxErr,
     connVars, serverVars
<1>8. DeadlineInv'
  BY CallAssumption DEF IInv, Begin, TypeOK, HolderInv, GoroutineInv,
     DeadlineInv, CtxErr, connVars, serverVars
<1>9. PoolInv'
  BY CallAssumption DEF IInv, Begin, TypeOK, PoolInv, Active, CtxErr,
     connVars, serverVars
<1>10. OpenInv'
  BY CallAssumption DEF IInv, Begin, TypeOK, HolderInv, CtxInv, PoolInv,
     OpenInv, Active, CtxErr, connVars, serverVars
<1>11. RetryInv'
  BY CallAssumption DEF IInv, Begin, TypeOK, ResultInv, PipeInv, RetryInv,
     Pending, Sent, Fresh, CtxErr, connVars, serverVars
<1>12. NoSocketLeak'
  BY CallAssumption DEF IInv, Begin, TypeOK, NoSocketLeak, HolderInv, CtxErr,
     connVars, serverVars
<1> QED BY <1>1, <1>2, <1>3, <1>4, <1>5, <1>6, <1>7, <1>8, <1>9, <1>10,
   <1>11, <1>12 DEF IInv

LEMMA EnterStep ==
  ASSUME IInv, NEW c \in Calls, Enter(c)
  PROVE  IInv'
<1>1. TypeOK'
  <2>1. closed' \in BOOLEAN /\ sock' \in {"open", "closed"}
    BY Zenon DEF IInv, Enter, TypeOK, invalidateConnection
  <2> QED BY ZenonT(30), <2>1 DEF IInv, Enter, TypeOK, Deadlines, CtxStates, Results, Return,
         serverVars
<1>2. HolderInv'
  <2>1. /\ pc[c] = "enter" /\ opMu' = opMu
        /\ pc' = [pc EXCEPT ![c] = "done"] \/ pc' = [pc EXCEPT ![c] = "lock"]
    BY Zenon DEF Enter, Return
  <2>2. HolderInv /\ pc \in [Calls -> {"idle", "enter", "lock", "write", "read", "done"}]
    BY Zenon DEF IInv, TypeOK
  <2> QED BY <2>1, <2>2 DEF HolderInv
<1>3. ResultInv'
  BY CallAssumption DEF IInv, Enter, TypeOK, ResultInv, Return,
     invalidateConnection, CtxErr, serverVars
<1>4. PipeInv'
  BY CallAssumption DEF IInv, Enter, TypeOK, PipeInv, Pending, Sent, Fresh,
     Return, invalidateConnection, CtxErr, serverVars
<1>5. CleanInv'
  BY CallAssumption DEF IInv, Enter, TypeOK, HolderInv, PipeInv, CleanInv,
     Pending, Sent, Fresh, Return, invalidateConnection, CtxErr, serverVars
<1>6. CtxInv'
  BY CallAssumption DEF IInv, Enter, TypeOK, CtxInv, GoroutineInv, Return,
     invalidateConnection, CtxErr, serverVars
<1>7. GoroutineInv'
  BY CallAssumption DEF IInv, Enter, TypeOK, HolderInv, GoroutineInv, Return,
     invalidateConnection, CtxErr, serverVars
<1>8. DeadlineInv'
  BY CallAssumption DEF IInv, Enter, TypeOK, HolderInv, GoroutineInv,
     DeadlineInv, Return, invalidateConnection, CtxErr, serverVars
<1>9. PoolInv'
  <2>1. pc' = [pc EXCEPT ![c] = "done"] \/ pc' = [pc EXCEPT ![c] = "lock"]
    BY DEF Enter, Return
  <2>2. \A d \in Calls : Active(d)' => Active(d)
    BY <2>1 DEF IInv, TypeOK, Enter, Active
  <2> QED BY <2>2 DEF IInv, PoolInv
<1>10. OpenInv'
  BY CallAssumption DEF IInv, Enter, TypeOK, HolderInv, CtxInv, PoolInv,
     OpenInv, Active, Return, invalidateConnection, CtxErr, serverVars
<1>11. RetryInv'
  BY CallAssumption DEF IInv, Enter, TypeOK, ResultInv, PipeInv, RetryInv,
     Pending, Sent, Fresh, Return, invalidateConnection, CtxErr, serverVars
<1>12. NoSocketLeak'
  <2>1. CASE UNCHANGED <<closed, sock>>
    BY <2>1 DEF IInv, Enter, TypeOK, NoSocketLeak, Return
  <2>2. CASE invalidateConnection
    BY Zenon, <2>2 DEF IInv, Enter, TypeOK, NoSocketLeak, Return, invalidateConnection
  <2> QED BY <2>1, <2>2 DEF Enter
<1> QED BY <1>1, <1>2, <1>3, <1>4, <1>5, <1>6, <1>7, <1>8, <1>9, <1>10,
   <1>11, <1>12 DEF IInv

LEMMA LockStep ==
  ASSUME IInv, NEW c \in Calls, Lock(c)
  PROVE  IInv'
<1>1. TypeOK'
  BY CallAssumption DEF IInv, Lock, TypeOK, Deadlines, CtxStates, Results,
     CtxErr, serverVars
<1>2. HolderInv'
  BY CallAssumption DEF IInv, Lock, TypeOK, HolderInv, CtxErr, serverVars
<1>3. ResultInv'
  BY CallAssumption DEF IInv, Lock, TypeOK, ResultInv, CtxErr, serverVars
<1>4. PipeInv'
  BY CallAssumption DEF IInv, Lock, TypeOK, PipeInv, Pending, Sent, Fresh,
     CtxErr, serverVars
<1>5. CleanInv'
  BY CallAssumption DEF IInv, Lock, TypeOK, HolderInv, PipeInv, CleanInv,
     Pending, Sent, Fresh, CtxErr, serverVars
<1>6. CtxInv'
  BY CallAssumption DEF IInv, Lock, TypeOK, CtxInv, GoroutineInv, CtxErr,
     serverVars
<1>7. GoroutineInv'
  BY CallAssumption DEF IInv, Lock, TypeOK, HolderInv, GoroutineInv, CtxErr,
     serverVars
<1>8. DeadlineInv'
  BY CallAssumption DEF IInv, Lock, TypeOK, HolderInv, GoroutineInv,
     DeadlineInv, CtxErr, serverVars
<1>9. PoolInv'
  BY CallAssumption DEF IInv, Lock, TypeOK, PoolInv, Active, CtxErr,
     serverVars
<1>10. OpenInv'
  BY CallAssumption DEF IInv, Lock, TypeOK, HolderInv, CtxInv, PoolInv,
     OpenInv, Active, CtxErr, serverVars
<1>11. RetryInv'
  BY CallAssumption DEF IInv, Lock, TypeOK, ResultInv, PipeInv, RetryInv,
     Pending, Sent, Fresh, CtxErr, serverVars
<1>12. NoSocketLeak'
  BY CallAssumption DEF IInv, Lock, TypeOK, NoSocketLeak, HolderInv, CtxErr,
     serverVars
<1> QED BY <1>1, <1>2, <1>3, <1>4, <1>5, <1>6, <1>7, <1>8, <1>9, <1>10,
   <1>11, <1>12 DEF IInv

LEMMA WriteStep ==
  ASSUME IInv, NEW c \in Calls, Write(c)
  PROVE  IInv'
<1>1. /\ queue' \in Seq(Calls)
      /\ \A x : In(x, queue') <=> In(x, queue) \/ x = c
      /\ NoDup(queue')
      /\ UNCHANGED <<running, replies, served>>
  <2>1. NoDup(queue) /\ ~In(c, queue)
    BY DEF IInv, Write, PipeInv, Fresh, Sent, Pending
  <2> QED BY <2>1, InAppend DEF IInv, TypeOK, Write
<1>2. TypeOK'
  <2>1. /\ pc' \in [Calls -> {"idle", "enter", "lock", "write", "read", "done"}]
        /\ result' \in [Calls -> Results]
        /\ after' \in [Calls -> {"off", "armed", "started"}]
        /\ deadline' \in Deadlines
        /\ opMu' \in Calls \cup {NoCall}
    BY DEF IInv, Write, TypeOK, Deadlines, Results, Return, Unlock
  <2>2. UNCHANGED <<kind, ctxKind, ctx, got, watch, closed, sock, running,
                    replies, served, interrupted, fault, stale>>
    BY DEF Write
  <2> QED BY <1>1, <2>1, <2>2 DEF IInv, TypeOK
<1>3. HolderInv'
  BY <1>1, CallAssumption DEF IInv, Write, TypeOK, HolderInv, Return, Unlock,
     IOWorks, CtxErr
<1>4. ResultInv'
  BY <1>1, CallAssumption DEF IInv, Write, TypeOK, ResultInv, Return, Unlock,
     IOWorks, CtxErr
<1>5. PipeInv'
  BY <1>1, CallAssumption DEF IInv, Write, TypeOK, PipeInv, Pending, Sent,
     Fresh, Return, Unlock, IOWorks, CtxErr
<1>6. CleanInv'
  BY <1>1, CallAssumption DEF IInv, Write, TypeOK, HolderInv, PipeInv,
     CleanInv, Pending, Sent, Fresh, Return, Unlock, IOWorks, CtxErr
<1>7. CtxInv'
  BY <1>1, CallAssumption DEF IInv, Write, TypeOK, CtxInv, GoroutineInv,
     Return, Unlock, IOWorks, CtxErr
<1>8. GoroutineInv'
  BY <1>1, CallAssumption DEF IInv, Write, TypeOK, HolderInv, GoroutineInv,
     Return, Unlock, IOWorks, CtxErr
<1>9. DeadlineInv'
  BY <1>1, CallAssumption DEF IInv, Write, TypeOK, HolderInv, GoroutineInv,
     DeadlineInv, Return, Unlock, IOWorks, CtxErr
<1>10. PoolInv'
  BY <1>1, CallAssumption DEF IInv, Write, TypeOK, PoolInv, Active, Return,
     Unlock, IOWorks, CtxErr
<1>11. OpenInv'
  BY <1>1, CallAssumption DEF IInv, Write, TypeOK, HolderInv, CtxInv,
     PoolInv, OpenInv, Active, Return, Unlock, IOWorks, CtxErr
<1>12. RetryInv'
  <2>1. \A x \in Calls : Sent(x)' => Sent(x) \/ x = c
    BY <1>1 DEF Sent, Pending
  <2>2. \A x \in Calls : result'[x] = IF x = c THEN result'[c] ELSE result[x]
    BY DEF IInv, Write, TypeOK, Return
  <2>3. result'[c] # "ErrBadConn"
    BY Zenon DEF IInv, Write, TypeOK, ResultInv, Return
  <2> QED BY <2>1, <2>2, <2>3 DEF IInv, Write, RetryInv
<1>13. NoSocketLeak'
  BY <1>1, CallAssumption DEF IInv, Write, TypeOK, NoSocketLeak, HolderInv,
     Return, Unlock, IOWorks, CtxErr
<1> QED BY <1>2, <1>3, <1>4, <1>5, <1>6, <1>7, <1>8, <1>9, <1>10, <1>11,
   <1>12, <1>13 DEF IInv

LEMMA IOFailsStep ==
  ASSUME IInv, NEW c \in Calls, IOFails(c)
  PROVE  IInv'
<1>1. TypeOK'
  BY CallAssumption DEF IInv, IOFails, TypeOK, Deadlines, CtxStates, Results,
     AbortIO, Return, Unlock, invalidateConnection, IOMayFail, CtxErr,
     ctxIOError, serverVars
<1>2. HolderInv'
  BY CallAssumption DEF IInv, IOFails, TypeOK, HolderInv, AbortIO, Return,
     Unlock, invalidateConnection, IOMayFail, CtxErr, ctxIOError, serverVars
<1>3. ResultInv'
  BY CallAssumption DEF IInv, IOFails, TypeOK, ResultInv, AbortIO, Return,
     Unlock, invalidateConnection, IOMayFail, CtxErr, ctxIOError, serverVars
<1>4. PipeInv'
  BY CallAssumption DEF IInv, IOFails, TypeOK, PipeInv, Pending, Sent, Fresh,
     AbortIO, Return, Unlock, invalidateConnection, IOMayFail, CtxErr,
     ctxIOError, serverVars
<1>5. CleanInv'
  BY CallAssumption DEF IInv, IOFails, TypeOK, HolderInv, PipeInv, CleanInv,
     Pending, Sent, Fresh, AbortIO, Return, Unlock, invalidateConnection,
     IOMayFail, CtxErr, ctxIOError, serverVars
<1>6. CtxInv'
  BY CallAssumption DEF IInv, IOFails, TypeOK, CtxInv, GoroutineInv, AbortIO,
     Return, Unlock, invalidateConnection, IOMayFail, CtxErr, ctxIOError,
     serverVars
<1>7. GoroutineInv'
  BY CallAssumption DEF IInv, IOFails, TypeOK, HolderInv, GoroutineInv,
     AbortIO, Return, Unlock, invalidateConnection, IOMayFail, CtxErr,
     ctxIOError, serverVars
<1>8. DeadlineInv'
  BY CallAssumption DEF IInv, IOFails, TypeOK, HolderInv, GoroutineInv,
     DeadlineInv, AbortIO, Return, Unlock, invalidateConnection, IOMayFail,
     CtxErr, ctxIOError, serverVars
<1>9. PoolInv'
  BY CallAssumption DEF IInv, IOFails, TypeOK, PoolInv, Active, AbortIO,
     Return, Unlock, invalidateConnection, IOMayFail, CtxErr, ctxIOError,
     serverVars
<1>10. OpenInv'
  BY DEF IInv, IOFails, AbortIO, Return, TypeOK, HolderInv, OpenInv, serverVars
<1>11. RetryInv'
  <2> SUFFICES ASSUME Pool, fault = "none", ~stale, c \in Calls \ Background,
                      Sent(c)
               PROVE  result'[c] # "ErrBadConn"
    BY DEF IInv, IOFails, AbortIO, Return, TypeOK, RetryInv, Pending, Sent, serverVars
  <2>1. pc[c] = "read" /\ opMu = c
    BY DEF IInv, IOFails, PipeInv, Fresh, HolderInv
  <2>2. sock = "open" /\ kind[c] # "noreply"
    BY <2>1 DEF IInv, OpenInv, CtxInv
  <2>3. ctx[c] # "live"
    BY <2>1, <2>2 DEF IInv, IOFails, IOMayFail, DeadlineInv, CtxErr
  <2> QED BY <2>2, <2>3 DEF IInv, TypeOK, IOFails, AbortIO, Return, ctxIOError
<1>12. NoSocketLeak'
  BY CallAssumption DEF IInv, IOFails, TypeOK, NoSocketLeak, HolderInv,
     AbortIO, Return, Unlock, invalidateConnection, IOMayFail, CtxErr,
     ctxIOError, serverVars
<1> QED BY <1>1, <1>2, <1>3, <1>4, <1>5, <1>6, <1>7, <1>8, <1>9, <1>10,
   <1>11, <1>12 DEF IInv

LEMMA ReadStep ==
  ASSUME IInv, NEW c \in Calls, Read(c)
  PROVE  IInv'
<1>1. /\ Head(replies) \in Calls
      /\ replies' \in Seq(Calls)
      /\ In(Head(replies), replies)
      /\ \A x : In(x, replies') => In(x, replies)
      /\ \A x : In(x, replies) => x = Head(replies) \/ In(x, replies')
      /\ NoDup(replies') /\ ~In(Head(replies), replies')
      /\ UNCHANGED <<queue, running, served>>
  BY SMTT(30), InTail DEF IInv, TypeOK, PipeInv, Read
<1>2. ~closed => Head(replies) = c
  BY ZenonT(30), <1>1 DEF IInv, Read, PipeInv, CleanInv, HolderInv, Pending
<1>3. TypeOK'
  BY <1>1, <1>2, CallAssumption DEF IInv, Read, TypeOK, Deadlines, CtxStates,
     Results, Return, Unlock, CtxErr
<1>4. HolderInv'
  BY <1>1, <1>2, CallAssumption DEF IInv, Read, TypeOK, HolderInv, Return,
     Unlock, CtxErr
<1>5. ResultInv'
  BY <1>1, <1>2, CallAssumption DEF IInv, Read, TypeOK, ResultInv, Return,
     Unlock, CtxErr
<1>6. PipeInv'
  BY <1>1, <1>2, CallAssumption DEF IInv, Read, TypeOK, PipeInv, Pending,
     Sent, Fresh, Return, Unlock, CtxErr
<1>7. CleanInv'
  BY <1>1, <1>2, CallAssumption DEF IInv, Read, TypeOK, HolderInv, PipeInv,
     CleanInv, Pending, Sent, Fresh, Return, Unlock, CtxErr
<1>8. CtxInv'
  BY <1>1, <1>2, CallAssumption DEF IInv, Read, TypeOK, CtxInv, GoroutineInv,
     Return, Unlock, CtxErr
<1>9. GoroutineInv'
  BY <1>1, <1>2, CallAssumption DEF IInv, Read, TypeOK, HolderInv,
     GoroutineInv, Return, Unlock, CtxErr
<1>10. DeadlineInv'
  BY <1>1, <1>2, CallAssumption DEF IInv, Read, TypeOK, HolderInv,
     GoroutineInv, DeadlineInv, Return, Unlock, CtxErr
<1>11. PoolInv'
  BY <1>1, <1>2, CallAssumption DEF IInv, Read, TypeOK, PoolInv, Active,
     Return, Unlock, CtxErr
<1>12. OpenInv'
  BY <1>1, <1>2, CallAssumption DEF IInv, Read, TypeOK, HolderInv, CtxInv,
     PoolInv, OpenInv, Active, Return, Unlock, CtxErr
<1>13. RetryInv'
  <2>1. /\ UNCHANGED <<fault, stale>>
        /\ \/ result' = [result EXCEPT ![c] = "ctxErr"]
           \/ result' = [result EXCEPT ![c] = "ok"]
    BY Zenon DEF Read, Return
  <2>2. \A d \in Calls : Sent(d)' => Sent(d) \/ d = c
    BY <1>1, <1>2 DEF IInv, PipeInv, Read, Pending, Sent
  <2>3. RetryInv /\ result \in [Calls -> Results]
    BY Zenon DEF IInv, TypeOK
  <2> QED BY <2>1, <2>2, <2>3 DEF RetryInv
<1>14. NoSocketLeak'
  BY <1>1, <1>2, CallAssumption DEF IInv, Read, TypeOK, NoSocketLeak,
     HolderInv, Return, Unlock, CtxErr
<1> QED BY <1>3, <1>4, <1>5, <1>6, <1>7, <1>8, <1>9, <1>10, <1>11, <1>12,
   <1>13, <1>14 DEF IInv

LEMMA ReadGarbledStep ==
  ASSUME IInv, NEW c \in Calls, ReadGarbled(c)
  PROVE  IInv'
<1>1. /\ Head(replies) \in Calls
      /\ replies' \in Seq(Calls)
      /\ In(Head(replies), replies)
      /\ \A x : In(x, replies') => In(x, replies)
      /\ \A x : In(x, replies) => x = Head(replies) \/ In(x, replies')
      /\ NoDup(replies') /\ ~In(Head(replies), replies')
      /\ UNCHANGED <<queue, running, served>>
  BY SMTT(30), InTail DEF IInv, TypeOK, PipeInv, ReadGarbled
<1>2. ~closed => Head(replies) = c
  BY ZenonT(30), <1>1 DEF IInv, ReadGarbled, PipeInv, CleanInv, HolderInv, Pending
<1>3. TypeOK'
  <2>1. closed' \in BOOLEAN /\ sock' \in {"open", "closed"}
    BY ZenonT(30) DEF IInv, ReadGarbled, AbortIO, TypeOK, invalidateConnection
  <2>2. /\ pc' = [pc EXCEPT ![c] = "done"] /\ Unlock(c)
        /\ result' \in [Calls -> Results]
    BY DEF IInv, ReadGarbled, AbortIO, TypeOK, Results, Return
  <2> QED BY <1>1, <2>1, <2>2, CallAssumption DEF IInv, ReadGarbled, TypeOK,
         Deadlines, CtxStates, Results, Unlock
<1>4. HolderInv'
  BY <1>1, <1>2, CallAssumption DEF IInv, ReadGarbled, TypeOK, HolderInv,
     AbortIO, Return, Unlock, invalidateConnection, CtxErr, ctxIOError
<1>5. ResultInv'
  BY <1>1, <1>2, CallAssumption DEF IInv, ReadGarbled, TypeOK, ResultInv,
     AbortIO, Return, Unlock, invalidateConnection, CtxErr, ctxIOError
<1>6. PipeInv'
  BY <1>1, <1>2, CallAssumption DEF IInv, ReadGarbled, TypeOK, PipeInv,
     Pending, Sent, Fresh, AbortIO, Return, Unlock, invalidateConnection,
     CtxErr, ctxIOError
<1>7. CleanInv'
  BY <1>1, <1>2, CallAssumption DEF IInv, ReadGarbled, TypeOK, HolderInv,
     PipeInv, CleanInv, Pending, Sent, Fresh, AbortIO, Return, Unlock,
     invalidateConnection, CtxErr, ctxIOError
<1>8. CtxInv'
  BY <1>1, <1>2, CallAssumption DEF IInv, ReadGarbled, TypeOK, CtxInv,
     GoroutineInv, AbortIO, Return, Unlock, invalidateConnection, CtxErr,
     ctxIOError
<1>9. GoroutineInv'
  BY <1>1, <1>2, CallAssumption DEF IInv, ReadGarbled, TypeOK, HolderInv,
     GoroutineInv, AbortIO, Return, Unlock, invalidateConnection, CtxErr,
     ctxIOError
<1>10. DeadlineInv'
  BY <1>1, <1>2, CallAssumption DEF IInv, ReadGarbled, TypeOK, HolderInv,
     GoroutineInv, DeadlineInv, AbortIO, Return, Unlock,
     invalidateConnection, CtxErr, ctxIOError
<1>11. PoolInv'
  BY <1>1, <1>2, CallAssumption DEF IInv, ReadGarbled, TypeOK, PoolInv,
     Active, AbortIO, Return, Unlock, invalidateConnection, CtxErr,
     ctxIOError
<1>12. OpenInv'
  BY SMTT(30), <1>1, <1>2, CallAssumption DEF IInv, ReadGarbled, TypeOK, HolderInv,
     CtxInv, PoolInv, OpenInv, Active, AbortIO, Return, Unlock,
     invalidateConnection, CtxErr, ctxIOError
<1>13. RetryInv'
  BY <1>1, <1>2, CallAssumption DEF IInv, ReadGarbled, TypeOK, ResultInv,
     PipeInv, RetryInv, Pending, Sent, Fresh, AbortIO, Return, Unlock,
     invalidateConnection, CtxErr, ctxIOError
<1>14. NoSocketLeak'
  <2>1. CASE UNCHANGED <<closed, sock>>
    BY <2>1 DEF IInv, ReadGarbled, AbortIO, TypeOK, NoSocketLeak, Return
  <2>2. CASE invalidateConnection
    BY ZenonT(30), <2>2 DEF IInv, ReadGarbled, AbortIO, TypeOK, NoSocketLeak, Return,
       invalidateConnection
  <2> QED BY <2>1, <2>2 DEF ReadGarbled, AbortIO
<1> QED BY <1>3, <1>4, <1>5, <1>6, <1>7, <1>8, <1>9, <1>10, <1>11, <1>12,
   <1>13, <1>14 DEF IInv

LEMMA CloseEnterStep ==
  ASSUME IInv, NEW c \in Calls, CloseEnter(c)
  PROVE  IInv'
<1>1. TypeOK'
  <2>1. closed' \in BOOLEAN
    BY DEF CloseEnter
  <2> QED BY ZenonT(30), <2>1 DEF IInv, CloseEnter, TypeOK, Deadlines, CtxStates, Results,
         Return, serverVars
<1>2. HolderInv'
  BY CallAssumption DEF IInv, CloseEnter, TypeOK, HolderInv, Return, CtxErr,
     serverVars
<1>3. ResultInv'
  BY CallAssumption DEF IInv, CloseEnter, TypeOK, ResultInv, Return, CtxErr,
     serverVars
<1>4. PipeInv'
  BY CallAssumption DEF IInv, CloseEnter, TypeOK, PipeInv, Pending, Sent,
     Fresh, Return, CtxErr, serverVars
<1>5. CleanInv'
  BY CallAssumption DEF IInv, CloseEnter, TypeOK, HolderInv, PipeInv,
     CleanInv, Pending, Sent, Fresh, Return, CtxErr, serverVars
<1>6. CtxInv'
  BY CallAssumption DEF IInv, CloseEnter, TypeOK, CtxInv, GoroutineInv,
     Return, CtxErr, serverVars
<1>7. GoroutineInv'
  BY CallAssumption DEF IInv, CloseEnter, TypeOK, HolderInv, GoroutineInv,
     Return, CtxErr, serverVars
<1>8. DeadlineInv'
  BY CallAssumption DEF IInv, CloseEnter, TypeOK, HolderInv, GoroutineInv,
     DeadlineInv, Return, CtxErr, serverVars
<1>9. PoolInv'
  BY CallAssumption DEF IInv, CloseEnter, TypeOK, PoolInv, Active, Return,
     CtxErr, serverVars
<1>10. OpenInv'
  BY CallAssumption DEF IInv, CloseEnter, TypeOK, HolderInv, CtxInv, PoolInv,
     OpenInv, Active, Return, CtxErr, serverVars
<1>11. RetryInv'
  BY CallAssumption DEF IInv, CloseEnter, TypeOK, ResultInv, PipeInv,
     RetryInv, Pending, Sent, Fresh, Return, CtxErr, serverVars
<1>12. NoSocketLeak'
  BY CallAssumption DEF IInv, CloseEnter, TypeOK, NoSocketLeak, HolderInv,
     Return, CtxErr, serverVars
<1> QED BY <1>1, <1>2, <1>3, <1>4, <1>5, <1>6, <1>7, <1>8, <1>9, <1>10,
   <1>11, <1>12 DEF IInv

LEMMA CloseSocketStep ==
  ASSUME IInv, NEW c \in Calls, CloseSocket(c)
  PROVE  IInv'
<1>1. TypeOK'
  BY CallAssumption DEF IInv, CloseSocket, TypeOK, Deadlines, CtxStates,
     Results, Return, CtxErr, serverVars
<1>2. HolderInv'
  BY CallAssumption DEF IInv, CloseSocket, TypeOK, HolderInv, Return, CtxErr,
     serverVars
<1>3. ResultInv'
  BY CallAssumption DEF IInv, CloseSocket, TypeOK, ResultInv, Return, CtxErr,
     serverVars
<1>4. PipeInv'
  BY CallAssumption DEF IInv, CloseSocket, TypeOK, PipeInv, Pending, Sent,
     Fresh, Return, CtxErr, serverVars
<1>5. CleanInv'
  BY CallAssumption DEF IInv, CloseSocket, TypeOK, HolderInv, PipeInv,
     CleanInv, Pending, Sent, Fresh, Return, CtxErr, serverVars
<1>6. CtxInv'
  BY CallAssumption DEF IInv, CloseSocket, TypeOK, CtxInv, GoroutineInv,
     Return, CtxErr, serverVars
<1>7. GoroutineInv'
  BY CallAssumption DEF IInv, CloseSocket, TypeOK, HolderInv, GoroutineInv,
     Return, CtxErr, serverVars
<1>8. DeadlineInv'
  BY CallAssumption DEF IInv, CloseSocket, TypeOK, HolderInv, GoroutineInv,
     DeadlineInv, Return, CtxErr, serverVars
<1>9. PoolInv'
  BY CallAssumption DEF IInv, CloseSocket, TypeOK, PoolInv, Active, Return,
     CtxErr, serverVars
<1>10. OpenInv'
  BY CallAssumption DEF IInv, CloseSocket, TypeOK, HolderInv, CtxInv,
     PoolInv, OpenInv, Active, Return, CtxErr, serverVars
<1>11. RetryInv'
  BY CallAssumption DEF IInv, CloseSocket, TypeOK, ResultInv, PipeInv,
     RetryInv, Pending, Sent, Fresh, Return, CtxErr, serverVars
<1>12. NoSocketLeak'
  BY CallAssumption DEF IInv, CloseSocket, TypeOK, NoSocketLeak, HolderInv,
     Return, CtxErr, serverVars
<1> QED BY <1>1, <1>2, <1>3, <1>4, <1>5, <1>6, <1>7, <1>8, <1>9, <1>10,
   <1>11, <1>12 DEF IInv

LEMMA AfterStartStep ==
  ASSUME IInv, NEW c \in Calls, AfterStart(c)
  PROVE  IInv'
<1>1. TypeOK'
  BY DEF IInv, AfterStart, TypeOK, Deadlines, CtxStates, Results, serverVars,
     connVars, callVars
<1>2. CtxInv' /\ GoroutineInv'
  BY DEF IInv, AfterStart, TypeOK, CtxInv, GoroutineInv, HolderInv, CtxErr,
     serverVars, connVars, callVars
<1>3. DeadlineInv'
  BY CallAssumption DEF IInv, AfterStart, TypeOK, HolderInv, GoroutineInv,
     DeadlineInv, CtxErr, serverVars, connVars, callVars
<1> QED BY QuietStep, <1>1, <1>2, <1>3 DEF IInv, AfterStart, serverVars,
   connVars, callVars

LEMMA AfterFireStep ==
  ASSUME IInv, NEW c \in Calls, AfterFire(c)
  PROVE  IInv'
<1>1. TypeOK'
  BY DEF IInv, AfterFire, TypeOK, Deadlines, CtxStates, Results, serverVars,
     callVars
<1>2. CtxInv' /\ GoroutineInv'
  BY DEF IInv, AfterFire, TypeOK, CtxInv, GoroutineInv, HolderInv, CtxErr,
     serverVars, callVars
<1>3. DeadlineInv'
  <2>1. CASE opMu = c
    BY <2>1, CallAssumption DEF IInv, AfterFire, TypeOK, GoroutineInv,
       DeadlineInv, CtxErr
  <2>2. CASE opMu # c
    <3>1. stale'
      BY Zenon, <2>2 DEF AfterFire
    <3> QED BY <3>1 DEF DeadlineInv
  <2> QED BY <2>1, <2>2
<1>4. stale => stale'
  BY Zenon DEF AfterFire
<1>5. UNCHANGED <<callVars, opMu, closed, sock, serverVars>>
  BY SMTT(30) DEF AfterFire
<1> QED BY QuietStep, <1>1, <1>2, <1>3, <1>4, <1>5 DEF IInv, serverVars

LEMMA WatchStopStep ==
  ASSUME IInv, NEW c \in Calls, WatchStop(c)
  PROVE  IInv'
<1>1. TypeOK'
  BY DEF IInv, WatchStop, TypeOK, Deadlines, CtxStates, Results, serverVars,
     connVars, callVars
<1>2. CtxInv' /\ GoroutineInv'
  BY DEF IInv, WatchStop, TypeOK, CtxInv, GoroutineInv, HolderInv, CtxErr,
     serverVars, connVars, callVars
<1>3. DeadlineInv'
  BY CallAssumption DEF IInv, WatchStop, TypeOK, HolderInv, GoroutineInv,
     DeadlineInv, CtxErr, serverVars, connVars, callVars
<1> QED BY ZenonT(30), QuietStep, <1>1, <1>2, <1>3 DEF IInv, WatchStop, serverVars,
   connVars, callVars

LEMMA WatchDoneStep ==
  ASSUME IInv, NEW c \in Calls, WatchDone(c)
  PROVE  IInv'
<1>1. TypeOK'
  BY DEF IInv, WatchDone, TypeOK, Deadlines, CtxStates, Results, serverVars,
     connVars, callVars
<1>2. CtxInv' /\ GoroutineInv'
  BY DEF IInv, WatchDone, TypeOK, CtxInv, GoroutineInv, HolderInv, CtxErr,
     serverVars, connVars, callVars
<1>3. DeadlineInv'
  BY CallAssumption DEF IInv, WatchDone, TypeOK, HolderInv, GoroutineInv,
     DeadlineInv, CtxErr, serverVars, connVars, callVars
<1> QED BY QuietStep, <1>1, <1>2, <1>3 DEF IInv, WatchDone, serverVars,
   connVars, callVars

LEMMA CancelArrivesStep ==
  ASSUME IInv, NEW c \in Calls, CancelArrives(c)
  PROVE  IInv'
<1>1. TypeOK'
  BY DEF IInv, CancelArrives, TypeOK, Deadlines, CtxStates, Results,
     connVars, callVars
<1>2. CtxInv' /\ GoroutineInv'
  BY DEF IInv, CancelArrives, TypeOK, CtxInv, GoroutineInv, HolderInv,
     CtxErr, connVars, callVars
<1>3. DeadlineInv'
  BY CallAssumption DEF IInv, CancelArrives, TypeOK, HolderInv, GoroutineInv,
     DeadlineInv, CtxErr, connVars, callVars
<1> QED BY QuietStep, <1>1, <1>2, <1>3 DEF IInv, CancelArrives, connVars,
   callVars

LEMMA CancelFailsStep ==
  ASSUME IInv, NEW c \in Calls, CancelFails(c)
  PROVE  IInv'
<1>1. TypeOK'
  BY DEF IInv, CancelFails, TypeOK, Deadlines, CtxStates, Results,
     serverVars, connVars, callVars
<1>2. CtxInv' /\ GoroutineInv'
  BY DEF IInv, CancelFails, TypeOK, CtxInv, GoroutineInv, HolderInv, CtxErr,
     serverVars, connVars, callVars
<1>3. DeadlineInv'
  BY CallAssumption DEF IInv, CancelFails, TypeOK, HolderInv, GoroutineInv,
     DeadlineInv, CtxErr, serverVars, connVars, callVars
<1> QED BY QuietStep, <1>1, <1>2, <1>3 DEF IInv, CancelFails, serverVars,
   connVars, callVars

LEMMA CancelAcceptedStep ==
  ASSUME IInv, NEW c \in Calls, CancelAccepted(c)
  PROVE  IInv'
<1>1. TypeOK'
  BY DEF IInv, CancelAccepted, TypeOK, Deadlines, CtxStates, Results,
     serverVars, connVars, callVars
<1>2. CtxInv' /\ GoroutineInv'
  BY DEF IInv, CancelAccepted, TypeOK, CtxInv, GoroutineInv, HolderInv,
     CtxErr, serverVars, connVars, callVars
<1>3. DeadlineInv'
  BY SMTT(30), CallAssumption DEF IInv, CancelAccepted, TypeOK, HolderInv,
     GoroutineInv, DeadlineInv, CtxErr, serverVars, connVars, callVars
<1> QED BY QuietStep, <1>1, <1>2, <1>3 DEF IInv, CancelAccepted, serverVars,
   connVars, callVars

LEMMA WatchEndStep ==
  ASSUME IInv, NEW c \in Calls, WatchEnd(c)
  PROVE  IInv'
<1>1. TypeOK'
  BY DEF IInv, WatchEnd, TypeOK, Deadlines, CtxStates, Results, serverVars,
     callVars
<1>2. CtxInv' /\ GoroutineInv'
  BY DEF IInv, WatchEnd, TypeOK, CtxInv, GoroutineInv, HolderInv, CtxErr,
     serverVars, callVars
<1>3. DeadlineInv'
  BY CallAssumption DEF IInv, WatchEnd, TypeOK, HolderInv, GoroutineInv,
     DeadlineInv, CtxErr, serverVars, callVars
<1> QED BY QuietStep, <1>1, <1>2, <1>3 DEF IInv, WatchEnd, serverVars,
   callVars

LEMMA CtxCancelStep ==
  ASSUME IInv, NEW c \in Calls, CtxCancel(c)
  PROVE  IInv'
<1>1. TypeOK'
  BY DEF IInv, CtxCancel, TypeOK, Deadlines, CtxStates, Results, serverVars,
     connVars, callVars
<1>2. CtxInv' /\ GoroutineInv'
  BY DEF IInv, CtxCancel, TypeOK, CtxInv, GoroutineInv, HolderInv, CtxErr,
     CtxWatched, Active, serverVars, connVars, callVars
<1>3. DeadlineInv'
  BY CallAssumption DEF IInv, CtxCancel, TypeOK, HolderInv, GoroutineInv,
     DeadlineInv, CtxErr, CtxWatched, Active, serverVars, connVars, callVars
<1> QED BY QuietStep, <1>1, <1>2, <1>3 DEF IInv, CtxCancel, serverVars,
   connVars, callVars

LEMMA CtxTimeStep ==
  ASSUME IInv, NEW c \in Calls, CtxTime(c)
  PROVE  IInv'
<1>1. TypeOK'
  BY DEF IInv, CtxTime, TypeOK, Deadlines, CtxStates, Results, serverVars,
     connVars, callVars
<1>2. CtxInv' /\ GoroutineInv'
  BY DEF IInv, CtxTime, TypeOK, CtxInv, GoroutineInv, HolderInv, CtxErr,
     CtxWatched, Active, serverVars, connVars, callVars
<1>3. DeadlineInv'
  BY CallAssumption DEF IInv, CtxTime, TypeOK, HolderInv, GoroutineInv,
     DeadlineInv, CtxErr, CtxWatched, Active, serverVars, connVars, callVars
<1> QED BY QuietStep, <1>1, <1>2, <1>3 DEF IInv, CtxTime, serverVars,
   connVars, callVars

LEMMA NetworkFailsStep ==
  ASSUME IInv, NetworkFails
  PROVE  IInv'
<1>1. TypeOK'
  BY DEF IInv, NetworkFails, TypeOK, Deadlines, CtxStates, Results, connVars,
     callVars
<1>2. CtxInv' /\ GoroutineInv'
  BY DEF IInv, NetworkFails, TypeOK, CtxInv, GoroutineInv, HolderInv, CtxErr,
     connVars, callVars
<1>3. DeadlineInv'
  BY CallAssumption DEF IInv, NetworkFails, TypeOK, HolderInv, GoroutineInv,
     DeadlineInv, CtxErr, connVars, callVars
<1> QED BY QuietStep, <1>1, <1>2, <1>3 DEF IInv, NetworkFails, connVars,
   callVars

LEMMA ServerTakeStep ==
  ASSUME IInv, ServerTake
  PROVE  IInv'
<1>1. /\ Head(queue) \in Calls /\ running' = Head(queue)
      /\ queue' \in Seq(Calls) /\ served' = served \cup {Head(queue)}
      /\ In(Head(queue), queue)
      /\ \A x : In(x, queue') => In(x, queue)
      /\ NoDup(queue') /\ ~In(Head(queue), queue')
      /\ UNCHANGED replies
  BY InTail DEF IInv, TypeOK, PipeInv, ServerTake
<1>2. \A x \in Calls : (Pending(x)' => Pending(x)) /\ (Sent(x)' => Sent(x))
  BY <1>1, CallAssumption DEF Pending, Sent
<1>3. UNCHANGED <<callVars, ctx, after, watch, connVars, fault, stale>>
  BY DEF ServerTake
<1>4. TypeOK'
  BY SMTT(30), <1>1, <1>3 DEF IInv, TypeOK, ServerTake, callVars, connVars
<1>5. PipeInv'
  <2>1. \A x \in Calls : In(x, queue') => running' # x /\ ~In(x, replies')
    BY <1>1, CallAssumption DEF IInv, PipeInv, TypeOK
  <2>2. running' # NoCall => ~In(running', replies')
    BY <1>1, CallAssumption DEF IInv, PipeInv, TypeOK
  <2>3. \A x \in Calls : In(x, replies') => kind'[x] # "noreply"
    BY <1>1, <1>3 DEF IInv, PipeInv, callVars
  <2>4. \A x \in Calls : Fresh(x)' => ~Sent(x)'
    BY <1>2, <1>3 DEF IInv, PipeInv, Fresh, callVars
  <2> QED BY Zenon, <1>1, <2>1, <2>2, <2>3, <2>4 DEF IInv, PipeInv
<1>6. CleanInv'
  BY <1>2, <1>3 DEF IInv, CleanInv, callVars, connVars
<1>7. RetryInv'
  BY <1>2, <1>3 DEF IInv, RetryInv, callVars
<1>8. HolderInv' /\ ResultInv' /\ NoSocketLeak' /\ PoolInv' /\ OpenInv'
  BY <1>3 DEF IInv, HolderInv, ResultInv, NoSocketLeak, PoolInv, OpenInv, Active,
     callVars, connVars
<1>9. CtxInv' /\ GoroutineInv' /\ DeadlineInv'
  BY <1>3 DEF IInv, CtxInv, GoroutineInv, DeadlineInv, CtxErr, callVars, connVars
<1> QED BY <1>4, <1>5, <1>6, <1>7, <1>8, <1>9 DEF IInv

LEMMA ServerAnswerStep ==
  ASSUME IInv, ServerAnswer
  PROVE  IInv'
<1>1. /\ replies' \in Seq(Calls) /\ NoDup(replies')
      /\ \A x : In(x, replies')
                  <=> In(x, replies) \/ (x = running /\ kind[running] # "noreply")
      /\ running \in Calls /\ running' = NoCall
      /\ UNCHANGED <<queue, served>>
  <2>1. running \in Calls /\ NoDup(replies) /\ ~In(running, replies)
    BY DEF IInv, TypeOK, PipeInv, ServerAnswer
  <2> QED BY <2>1, InAppend DEF IInv, TypeOK, ServerAnswer
<1>2. \A x \in Calls : (Pending(x)' => Pending(x)) /\ (Sent(x)' => Sent(x))
  BY <1>1, CallAssumption DEF Pending, Sent
<1>3. UNCHANGED <<callVars, ctx, after, watch, connVars, fault, stale>>
  BY DEF ServerAnswer
<1>4. TypeOK'
  BY SMTT(30), <1>1, <1>3 DEF IInv, TypeOK, ServerAnswer, callVars, connVars
<1>5. PipeInv'
  <2>1. \A x \in Calls : In(x, queue') => running' # x /\ ~In(x, replies')
    BY <1>1, CallAssumption DEF IInv, PipeInv, TypeOK
  <2>2. running' # NoCall => ~In(running', replies')
    BY <1>1, CallAssumption DEF IInv, PipeInv, TypeOK
  <2>3. \A x \in Calls : In(x, replies') => kind'[x] # "noreply"
    BY <1>1, <1>3 DEF IInv, PipeInv, callVars
  <2>4. \A x \in Calls : Fresh(x)' => ~Sent(x)'
    BY <1>2, <1>3 DEF IInv, PipeInv, Fresh, callVars
  <2> QED BY Zenon, <1>1, <2>1, <2>2, <2>3, <2>4 DEF IInv, PipeInv
<1>6. CleanInv'
  BY <1>2, <1>3 DEF IInv, CleanInv, callVars, connVars
<1>7. RetryInv'
  BY <1>2, <1>3 DEF IInv, RetryInv, callVars
<1>8. HolderInv' /\ ResultInv' /\ NoSocketLeak' /\ PoolInv' /\ OpenInv'
  BY <1>3 DEF IInv, HolderInv, ResultInv, NoSocketLeak, PoolInv, OpenInv, Active,
     callVars, connVars
<1>9. CtxInv' /\ GoroutineInv' /\ DeadlineInv'
  BY <1>3 DEF IInv, CtxInv, GoroutineInv, DeadlineInv, CtxErr, callVars, connVars
<1> QED BY <1>4, <1>5, <1>6, <1>7, <1>8, <1>9 DEF IInv

-----------------------------------------------------------------------------
LEMMA InitIInv == Init => IInv
<1> SUFFICES ASSUME Init PROVE IInv
  OBVIOUS
<1>1. \A c : ~In(c, queue) /\ ~In(c, replies)
  BY DEF Init, In
<1>2. NoDup(queue) /\ NoDup(replies)
  BY DEF Init, NoDup
<1>3. TypeOK
  <2>1. queue \in Seq(Calls) /\ replies \in Seq(Calls)
    BY DEF Init
  <2>2. closed \in BOOLEAN /\ stale \in BOOLEAN
    BY Zenon DEF Init
  <2> QED BY <2>1, <2>2 DEF Init, TypeOK, Deadlines, CtxStates, Results
<1>4. PipeInv /\ CleanInv /\ RetryInv
  BY <1>1, <1>2, CallAssumption DEF Init, PipeInv, CleanInv, RetryInv, Pending,
     Sent, Fresh
<1>5. HolderInv /\ ResultInv /\ CtxInv /\ GoroutineInv
  BY CallAssumption DEF Init, HolderInv, ResultInv, CtxInv, GoroutineInv
<1>6. DeadlineInv /\ PoolInv /\ OpenInv /\ NoSocketLeak
  BY CallAssumption DEF Init, DeadlineInv, PoolInv, OpenInv, NoSocketLeak, Active
<1> QED BY <1>3, <1>4, <1>5, <1>6 DEF IInv

LEMMA NextIInv == IInv /\ [Next]_vars => IInv'
<1> SUFFICES ASSUME IInv, [Next]_vars PROVE IInv'
  OBVIOUS
<1>1. CASE UNCHANGED vars
  <2>1. UNCHANGED <<callVars, ctx, after, watch, connVars, serverVars, stale>>
    BY <1>1 DEF vars
  <2>2. TypeOK'
    BY SMTT(30), <2>1 DEF IInv, TypeOK, callVars, connVars, serverVars
  <2>3. CtxInv' /\ GoroutineInv' /\ DeadlineInv'
    BY Zenon, <2>1 DEF IInv, CtxInv, GoroutineInv, DeadlineInv, CtxErr, callVars, connVars
  <2> QED BY <2>1, <2>2, <2>3, QuietStep DEF IInv, connVars, serverVars
<1>2. ASSUME NEW c \in Calls, Begin(c) PROVE IInv'
  BY <1>2, BeginStep
<1>3. ASSUME NEW c \in Calls, Caller(c) PROVE IInv'
  BY <1>3, EnterStep, LockStep, WriteStep, ReadStep, ReadGarbledStep, IOFailsStep,
     CloseEnterStep, CloseSocketStep DEF Caller
<1>4. ASSUME NEW c \in Calls, AfterStart(c) \/ AfterFire(c) PROVE IInv'
  BY <1>4, AfterStartStep, AfterFireStep
<1>5. ASSUME NEW c \in Calls, Watcher(c) PROVE IInv'
  BY <1>5, WatchStopStep, WatchDoneStep, CancelArrivesStep, CancelFailsStep,
     CancelAcceptedStep, WatchEndStep DEF Watcher
<1>6. ASSUME NEW c \in Calls, CtxCancel(c) \/ CtxTime(c) PROVE IInv'
  BY <1>6, CtxCancelStep, CtxTimeStep
<1>7. CASE Server
  BY <1>7, ServerTakeStep, ServerAnswerStep DEF Server
<1>8. CASE NetworkFails
  BY <1>8, NetworkFailsStep
<1> QED BY <1>1, <1>2, <1>3, <1>4, <1>5, <1>6, <1>7, <1>8 DEF Next, Quiescent

(* The ownership invariant of the request layer holds for any number of    *)
(* calls, of any kind and with any contexts, made directly or through      *)
(* database/sql (sql.go doRequestWithPreamble, doStatementRequest,         *)
(* invalidateConnection; clientinfo.go sendRequestNoReply; driver.go       *)
(* Close).                                                                 *)
THEOREM Ownership == Spec => []IInv
<1> QED BY InitIInv, NextIInv, PTL DEF Spec

(* TypeOK for every set of calls.                                          *)
THEOREM TypeCorrect == Spec => []TypeOK
<1>1. IInv => TypeOK
  BY DEF IInv
<1> QED BY <1>1, Ownership, PTL

(* A socket handed back without opMu carries no I/O deadline unless the    *)
(* AfterFunc of a returned call has fired: the unlock path and the         *)
(* watcher's finished flag in sql.go are enough.                           *)
THEOREM HandedBack == Spec => []HandedBackUnbounded
<1>1. IInv => HandedBackUnbounded
  BY DEF IInv, DeadlineInv, HandedBackUnbounded
<1> QED BY <1>1, Ownership, PTL

(* However Close and invalidateConnection interleave, a closed Conn has a  *)
(* closed socket or a Close about to close it.                             *)
THEOREM SocketNotLeaked == Spec => []NoSocketLeak
<1>1. IInv => NoSocketLeak
  BY DEF IInv
<1> QED BY <1>1, Ownership, PTL

(* Replies are matched by position only, and yet no call ever reads the    *)
(* reply of another request while the connection is not closed.            *)
THEOREM RepliesMatch == Spec => ReplyMatching
<1>1. ASSUME IInv, [Next]_vars, NEW c \in Calls, got'[c] # got[c], ~closed
      PROVE  got'[c] = c
  <2>1. \/ got' = got
        \/ \E d \in Calls : Read(d) \/ ReadGarbled(d)
    BY ZenonT(30), <1>1 DEF Next, Caller, Watcher, Server, Quiescent, Begin, Enter, Lock,
       Write, IOFails, CloseEnter, CloseSocket, AfterStart, AfterFire, WatchStop,
       WatchDone, CancelArrives, CancelFails, CancelAccepted, WatchEnd, CtxCancel,
       CtxTime, ServerTake, ServerAnswer, NetworkFails, vars, callVars
  <2>2. PICK d \in Calls : Read(d) \/ ReadGarbled(d)
    BY <1>1, <2>1
  <2>3. /\ got' = [got EXCEPT ![d] = Head(replies)] /\ pc[d] = "read"
        /\ replies # <<>>
    BY Zenon, <2>2 DEF Read, ReadGarbled
  <2>4. d = c
    BY <1>1, <2>3 DEF IInv, TypeOK
  <2>5. Head(replies) \in Calls /\ In(Head(replies), replies)
    BY SMTT(30), <1>1, <2>3, InTail DEF IInv, TypeOK
  <2>6. pc[Head(replies)] = "read"
    BY Zenon, <1>1, <2>5 DEF IInv, PipeInv, CleanInv, Pending
  <2>7. Head(replies) = c
    BY SMTT(30), <1>1, <2>3, <2>4, <2>5, <2>6 DEF IInv, HolderInv
  <2> QED BY SMTT(30), <1>1, <2>3, <2>4, <2>7 DEF IInv, TypeOK
<1>2. IInv /\ [Next]_vars =>
        [\A c \in Calls : got'[c] # got[c] /\ ~closed => got'[c] = c]_vars
  BY Zenon, <1>1
<1> QED BY <1>2, Ownership, PTL DEF Spec, ReplyMatching

(* Through database/sql, an executed request reports ErrBadConn, and so is *)
(* run a second time, only after a real failure or a stale AfterFunc.      *)
THEOREM RetrySafety == ASSUME Pool PROVE Spec => []ErrBadConnExplained
<1>1. IInv => ErrBadConnExplained
  <2> SUFFICES ASSUME IInv, NEW c \in served \ Background,
                      result[c] = "ErrBadConn", fault = "none", ~stale
               PROVE  FALSE
    BY DEF ErrBadConnExplained
  <2>1. c \in Calls \ Background /\ Sent(c)
    BY DEF IInv, TypeOK, Sent
  <2> QED BY <2>1 DEF IInv, RetryInv
<1> QED BY <1>1, Ownership, PTL

(* A read or write of doRequest or doStatementRequest that fails after the *)
(* deadline of its context never reports ErrBadConn: ctxIOError closes the *)
(* window between the socket's timer and the context's.                    *)
THEOREM DeadlineReported == Spec => DeadlineIsCtxError
<1>1. ASSUME IInv, [Next]_vars, NEW c \in Calls, kind[c] # "noreply",
             pc[c] \in {"write", "read"}, result'[c] = "ErrBadConn"
      PROVE  ctx[c] = "live"
  <2> DEFINE Type == pc \in [Calls -> {"idle", "enter", "lock", "write", "read", "done"}]
                     /\ result \in [Calls -> Results]
             Now == /\ Type /\ kind[c] # "noreply" /\ pc[c] \in {"write", "read"}
                    /\ result[c] = "none" /\ result'[c] = "ErrBadConn"
  <2>1. Now
    <3>1. pc[c] # "done"
      BY <1>1
    <3>2. result[c] = "none"
      BY Zenon, <1>1, <3>1 DEF IInv, ResultInv
    <3>3. Type
      BY Zenon, <1>1 DEF IInv, TypeOK
    <3> QED BY Zenon, <1>1, <3>2, <3>3
  <2>2. \/ result' = result
        \/ \E d \in Calls : Enter(d) \/ CloseEnter(d) \/ CloseSocket(d) \/ Write(d)
                            \/ Read(d) \/ ReadGarbled(d) \/ IOFails(d)
    BY ZenonT(30), <1>1 DEF Next, Caller, Watcher, Server, Quiescent, Begin, Lock, AfterStart,
       AfterFire, WatchStop, WatchDone, CancelArrives, CancelFails, CancelAccepted,
       WatchEnd, CtxCancel, CtxTime, ServerTake, ServerAnswer, NetworkFails, vars,
       callVars
  (* Another call changes its own result only.                             *)
  <2>3. ASSUME NEW d \in Calls, NEW r, result' = [result EXCEPT ![d] = r]
        PROVE  d = c /\ r = "ErrBadConn"
    BY <2>1, <2>3
  <2>4. \E d \in Calls : ReadGarbled(d) \/ IOFails(d)
    <3>1. ASSUME NEW d \in Calls, Enter(d)
          PROVE  FALSE
      <4>1. pc[d] = "enter" /\ (result' = result \/ \E r : result' = [result EXCEPT ![d] = r])
        BY Zenon, <3>1 DEF Enter, Return
      <4> QED BY <2>1, <2>3, <4>1
    <3>2. ASSUME NEW d \in Calls, CloseEnter(d) \/ CloseSocket(d)
          PROVE  FALSE
      <4>1. result' = result \/ result' = [result EXCEPT ![d] = "ok"]
        BY Zenon, <3>2 DEF CloseEnter, CloseSocket, Return
      <4> QED BY <2>1, <2>3, <4>1
    <3>3. ASSUME NEW d \in Calls, Write(d)
          PROVE  FALSE
      <4>1. result' = result \/ result' = [result EXCEPT ![d] = "ok"]
        BY Zenon, <3>3 DEF Write, Return
      <4> QED BY <2>1, <2>3, <4>1
    <3>4. ASSUME NEW d \in Calls, Read(d)
          PROVE  FALSE
      <4>1. \/ result' = [result EXCEPT ![d] = "ctxErr"]
            \/ result' = [result EXCEPT ![d] = "ok"]
        BY Zenon, <3>4 DEF Read, Return
      <4> QED BY <2>3, <4>1
    <3>5. result' # result
      BY <2>1
    <3> QED BY Zenon, <2>2, <3>1, <3>2, <3>3, <3>4, <3>5
  <2>5. AbortIO(c)
    <3>1. PICK d \in Calls : ReadGarbled(d) \/ IOFails(d)
      BY <2>4
    <3>2. AbortIO(d) \/ result' = [result EXCEPT ![d] = "protocolErr"]
      BY Zenon, <3>1 DEF ReadGarbled, IOFails, Return
    <3>3. result' # [result EXCEPT ![d] = "protocolErr"]
      BY <2>3
    <3>4. \E r : result' = [result EXCEPT ![d] = r]
      BY Zenon, <3>2, <3>3 DEF AbortIO, Return
    <3>5. d = c
      BY <2>3, <3>4
    <3> QED BY Zenon, <3>2, <3>3, <3>5
  <2>6. result' = [result EXCEPT ![c] = IF ctxIOError(c) THEN "ctxErr" ELSE "ErrBadConn"]
    BY Zenon, <2>1, <2>5 DEF AbortIO, Return
  <2>7. ~ctxIOError(c)
    BY <2>3, <2>6
  <2> QED BY <1>1, <2>7 DEF IInv, TypeOK, CtxStates, ctxIOError
<1>2. IInv /\ [Next]_vars =>
        [\A c \in Calls :
           /\ pc[c] \in {"write", "read"}
           /\ kind[c] # "noreply"
           /\ result'[c] = "ErrBadConn"
           /\ fault = "none"
           => ctx[c] = "live"]_vars
  BY <1>1
<1> QED BY <1>2, Ownership, PTL DEF Spec, DeadlineIsCtxError

=============================================================================
