----------------------------- MODULE ConnProofs -----------------------------
(***************************************************************************)
(* Proofs about one connection, as Connect opens it and as its users find  *)
(* it in the pool.                                                         *)
(*                                                                         *)
(* Connect, for any set of configurations and servers: which socket is     *)
(* open when, and what the connection is handed over with.                 *)
(*                                                                         *)
(* Session, for any number of users, client info keys and commitment       *)
(* levels: transactions stay with their user, and a reset that succeeds    *)
(* restores the session.                                                   *)
(*                                                                         *)
(* Options, for any data source name: the parsers of the options, Validate *)
(* and what the connection sends know the same limits and names.           *)
(***************************************************************************)
EXTENDS Integers, Connect, Session, DataSourceName, TLAPS

(* Where Connect may be: the phases of each stage, and no result before    *)
(* the end.                                                                *)
StageInv ==
  /\ stage \in Exchanges => phase \in {"dial", "tls", "write", "load", "arm", "wait"}
  /\ stage = "return" => phase \in {"stop", "clear", "cleared"}
  /\ stage \in {"package", "done"} => phase = "wait"
  /\ stage # "done" => result = "none"

(* The open socket is the one of the exchange under way, and then that of  *)
(* the connection, unless opening it failed at the end.                    *)
Current(s) ==
  \/ stage \in Exchanges /\ phase # "dial" /\ s = S
  \/ stage \in {"return", "package"} /\ s = "database"
  \/ stage = "done" /\ result = "ok" /\ s = "database"

SocketInv == \A s \in Sockets : sock[s] = "open" <=> Current(s)

(* An AfterFunc goroutine runs only once the context is done.  If it was   *)
(* not when the AfterFunc was stopped, the database socket has no          *)
(* goroutine from then on, and loses its deadlines one after the other.    *)
HandoverInv ==
  /\ \A s \in Sockets : after[s] \in {"started", "half", "ran"} => done
  /\ ~ended /\ (phase \in {"clear", "cleared"} \/ stage = "package" \/ result = "ok") =>
       after["database"] = "off"
  /\ ~ended /\ (phase = "cleared" \/ stage = "package" \/ result = "ok") =>
       ctxDl["database"] = "none"
  /\ ~ended /\ (stage = "package" \/ result = "ok") =>
       read["database"] = "none" /\ write["database"] = "none"

ConnectIInv == TypeOK /\ StageInv /\ SocketInv /\ HandoverInv

-----------------------------------------------------------------------------
LEMMA SocketOf ==
  /\ S \in Sockets
  /\ stage \in {"exchange", "authenticate"} => S = "signon"
  /\ stage = "mapper" => S = "mapper"
  /\ stage \notin {"exchange", "authenticate", "mapper"} => S = "database"
BY DEF S, Sockets

LEMMA ShutType ==
  ASSUME TypeOK, NEW s \in Sockets, Shut(s)
  PROVE  /\ sock' \in [Sockets -> {"none", "open", "closed"}]
         /\ after' \in [Sockets -> {"off", "armed", "started", "half", "ran"}]
         /\ UNCHANGED <<read, write, ctxDl>>
BY DEF TypeOK, Shut, Stopped

LEMMA BrokenType ==
  ASSUME TypeOK, Broken
  PROVE  /\ sock' \in [Sockets -> {"none", "open", "closed"}]
         /\ after' \in [Sockets -> {"off", "armed", "started", "half", "ran"}]
         /\ UNCHANGED <<read, write, ctxDl>>
         /\ stage' \in Stages /\ phase' \in {"dial", "wait"}
         /\ result' \in {"none", "ok", "ctxErr", "err", "dialErr"}
<1>1. Shut(S) /\ S \in Sockets
  BY SocketOf DEF Broken
<1>2. /\ stage' \in Stages /\ phase' \in {"dial", "wait"}
      /\ result' \in {"none", "ok", "ctxErr", "err", "dialErr"}
  BY DEF Broken, Goto, Fail, TypeOK, Stages
<1> QED BY <1>1, <1>2, ShutType

LEMMA DeadlinesType ==
  ASSUME TypeOK, NEW s \in Sockets, SetDeadlines(s)
  PROVE  /\ {read', write'} \subseteq [Sockets -> Deadlines]
         /\ ctxDl' \in [Sockets -> Deadlines \ {"idle"}]
         /\ after' \in [Sockets -> {"off", "armed", "started", "half", "ran"}]
BY DEF TypeOK, SetDeadlines, Deadlines

LEMMA ConnectTypeStep ==
  ASSUME TypeOK, [Next]_vars
  PROVE  TypeOK'
<1>0. S \in Sockets
  BY SocketOf
<1> DEFINE Socks == /\ sock' \in [Sockets -> {"none", "open", "closed"}]
                    /\ {read', write'} \subseteq [Sockets -> Deadlines]
                    /\ ctxDl' \in [Sockets -> Deadlines \ {"idle"}]
                    /\ after' \in [Sockets -> {"off", "armed", "started", "half", "ran"}]
           Place == /\ stage' \in Stages
                    /\ phase' \in {"dial", "tls", "write", "load", "arm", "wait", "stop",
                                   "clear", "cleared"}
                    /\ result' \in {"none", "ok", "ctxErr", "err", "dialErr"}
           Rest == /\ cfg' \in Settings /\ part' \in 1..2 /\ seen' \in Deadlines \ {"idle"}
                   /\ level' \in Nat /\ sent' \in {0, 1, 3, 7}
                   /\ {timeUp', done', ended'} \subseteq BOOLEAN
<1> SUFFICES Socks /\ Place /\ Rest
  BY DEF TypeOK
<1>1. CASE Dial
  <2>1. Rest
    BY <1>1 DEF Dial, TypeOK, ctxVars
  <2>2. Place
    BY <1>1 DEF Dial, TypeOK, Goto, Fail, Stages
  <2>3. Socks
    <3>1. sock' \in [Sockets -> {"none", "open", "closed"}]
      BY <1>0, <1>1, ShutType DEF Dial, TypeOK, sockVars
    <3>2. SetDeadlines(S) \/ Shut(S) \/ UNCHANGED <<read, write, ctxDl, after>>
      BY Zenon, <1>1 DEF Dial, sockVars
    <3> QED BY <1>0, <3>1, <3>2, ShutType, DeadlinesType DEF TypeOK
  <2> QED BY <2>1, <2>2, <2>3
<1>2. CASE Handshake
  <2>1. Rest
    BY <1>2 DEF Handshake, TypeOK, ctxVars
  <2>2. Place
    BY <1>2 DEF Handshake, TypeOK, Goto, Fail, Stages
  <2>3. Socks
    BY <1>0, <1>2, ShutType, DeadlinesType DEF Handshake, TypeOK
  <2> QED BY <2>1, <2>2, <2>3
<1>3. CASE Write
  <2>1. Rest
    BY <1>3 DEF Write, TypeOK, ctxVars, passwordAuthScheme
  <2>2. Place
    BY <1>3, BrokenType DEF Write, TypeOK
  <2>3. Socks
    BY <1>3, BrokenType DEF Write, TypeOK, sockVars
  <2> QED BY <2>1, <2>2, <2>3
<1>4. CASE Load
  BY <1>0, <1>4 DEF Load, TypeOK, ctxVars, sockVars
<1>5. CASE Arm
  <2>1. read' \in [Sockets -> Deadlines]
    BY <1>0, <1>5 DEF Arm, TypeOK, Deadlines
  <2> QED BY <1>5, <2>1 DEF Arm, TypeOK, ctxVars
<1>6. CASE Reply
  <2>1. Rest
    BY <1>6, ConnectAssumption DEF Reply, TypeOK, ctxVars
  <2>2. Place
    BY <1>6, BrokenType DEF Reply, TypeOK, Accepted, NextExchange, Goto, Stages, Exchanges
  <2>3. Socks
    <3>1. Broken \/ UNCHANGED sockVars \/ \E s \in Sockets : Shut(s)
      BY <1>6 DEF Reply, Accepted, Sockets
    <3> QED BY <3>1, BrokenType, ShutType DEF TypeOK, sockVars
  <2> QED BY <2>1, <2>2, <2>3
<1>7. CASE ReadTimesOut \/ PeerCloses
  BY <1>7, BrokenType DEF ReadTimesOut, PeerCloses, TypeOK, ctxVars
<1>8. CASE Stop
  <2>1. after' \in [Sockets -> {"off", "armed", "started", "half", "ran"}]
    BY <1>8 DEF Stop, Stopped, TypeOK
  <2> QED BY <1>8, <2>1 DEF Stop, TypeOK, ctxVars
<1>9. CASE Clear
  <2>1. Place /\ Rest
    BY <1>9 DEF Clear, TypeOK, ctxVars, Goto, Stages
  <2>2. Socks
    BY <1>9 DEF Clear, TypeOK, Deadlines
  <2> QED BY <2>1, <2>2
<1>10. CASE NewPackageState
  <2>1. Place /\ Rest
    BY <1>10 DEF NewPackageState, TypeOK, ctxVars, Goto, Fail, Stages
  <2>2. Socks
    BY <1>10, ShutType DEF NewPackageState, TypeOK, sockVars, Sockets
  <2> QED BY <2>1, <2>2
<1>11. ASSUME NEW s \in Sockets, AfterFunc(s)
       PROVE  Socks /\ Place /\ Rest
  BY <1>11 DEF AfterFunc, AfterStarts, SetCtxDeadline, SetDeadline, TypeOK, ctxVars, Deadlines
<1>12. CASE Cancel \/ TimePasses \/ CtxExpires
  <2>1. {timeUp', done', ended'} \subseteq BOOLEAN
    BY Zenon, <1>12 DEF Cancel, TimePasses, CtxExpires, TypeOK
  <2> QED BY <1>12, <2>1 DEF Cancel, TimePasses, CtxExpires, TypeOK, sockVars
<1>13. CASE UNCHANGED vars
  BY <1>13 DEF vars, TypeOK, ctxVars, sockVars
<1> QED BY <1>1, <1>2, <1>3, <1>4, <1>5, <1>6, <1>7, <1>8, <1>9, <1>10, <1>11, <1>12,
   <1>13 DEF Next, Connector

-----------------------------------------------------------------------------
(* Who moves the stage, and when.                                          *)
LEMMA StageStep ==
  ASSUME TypeOK, StageInv, [Next]_vars
  PROVE  StageInv'
<1> USE DEF StageInv
<1>1. CASE Dial
  BY <1>1 DEF Dial, Goto, Fail, Exchanges, Stages
<1>2. CASE Handshake
  BY <1>2 DEF Handshake, Goto, Fail, Exchanges, Stages, TypeOK
<1>3. CASE Write
  BY <1>3 DEF Write, Broken, Goto, Fail, Exchanges, Stages
<1>4. CASE Load \/ Arm
  BY <1>4 DEF Load, Arm, Exchanges, Stages, TypeOK
<1>5. CASE Reply
  <2>1. stage \in Exchanges /\ phase = "wait"
    BY <1>5 DEF Reply
  <2>2. CASE UNCHANGED <<stage, result>> /\ phase' \in {"load", "wait"}
    BY <2>1, <2>2 DEF Exchanges, Stages
  <2>3. CASE Accepted /\ UNCHANGED result
    BY <2>1, <2>3 DEF Accepted, NextExchange, Goto, Exchanges, Stages
  <2>4. CASE Broken
    BY <2>1, <2>4 DEF Broken, Goto, Fail, Exchanges, Stages
  <2> QED BY <1>5, <2>2, <2>3, <2>4 DEF Reply
<1>6. CASE ReadTimesOut \/ PeerCloses
  BY <1>6 DEF ReadTimesOut, PeerCloses, Broken, Goto, Fail, Exchanges, Stages
<1>7. CASE Stop \/ Clear \/ NewPackageState
  BY <1>7 DEF Stop, Clear, NewPackageState, Goto, Fail, Exchanges, Stages, TypeOK
<1>8. CASE UNCHANGED <<stage, phase, result>>
  BY <1>8
<1> QED BY <1>1, <1>2, <1>3, <1>4, <1>5, <1>6, <1>7, <1>8 DEF Next, Connector,
   AfterFunc, AfterStarts, SetCtxDeadline, SetDeadline, Cancel, TimePasses, CtxExpires,
   vars

(* A socket that is shut is closed, and the others stay as they are.       *)
LEMMA ShutCloses ==
  ASSUME TypeOK, NEW s \in Sockets, Shut(s)
  PROVE  \A r \in Sockets : sock'[r] = "open" <=> sock[r] = "open" /\ r # s
BY DEF TypeOK, Shut

LEMMA SocketStep ==
  ASSUME TypeOK, StageInv, SocketInv, [Next]_vars
  PROVE  SocketInv'
<1> USE DEF StageInv, SocketInv
<1>0. S \in Sockets
  BY SocketOf
<1>b. ASSUME Broken, stage \in Exchanges, phase # "dial"
      PROVE  SocketInv'
  <2>1. \A r \in Sockets : sock'[r] # "open"
    BY <1>0, <1>b, ShutCloses DEF Broken, Current, Exchanges
  <2>2. \A r \in Sockets : ~Current(r)'
    BY <1>b DEF Broken, Goto, Fail, Current, Exchanges, Stages
  <2> QED BY <2>1, <2>2
<1>1. CASE Dial
  <2>1. stage \in Exchanges /\ phase = "dial" /\ \A r \in Sockets : sock[r] # "open"
    BY <1>1 DEF Dial, Current, Exchanges
  <2>2. CASE sock' = [sock EXCEPT ![S] = "open"] /\ phase' \in {"tls", "write"} /\ stage' = stage
    BY <1>0, <2>1, <2>2 DEF Current, S, Exchanges, TypeOK
  <2>3. CASE UNCHANGED sockVars /\ (Goto("seeds", "dial") \/ Fail("dialErr"))
    BY <2>1, <2>3 DEF sockVars, Goto, Fail, Current, Exchanges, Stages
  <2>4. CASE Shut(S) /\ Fail("err")
    BY <1>0, <2>1, <2>4, ShutCloses DEF Goto, Fail, Current, Exchanges, Stages
  <2> QED BY <1>1, <2>2, <2>3, <2>4 DEF Dial
<1>2. CASE Handshake
  <2>1. stage \in Exchanges /\ phase = "tls"
    BY <1>2 DEF Handshake, TypeOK, Exchanges
  <2>2. CASE UNCHANGED <<sock, stage>> /\ phase' = "write"
    BY <2>1, <2>2 DEF Current, S, Exchanges
  <2>3. CASE Shut(S) /\ Fail("dialErr")
    <3>1. \A r \in Sockets : sock'[r] # "open"
      BY <1>0, <2>1, <2>3, ShutCloses DEF Current, Exchanges
    <3> QED BY <2>3, <3>1 DEF Goto, Fail, Current, Exchanges, Stages
  <2> QED BY <1>2, <2>2, <2>3 DEF Handshake
<1>3. CASE Write
  <2>1. stage \in Exchanges /\ phase = "write"
    BY <1>3 DEF Write
  <2>2. CASE UNCHANGED <<sock, stage>> /\ phase' \in {"load", "wait"}
    BY <2>1, <2>2 DEF Current, S, Exchanges
  <2> QED BY <1>3, <1>b, <2>1, <2>2 DEF Write, sockVars
<1>4. CASE Load \/ Arm
  <2>1. /\ stage \in Exchanges /\ phase # "dial"
        /\ UNCHANGED <<sock, stage>> /\ phase' \in {"arm", "wait"}
    BY <1>4 DEF Load, Arm, sockVars, TypeOK, Exchanges
  <2> QED BY <2>1 DEF Current, S, Exchanges
<1>5. CASE Reply
  <2>1. stage \in Exchanges /\ phase = "wait"
    BY <1>5 DEF Reply
  <2>2. CASE UNCHANGED <<sock, stage>> /\ phase' \in {"load", "wait"}
    BY <2>1, <2>2 DEF Current, S, Exchanges
  <2>3. CASE Accepted /\ UNCHANGED result
    <3>1. CASE stage \in {"authenticate", "mapper"}
      <4>1. Shut(S) /\ stage' \in {"mapper", "seeds"} /\ phase' = "dial"
        BY <2>3, <3>1, SocketOf DEF Accepted, Goto
      <4>2. \A r \in Sockets : sock'[r] # "open"
        BY <1>0, <2>1, <4>1, ShutCloses DEF Current, Exchanges
      <4> QED BY <4>1, <4>2 DEF Current, Exchanges, Stages
    <3>2. CASE stage \in {"exchange", "seeds", "start", "attributes", "libraries"}
      <4>1. /\ UNCHANGED sock /\ S' = S
            /\ \/ stage' \in Exchanges /\ phase' = "write"
               \/ stage' = "return" /\ S = "database"
        BY <2>3, <3>2 DEF Accepted, NextExchange, Goto, S, sockVars, Exchanges, Stages
      <4> QED BY <2>1, <4>1 DEF Current, Exchanges, Stages
    <3> QED BY <2>1, <3>1, <3>2 DEF Exchanges, Stages
  <2> QED BY <1>5, <1>b, <2>1, <2>2, <2>3 DEF Reply, sockVars
<1>6. CASE ReadTimesOut \/ PeerCloses
  BY <1>6, <1>b DEF ReadTimesOut, PeerCloses
<1>7. CASE Stop \/ Clear
  BY <1>7 DEF Stop, Clear, Goto, Current, Exchanges, Stages, TypeOK
<1>8. CASE NewPackageState
  <2>1. stage = "package" /\ stage' = "done"
    BY <1>8 DEF NewPackageState, Goto, Fail
  <2>2. CASE result' = "ok" /\ UNCHANGED sock
    BY <2>1, <2>2 DEF Current, Exchanges
  <2>3. CASE Shut("database") /\ result' = "err"
    BY <2>1, <2>3, ShutCloses DEF Current, Exchanges, Sockets
  <2> QED BY <1>8, <2>2, <2>3 DEF NewPackageState, Fail, sockVars
<1>9. CASE UNCHANGED <<stage, phase, result, sock>>
  BY <1>9 DEF Current, S
<1> QED BY <1>1, <1>2, <1>3, <1>4, <1>5, <1>6, <1>7, <1>8, <1>9 DEF Next, Connector,
   AfterFunc, AfterStarts, SetCtxDeadline, SetDeadline, Cancel, TimePasses, CtxExpires,
   vars, sockVars

-----------------------------------------------------------------------------
LEMMA HandoverStep ==
  ASSUME TypeOK, StageInv, HandoverInv, [Next]_vars
  PROVE  HandoverInv'
<1> USE DEF StageInv, HandoverInv
(* While an exchange runs there is nothing to show but the first conjunct. *)
<1>e. ASSUME stage \in Exchanges, phase' \notin {"clear", "cleared"}, stage' # "package",
             result' # "ok", done' = done,
             \A s \in Sockets : after'[s] \in {"off", "armed", after[s]}
      PROVE  HandoverInv'
  BY <1>e DEF Exchanges
<1>b. ASSUME stage \in Exchanges, Broken, done' = done
      PROVE  HandoverInv'
  <2>1. \A s \in Sockets : after'[s] \in {"off", "armed", after[s]}
    BY <1>b, SocketOf DEF Broken, Shut, Stopped, TypeOK
  <2>2. phase' \notin {"clear", "cleared"} /\ stage' # "package" /\ result' # "ok"
    BY <1>b DEF Broken, Goto, Fail, Exchanges
  <2> QED BY <1>b, <1>e, <2>1, <2>2
<1>1. CASE Dial \/ Handshake
  <2>1. stage \in Exchanges /\ done' = done
    BY <1>1 DEF Dial, Handshake, Exchanges, TypeOK, ctxVars
  <2>2. \A s \in Sockets : after'[s] \in {"off", "armed", after[s]}
    BY <1>1, SocketOf DEF Dial, Handshake, SetDeadlines, Shut, Stopped, sockVars, TypeOK
  <2>3. phase' \notin {"clear", "cleared"} /\ stage' # "package" /\ result' # "ok"
    BY <1>1, <2>1 DEF Dial, Handshake, Goto, Fail, Exchanges
  <2> QED BY <1>e, <2>1, <2>2, <2>3
<1>2. CASE Write
  <2>1. stage \in Exchanges /\ done' = done
    BY <1>2 DEF Write, ctxVars
  <2>2. CASE UNCHANGED <<stage, result, after>> /\ phase' \in {"load", "wait"}
    BY <1>e, <2>1, <2>2 DEF Exchanges
  <2> QED BY <1>2, <1>b, <2>1, <2>2 DEF Write, sockVars
<1>3. CASE Load \/ Arm
  <2>1. /\ stage \in Exchanges /\ done' = done /\ UNCHANGED <<stage, result, after>>
        /\ phase' \in {"arm", "wait"}
    BY <1>3 DEF Load, Arm, Exchanges, TypeOK, ctxVars, sockVars
  <2> QED BY <1>e, <2>1 DEF Exchanges
<1>4. CASE Reply
  <2>1. stage \in Exchanges /\ done' = done
    BY <1>4 DEF Reply, ctxVars
  <2>2. CASE UNCHANGED <<stage, result, after>> /\ phase' \in {"load", "wait"}
    BY <1>e, <2>1, <2>2 DEF Exchanges
  <2>3. CASE Accepted /\ UNCHANGED result
    <3>1. phase' \notin {"clear", "cleared"} /\ stage' # "package" /\ result' # "ok"
      BY <2>1, <2>3 DEF Accepted, NextExchange, Goto, Exchanges, Stages
    <3>2. \A s \in Sockets : after'[s] \in {"off", "armed", after[s]}
      BY <2>3 DEF Accepted, Shut, Stopped, sockVars, TypeOK
    <3> QED BY <1>e, <2>1, <3>1, <3>2
  <2> QED BY <1>4, <1>b, <2>1, <2>2, <2>3 DEF Reply, sockVars
<1>5. CASE ReadTimesOut \/ PeerCloses
  BY <1>5, <1>b DEF ReadTimesOut, PeerCloses, ctxVars
<1>6. CASE Stop
  <2>1. /\ phase = "stop" /\ phase' = "clear" /\ after' = Stopped("database")
        /\ ended' = done /\ UNCHANGED <<stage, done, result>>
    BY <1>6 DEF Stop, ctxVars
  <2>2. stage = "return" /\ result = "none"
    BY <2>1 DEF TypeOK, Stages, Exchanges
  <2>3. ~ended' => after'["database"] = "off"
    BY <2>1 DEF Stopped, TypeOK, Sockets
  <2>4. \A s \in Sockets : after'[s] \in {"started", "half", "ran"} => done'
    BY <2>1 DEF Stopped, TypeOK
  <2> QED BY <2>1, <2>2, <2>3, <2>4
<1>7. CASE Clear
  <2>1. /\ UNCHANGED <<after, done, ended, result>> /\ stage = "return" /\ result = "none"
        /\ phase \in {"clear", "cleared"}
    BY <1>7 DEF Clear, ctxVars, TypeOK, Stages, Exchanges
  <2>2. CASE phase' = "cleared" /\ ctxDl' = [ctxDl EXCEPT !["database"] = "none"] /\ stage' = stage
    BY <2>1, <2>2 DEF TypeOK, Sockets
  <2>3. CASE /\ phase = "cleared" /\ stage' = "package" /\ phase' = "wait"
             /\ read' = [read EXCEPT !["database"] = "none"]
             /\ write' = [write EXCEPT !["database"] = "none"] /\ ctxDl' = ctxDl
    BY <2>1, <2>3 DEF TypeOK, Sockets
  <2> QED BY <1>7, <2>2, <2>3 DEF Clear, Goto
<1>8. CASE NewPackageState
  <2>1. stage = "package" /\ stage' = "done" /\ phase' = "wait" /\ UNCHANGED <<done, ended>>
    BY <1>8 DEF NewPackageState, Goto, Fail, ctxVars
  <2>2. CASE UNCHANGED sockVars
    BY <2>1, <2>2 DEF sockVars
  <2>3. CASE Shut("database") /\ result' = "err"
    BY <2>1, <2>3 DEF Shut, Stopped, TypeOK
  <2> QED BY <1>8, <2>2, <2>3 DEF NewPackageState, Fail
<1>9. ASSUME NEW s \in Sockets, AfterFunc(s)
      PROVE  HandoverInv'
  <2>1. /\ UNCHANGED <<stage, phase, result, done, ended>>
        /\ after[s] # "off" /\ done
    BY <1>9 DEF AfterFunc, AfterStarts, SetCtxDeadline, SetDeadline, ctxVars, TypeOK
  <2>2. \A r \in Sockets : r # s => /\ after'[r] = after[r] /\ read'[r] = read[r]
                                    /\ write'[r] = write[r] /\ ctxDl'[r] = ctxDl[r]
    BY <1>9 DEF AfterFunc, AfterStarts, SetCtxDeadline, SetDeadline, TypeOK
  <2> QED BY <2>1, <2>2 DEF Sockets
<1>10. CASE Cancel \/ TimePasses \/ CtxExpires
  <2>1. UNCHANGED <<stage, phase, result, ended, sockVars>>
    BY <1>10 DEF Cancel, TimePasses, CtxExpires
  <2>2. done => done'
    BY <1>10 DEF Cancel, TimePasses, CtxExpires
  <2> QED BY <2>1, <2>2 DEF sockVars
<1>11. CASE UNCHANGED vars
  BY <1>11 DEF vars, ctxVars, sockVars
<1> QED BY <1>1, <1>2, <1>3, <1>4, <1>5, <1>6, <1>7, <1>8, <1>9, <1>10, <1>11
   DEF Next, Connector

-----------------------------------------------------------------------------
(* The inductive invariant of Connect.                                     *)
THEOREM ConnectInvariant == Spec => []ConnectIInv
<1>1. Init => ConnectIInv
  <2> SUFFICES ASSUME Init PROVE ConnectIInv
    OBVIOUS
  <2>1. TypeOK
    <3>1. {timeUp, done, ended} \subseteq BOOLEAN
      BY Zenon DEF Init
    <3> QED BY <3>1 DEF Init, TypeOK, Stages, Deadlines, Sockets
  <2>2. StageInv
    BY DEF Init, StageInv, Stages, Exchanges
  <2>3. SocketInv
    BY DEF Init, SocketInv, Current, Stages, Exchanges
  <2>4. HandoverInv
    BY DEF Init, HandoverInv
  <2> QED BY <2>1, <2>2, <2>3, <2>4 DEF ConnectIInv
<1>2. ConnectIInv /\ [Next]_vars => ConnectIInv'
  BY ConnectTypeStep, StageStep, SocketStep, HandoverStep DEF ConnectIInv
<1> QED BY <1>1, <1>2, PTL DEF Spec

(* driver.go openConn, signon.go:31, dbconn.go:52: at most one socket is    *)
(* open; after an error none, after success the connection's, for every     *)
(* configuration and server.                                                *)
THEOREM SocketsClosed == Spec => []NoSocketLeft
<1>1. ConnectIInv => NoSocketLeft
  <2> SUFFICES ASSUME ConnectIInv PROVE NoSocketLeft
    OBVIOUS
  <2> DEFINE open == {s \in Sockets : sock[s] = "open"}
  <2>1. open = {s \in Sockets : Current(s)}
    BY DEF ConnectIInv, SocketInv
  <2>2. \A s, t \in open : s = t
    BY <2>1, SocketOf DEF Current, Exchanges
  <2>3. Returned => open = IF result = "ok" THEN {"database"} ELSE {}
    BY <2>1 DEF Returned, Current, Exchanges, Sockets
  <2> QED BY <2>2, <2>3 DEF NoSocketLeft, ConnectIInv
<1> QED BY <1>1, ConnectInvariant, PTL

(* dbconn.go:43, wire.go:18: a connection opened before its context ended   *)
(* has no deadline and no goroutine that will set one, for every            *)
(* interleaving of SetDeadline, Read, the AfterFunc and the context.        *)
THEOREM HandedOver == Spec => []HandedOverUnbounded
<1>1. ConnectIInv => HandedOverUnbounded
  BY DEF ConnectIInv, HandoverInv, HandedOverUnbounded
<1> QED BY <1>1, ConnectInvariant, PTL

-----------------------------------------------------------------------------
(* Transactions: both sides agree on autocommit; an open transaction holds *)
(* changes of its user only; with autocommit nothing is uncommitted, nor   *)
(* after the rollback of a reset; a user is without autocommit and without *)
(* a transaction only after their own Commit, Rollback or reset failed.    *)
TxInv ==
  /\ autoCommit = srvAuto
  /\ tx => ~autoCommit /\ pc \in {"use", "gone"} /\ pending \subseteq {user}
  /\ autoCommit \/ pc \in {"attributes", "info", "libraries"} => pending = {}
  /\ pc \in {"info", "libraries"} =>
       /\ autoCommit
       /\ currentCommitmentControl = CfgLevel
       /\ srvLevel = ServerLevel(TRUE, CfgLevel)
  /\ pc = "use" /\ ~tx /\ ~autoCommit => user \in finishFailed \cup resetFailed
  /\ AckedIsCommitted

(* Client info: until a reset takes it over the driver knows the value of  *)
(* every key it has not forgotten; then the keys with another value than   *)
(* the DSN's are those still to be restored, and the forgotten ones.       *)
InfoInv ==
  /\ restoring # {} => pc \in {"info", "gone"}
  /\ pc \in {"pool", "use", "reset", "rollback", "attributes"} =>
       \A k \in Keys \ forgotten : clientInfo[k] = srvInfo[k]
  /\ pc \in {"info", "libraries"} =>
       \A k \in Keys : /\ clientInfo[k] = Dsn
                       /\ srvInfo[k] # Dsn => k \in restoring \cup forgotten

SessionIInv == SessionTypeOK /\ TxInv /\ InfoInv

-----------------------------------------------------------------------------
LEMMA LevelType ==
  ASSUME NEW auto \in BOOLEAN, NEW control \in 0..4
  PROVE  ServerLevel(auto, control) \in 0..4
BY DEF ServerLevel

LEMMA SessionTypeStep ==
  ASSUME SessionTypeOK, [SessionNext]_sessionVars
  PROVE  SessionTypeOK'
<1> USE SessionAssumption DEF SessionTypeOK, Users, Dsn
<1>1. CASE Exec
  BY <1>1 DEF Exec, driverVars
<1>2. ASSUME NEW isolation \in Levels \cup {0}, BeginTx(isolation)
      PROVE  SessionTypeOK'
  <2>1. currentCommitmentControl' \in 0..4
    BY <1>2 DEF BeginTx
  <2>2. {tx, autoCommit, srvAuto}' \subseteq BOOLEAN
    BY Zenon, <1>2 DEF BeginTx
  <2>3. srvLevel' \in 0..4
    BY <1>2, <2>1, LevelType DEF BeginTx
  <2> QED BY <1>2, <2>1, <2>2, <2>3 DEF BeginTx, history
<1>3. CASE FinishRejected
  BY <1>3 DEF FinishRejected, driverVars, srvVars
<1>4. ASSUME NEW commit \in BOOLEAN, Finish(commit)
      PROVE  SessionTypeOK'
  <2>1. {tx, autoCommit, srvAuto}' \subseteq BOOLEAN
    BY Zenon, <1>4 DEF Finish
  <2>2. srvLevel' \in 0..4 /\ currentCommitmentControl' \in 0..4
    BY <1>4, LevelType DEF Finish
  <2> QED BY <1>4, <2>1, <2>2 DEF Finish
<1>5. ASSUME NEW k \in Keys, SetClientInfo(k)
      PROVE  SessionTypeOK'
  BY <1>5 DEF SetClientInfo
<1>6. CASE Release \/ Acquire
  BY <1>6 DEF Release, Acquire, driverVars, srvVars, history
<1>7. CASE ResetSession \/ ResetRollback \/ AddConfiguredLibraries
  BY <1>7 DEF ResetSession, ResetRollback, AddConfiguredLibraries, ResetFails,
     driverVars, srvVars
<1>8. CASE ResetAttributes
  <2>1. {tx, autoCommit, srvAuto}' \subseteq BOOLEAN
    BY Zenon, <1>8 DEF ResetAttributes
  <2>2. srvLevel' \in 0..4 /\ currentCommitmentControl' \in 0..4
    BY <1>8, LevelType DEF ResetAttributes
  <2>3. clientInfo' \in [Keys -> Users \cup {Dsn}] /\ srvInfo' \in [Keys -> Users \cup {Dsn}]
    BY <1>8 DEF ResetAttributes
  <2>4. restoring' \subseteq Keys /\ forgotten' \subseteq Keys
    BY <1>8 DEF ResetAttributes
  <2>5. \A s \in {pending, saved, acked, finishFailed, resetFailed}' : s \subseteq Users
    <3>1. UNCHANGED <<pending, saved, acked, finishFailed>> /\ resetFailed' \subseteq Users
      BY <1>8 DEF ResetAttributes, ResetFails
    <3> QED BY <3>1
  <2>6. user' \in Users /\ pc' \in {"info", "use"}
    BY <1>8 DEF ResetAttributes, ResetFails
  <2> QED BY <2>1, <2>2, <2>3, <2>4, <2>5, <2>6
<1>9. CASE RestoreClientInfo
  BY <1>9 DEF RestoreClientInfo, ResetFails
<1>10. CASE Lost
  BY <1>10 DEF Lost, driverVars, history
<1>11. CASE UNCHANGED sessionVars
  BY <1>11 DEF sessionVars, driverVars, srvVars, history
<1> QED BY <1>1, <1>2, <1>3, <1>4, <1>5, <1>6, <1>7, <1>8, <1>9, <1>10, <1>11
   DEF SessionNext, Finished

LEMMA TxStep ==
  ASSUME SessionTypeOK, TxInv, [SessionNext]_sessionVars
  PROVE  TxInv'
<1> USE DEF SessionTypeOK, TxInv, AckedIsCommitted, ServerLevel
<1>1. CASE Exec
  BY <1>1 DEF Exec, driverVars
<1>2. ASSUME NEW isolation \in Levels \cup {0}, BeginTx(isolation)
      PROVE  TxInv'
  <2>1. /\ pc = "use" /\ ~tx /\ autoCommit /\ srvAuto /\ pending = {}
        /\ UNCHANGED <<pc, user, pending, saved, acked, finishFailed, resetFailed>>
    BY <1>2 DEF BeginTx, history
  <2>2. CASE ~autoCommit' /\ ~srvAuto' /\ autoCommit' = srvAuto' /\ tx'
    BY <2>1, <2>2
  <2>3. CASE UNCHANGED <<autoCommit, srvAuto, srvLevel, tx>>
    BY <2>1, <2>3
  <2> QED BY Zenon, <1>2, <2>2, <2>3 DEF BeginTx
<1>3. CASE FinishRejected
  BY <1>3 DEF FinishRejected, driverVars, srvVars
<1>4. ASSUME NEW commit \in BOOLEAN, Finish(commit)
      PROVE  TxInv'
  BY <1>4 DEF Finish
<1>5. ASSUME NEW k \in Keys, SetClientInfo(k)
      PROVE  TxInv'
  BY <1>5 DEF SetClientInfo
<1>6. CASE Release \/ Acquire
  BY <1>6 DEF Release, Acquire, driverVars, srvVars, history
<1>7. CASE ResetSession \/ ResetRollback \/ AddConfiguredLibraries
  BY <1>7 DEF ResetSession, ResetRollback, AddConfiguredLibraries, ResetFails,
     driverVars, srvVars
<1>8. CASE ResetAttributes
  BY <1>8 DEF ResetAttributes, ResetFails
<1>9. CASE RestoreClientInfo
  BY <1>9 DEF RestoreClientInfo, ResetFails
<1>10. CASE Lost
  BY <1>10 DEF Lost, driverVars, history
<1>11. CASE UNCHANGED sessionVars
  BY <1>11 DEF sessionVars, driverVars, srvVars, history
<1> QED BY <1>1, <1>2, <1>3, <1>4, <1>5, <1>6, <1>7, <1>8, <1>9, <1>10, <1>11
   DEF SessionNext, Finished

LEMMA InfoStep ==
  ASSUME SessionTypeOK, InfoInv, [SessionNext]_sessionVars
  PROVE  InfoInv'
<1> USE DEF SessionTypeOK, InfoInv, Dsn
<1>1. CASE Exec
  BY <1>1 DEF Exec, driverVars
<1>2. ASSUME NEW isolation \in Levels \cup {0}, BeginTx(isolation)
      PROVE  InfoInv'
  BY <1>2 DEF BeginTx, history
<1>3. CASE FinishRejected
  BY <1>3 DEF FinishRejected, driverVars, srvVars
<1>4. ASSUME NEW commit \in BOOLEAN, Finish(commit)
      PROVE  InfoInv'
  BY <1>4 DEF Finish
<1>5. ASSUME NEW k \in Keys, SetClientInfo(k)
      PROVE  InfoInv'
  BY <1>5 DEF SetClientInfo
<1>6. CASE Release \/ Acquire
  BY <1>6 DEF Release, Acquire, driverVars, srvVars, history
<1>7. CASE ResetSession \/ ResetRollback \/ AddConfiguredLibraries
  BY <1>7 DEF ResetSession, ResetRollback, AddConfiguredLibraries, ResetFails,
     driverVars, srvVars
<1>8. CASE ResetAttributes
  BY <1>8 DEF ResetAttributes, ResetFails
<1>9. CASE RestoreClientInfo
  BY <1>9 DEF RestoreClientInfo, ResetFails
<1>10. CASE Lost
  BY <1>10 DEF Lost, driverVars, history
<1>11. CASE UNCHANGED sessionVars
  BY <1>11 DEF sessionVars, driverVars, srvVars, history
<1> QED BY <1>1, <1>2, <1>3, <1>4, <1>5, <1>6, <1>7, <1>8, <1>9, <1>10, <1>11
   DEF SessionNext, Finished

-----------------------------------------------------------------------------
(* The inductive invariant of the session.                                 *)
THEOREM SessionInvariant == SessionSpec => []SessionIInv
<1>1. SessionInit => SessionIInv
  <2> SUFFICES ASSUME SessionInit PROVE SessionIInv
    OBVIOUS
  <2>1. SessionTypeOK
    <3>1. {tx, autoCommit, srvAuto} \subseteq BOOLEAN
      BY Zenon DEF SessionInit
    <3>2. {currentCommitmentControl, srvLevel} \subseteq 0..4
      BY SessionAssumption, LevelType DEF SessionInit
    <3>3. {clientInfo, srvInfo} \subseteq [Keys -> Users \cup {Dsn}]
      BY DEF SessionInit
    <3>4. /\ \A s \in {pending, saved, acked, finishFailed, resetFailed} : s \subseteq Users
          /\ restoring \subseteq Keys /\ forgotten \subseteq Keys
      BY DEF SessionInit
    <3>5. user \in Users /\ pc = "use"
      BY SessionAssumption DEF SessionInit, Users
    <3> QED BY <3>1, <3>2, <3>3, <3>4, <3>5 DEF SessionTypeOK
  <2>2. TxInv
    BY DEF SessionInit, TxInv, AckedIsCommitted
  <2>3. InfoInv
    BY DEF SessionInit, InfoInv
  <2> QED BY <2>1, <2>2, <2>3 DEF SessionIInv
<1>2. SessionIInv /\ [SessionNext]_sessionVars => SessionIInv'
  BY SessionTypeStep, TxStep, InfoStep DEF SessionIInv
<1> QED BY <1>1, <1>2, PTL DEF SessionSpec

(* tx.go setAutoCommitState, clientinfo.go SetClientInfo: whichever         *)
(* requests fail, the driver's autocommit and client info are the server's, *)
(* but for the keys that a failed restoreClientInfo has forgotten.          *)
THEOREM Agreement == SessionSpec => []SessionAgrees
<1>1. SessionIInv => SessionAgrees
  BY DEF SessionIInv, TxInv, InfoInv, SessionAgrees
<1> QED BY <1>1, SessionInvariant, PTL

(* A change acknowledged outside a transaction is committed, unless the     *)
(* user's own Commit or Rollback failed before (tx.go finish), or their     *)
(* ResetSession did.                                                        *)
THEOREM AcknowledgedCommitted == SessionSpec => []AckedIsCommitted
<1>1. SessionIInv => AckedIsCommitted
  BY DEF SessionIInv, TxInv
<1> QED BY <1>1, SessionInvariant, PTL

(* tx.go finish, driver.go ResetSession: no step commits the change of      *)
(* another user than the current one, however many users the connection     *)
(* has had and wherever their transactions failed.                          *)
THEOREM OwnCommitOnly == SessionSpec => NeverCommittedByOthers
<1>1. SessionIInv /\ [SessionNext]_sessionVars => [saved' \ saved \subseteq {user'}]_sessionVars
  <2> SUFFICES ASSUME SessionIInv, SessionNext PROVE saved' \ saved \subseteq {user'}
    BY DEF NeverCommittedByOthers
  <2>1. tx => pending \subseteq {user}
    BY DEF SessionIInv, TxInv
  <2> QED BY <2>1 DEF SessionNext, Exec, BeginTx, FinishRejected, Finish, SetClientInfo,
     Release, Acquire, ResetSession, ResetRollback, ResetAttributes,
     RestoreClientInfo, AddConfiguredLibraries, Lost, Finished, sessionVars, srvVars
<1> QED BY <1>1, SessionInvariant, PTL DEF SessionSpec, NeverCommittedByOthers

(* driver.go ResetSession: a reset that succeeds hands out the connection   *)
(* with autocommit, the configured level, nothing uncommitted, and the      *)
(* DSN's client info but for forgotten keys.                                *)
THEOREM ResetEffect == SessionSpec => ResetRestores
<1>1. SessionIInv /\ [SessionNext]_sessionVars =>
        [pc = "libraries" /\ pc' = "use" /\ user \notin resetFailed' =>
           /\ autoCommit /\ srvAuto /\ pending = {}
           /\ currentCommitmentControl = CfgLevel
           /\ srvLevel = ServerLevel(TRUE, CfgLevel)
           /\ \A k \in Keys : srvInfo[k] # Dsn => k \in forgotten]_sessionVars
  <2>1. ASSUME SessionIInv, pc = "libraries"
        PROVE  /\ autoCommit /\ srvAuto /\ pending = {}
               /\ currentCommitmentControl = CfgLevel
               /\ srvLevel = ServerLevel(TRUE, CfgLevel)
               /\ \A k \in Keys : srvInfo[k] # Dsn => k \in forgotten
    BY <2>1 DEF SessionIInv, TxInv, InfoInv
  <2> QED BY Zenon, <2>1
<1> QED BY <1>1, SessionInvariant, PTL DEF SessionSpec, ResetRestores

-----------------------------------------------------------------------------
(* What is found for a key is a value of the query.                        *)
LEMMA GivenType ==
  ASSUME NEW query \in SUBSET OptionEntries, NEW key, O!Given(query, key) # O!NotGiven
  PROVE  O!Given(query, key) \in OptionValues
<1>1. O!Get(query, key) \in OptionValues \cup {O!NotGiven}
  BY DEF O!Get, OptionEntries
<1>2. O!optionValue(query, key) \in OptionValues \cup {O!NotGiven}
  BY <1>1 DEF O!optionValue, OptionEntries
<1> QED BY <1>1, <1>2 DEF O!Given

(* The numbers of a one-element set.                                       *)
LEMMA OnlyOne ==
  ASSUME NEW i \in Int
  PROVE  O!Max({i}) = i /\ O!Min({i}) = i
BY DEF O!Max, O!Min

(* A setting that is read from one key: the number given, if the parser of *)
(* the option takes it, and otherwise the default.                         *)
LEMMA OneSource ==
  ASSUME NEW query, NEW key, key \notin {"commitmentControl", "tls", "port", "connectTimeout"}
  PROVE  /\ O!Given(query, key) = O!NotGiven =>
              \/ O!Setting(query, key).n = O!Default(key)
              \/ key = "bidiStringType" /\ O!Setting(query, key).n = -1
         /\ O!Given(query, key) # O!NotGiven =>
              O!Setting(query, key) =
                [err |-> ~O!Taken(key, O!Given(query, key)),
                 n |-> IF key = "packageCCSID" /\ O!Given(query, key).form = "name"
                       THEN O!Default(key) ELSE O!Given(query, key).n]
<1> DEFINE keys == O!Sources(key).keys
           given == {i \in DOMAIN keys : O!Given(query, keys[i]) # O!NotGiven}
<1>1. keys = <<key>> /\ O!Sources(key).rule = "first"
  BY DEF O!Sources
<1>2. CASE O!Given(query, key) = O!NotGiven
  <2>1. given = {}
    BY <1>1, <1>2
  <2> QED BY <1>2, <2>1 DEF O!Setting
<1>3. CASE O!Given(query, key) # O!NotGiven
  <2>1. given = {1}
    BY <1>1, <1>3
  <2>2. O!Setting(query, key) =
          [err |-> \E i \in {O!Min(given)} : ~O!Taken(keys[i], O!Given(query, keys[i])),
           n |-> IF key = "packageCCSID" /\ O!Given(query, key).form = "name" THEN O!Default(key)
                 ELSE O!Given(query, keys[O!Max({O!Min(given)})]).n]
    BY <1>1, <2>1 DEF O!Setting
  <2> HIDE DEF given
  <2>3. O!Min(given) = 1 /\ O!Max({1}) = 1 /\ keys[1] = key
    BY <1>1, <2>1, OnlyOne
  <2>4. (\E i \in {1} : ~O!Taken(keys[i], O!Given(query, keys[i])))
          = ~O!Taken(key, O!Given(query, key))
    BY <2>3
  <2> HIDE DEF keys
  <2> QED BY <1>3, <2>2, <2>3, <2>4
<1> QED BY <1>2, <1>3

(* The classes of keys have no key in common.                              *)
LEMMA Classes ==
  ASSUME NEW key
  PROVE  /\ key \in DOMAIN O!LooseEnums =>
              key \notin DOMAIN O!StrictEnums \cup DOMAIN O!LooseNumbers \cup O!ClientInfoKeys
                         \cup O!StrictNumbers \cup O!LooseNames \cup O!StrictNames
         /\ key \in DOMAIN O!StrictEnums =>
              key \notin DOMAIN O!LooseNumbers \cup O!ClientInfoKeys
                         \cup O!StrictNumbers \cup O!LooseNames \cup O!StrictNames
         /\ key \in DOMAIN O!LooseNumbers =>
              key \notin O!ClientInfoKeys \cup O!StrictNumbers \cup O!LooseNames \cup O!StrictNames
         /\ key \in O!ClientInfoKeys =>
              key \notin O!StrictNumbers \cup O!LooseNames \cup O!StrictNames
BY DEF O!LooseEnums, O!StrictEnums, O!LooseNumbers, O!ClientInfoKeys, O!StrictNumbers, O!LooseNames,
   O!StrictNames

(* A number from one key that the parser takes is within its limits.       *)
LEMMA TakenInLimits ==
  ASSUME NEW key, NEW value, O!Taken(key, value)
  PROVE  /\ key \in DOMAIN O!LooseEnums => value.n \in O!LooseEnums[key]
         /\ key \in DOMAIN O!StrictEnums => value.n \in O!StrictEnums[key]
         /\ key \in DOMAIN O!LooseNumbers =>
              \/ value.n \in O!LooseNumbers[key]
              \/ key = "packageCCSID" /\ value.form = "name"
         /\ key \in O!ClientInfoKeys => value.n <= O!clientInfoMaxBytes
<1>1. "packageCCSID" \in DOMAIN O!LooseNumbers
  BY DEF O!LooseNumbers
<1> QED BY <1>1, Classes DEF O!Taken

(* commitControl comes after commitmentControl, and both have the limits.  *)
LEMMA CommitmentInLimits ==
  ASSUME NEW query, ~O!Setting(query, "commitmentControl").err
  PROVE  O!Setting(query, "commitmentControl").n \in 0..4
<1> DEFINE key == "commitmentControl"
           keys == <<key, "commitControl">>
           given == {i \in {1, 2} : O!Given(query, keys[i]) # O!NotGiven}
<1>1. O!Sources(key) = [rule |-> "override", keys |-> keys]
  BY DEF O!Sources
<1>2. DOMAIN keys = {1, 2}
  OBVIOUS
<1>3. CASE given = {}
  BY <1>1, <1>2, <1>3 DEF O!Setting, O!Default
<1>4. CASE given # {}
  <2>1. \E i \in given : \A j \in given : i >= j
    <3>1. CASE 2 \in given
      BY <3>1
    <3>2. CASE 2 \notin given
      BY <1>4, <3>2
    <3> QED BY <3>1, <3>2
  <2>2. O!Max(given) \in given
    BY <2>1 DEF O!Max
  <2>3. /\ O!Setting(query, key).err <=> \E i \in given : ~O!Taken(keys[i], O!Given(query, keys[i]))
        /\ O!Setting(query, key).n = O!Given(query, keys[O!Max(given)]).n
    <3> HIDE DEF keys
    <3>1. DOMAIN keys = {1, 2} /\ O!Sources(key).keys = keys /\ O!Sources(key).rule = "override"
      BY <1>1, <1>2
    <3>2. O!Setting(query, key) =
            [err |-> \E i \in given : ~O!Taken(keys[i], O!Given(query, keys[i])),
             n |-> O!Given(query, keys[O!Max(given)]).n]
      BY <1>4, <3>1 DEF O!Setting
    <3> QED BY <3>2
  <2>4. O!Taken(keys[O!Max(given)], O!Given(query, keys[O!Max(given)]))
    BY <2>2, <2>3
  <2>5. keys[O!Max(given)] \in {key, "commitControl"}
    BY <2>2
  <2>6. \A k \in {key, "commitControl"} : k \in DOMAIN O!StrictEnums /\ O!StrictEnums[k] = 0..4
    BY DEF O!StrictEnums
  <2> QED BY <2>3, <2>4, <2>5, <2>6, TakenInLimits
<1> QED BY <1>3, <1>4

(* What the parsers accept without an error.                               *)
LEMMA AcceptedInLimits ==
  ASSUME NEW query, NEW key, ~O!Setting(query, key).err
  PROVE  /\ key \in DOMAIN O!LooseEnums => O!Setting(query, key).n \in O!LooseEnums[key]
         /\ key \in DOMAIN O!StrictEnums => O!Setting(query, key).n \in O!StrictEnums[key]
         /\ key \in DOMAIN O!LooseNumbers => O!Setting(query, key).n \in O!LooseNumbers[key] \cup {O!Default(key)}
         /\ key \in O!ClientInfoKeys => O!Setting(query, key).n <= O!clientInfoMaxBytes
<1>1. CASE key = "commitmentControl"
  <2>1. key \notin DOMAIN O!LooseEnums \cup DOMAIN O!LooseNumbers \cup O!ClientInfoKeys
    BY <1>1 DEF O!LooseEnums, O!LooseNumbers, O!ClientInfoKeys
  <2>2. O!StrictEnums["commitmentControl"] = 0..4
    BY DEF O!StrictEnums
  <2> QED BY <1>1, <2>1, <2>2, CommitmentInLimits
<1>2. CASE key \in {"tls", "port", "connectTimeout"}
  BY <1>2 DEF O!LooseEnums, O!StrictEnums, O!LooseNumbers, O!ClientInfoKeys
<1>3. CASE key \notin {"commitmentControl", "tls", "port", "connectTimeout"}
  <2>1. CASE O!Given(query, key) = O!NotGiven
    <3>1. \/ O!Setting(query, key).n = O!Default(key)
          \/ key = "bidiStringType" /\ O!Setting(query, key).n = -1
      BY <1>3, <2>1, OneSource
    <3>2. CASE key \in DOMAIN O!LooseEnums
      <4>1. O!Default(key) \in O!LooseEnums[key] /\ -1 \in O!LooseEnums["bidiStringType"]
        BY <3>2 DEF O!Default, O!LooseEnums, O!BidiStringTypes
      <4> QED BY <3>1, <3>2, <4>1, Classes
    <3>3. CASE key \notin DOMAIN O!LooseEnums
      <4>1. key # "bidiStringType"
        BY <3>3 DEF O!LooseEnums
      <4>2. key \in DOMAIN O!StrictEnums => O!Default(key) \in O!StrictEnums[key]
        BY <1>3 DEF O!Default, O!StrictEnums
      <4>3. key \in O!ClientInfoKeys => O!Default(key) <= O!clientInfoMaxBytes
        BY DEF O!Default, O!ClientInfoKeys, O!clientInfoMaxBytes
      <4> QED BY <3>1, <3>3, <4>1, <4>2, <4>3
    <3> QED BY <3>2, <3>3
  <2>2. CASE O!Given(query, key) # O!NotGiven
    <3>1. O!Setting(query, key) =
            [err |-> ~O!Taken(key, O!Given(query, key)),
             n |-> IF key = "packageCCSID" /\ O!Given(query, key).form = "name"
                   THEN O!Default(key) ELSE O!Given(query, key).n]
      BY <1>3, <2>2, OneSource
    <3>2. O!Taken(key, O!Given(query, key))
      <4>1. O!Setting(query, key).err = ~O!Taken(key, O!Given(query, key))
        BY <3>1
      <4> QED BY Zenon, <4>1
    <3>3. O!Setting(query, key).n =
            IF key = "packageCCSID" /\ O!Given(query, key).form = "name" THEN O!Default(key)
            ELSE O!Given(query, key).n
      BY <3>1
    <3>4. "packageCCSID" \in DOMAIN O!LooseNumbers
      BY DEF O!LooseNumbers
    <3> QED BY <3>2, <3>3, <3>4, TakenInLimits, Classes
  <2> QED BY <2>1, <2>2
<1> QED BY <1>1, <1>2, <1>3

(* The limits are natural numbers, and the defaults are within them.       *)
LEMMA Limits ==
  /\ O!maxLOBThreshold \in Nat /\ O!maxSocketBufferSize \in Nat /\ O!maxQueryStorageLimit \in Nat
  /\ 1048576 <= O!maxLOBThreshold
  /\ 256 \in O!BlockSizes
  /\ \A size \in O!BlockSizes : size \in Nat
<1>1. O!maxLOBThreshold \in Nat /\ 1048576 <= O!maxLOBThreshold
  BY SMT DEF O!maxLOBThreshold
<1>2. O!maxSocketBufferSize \in Nat /\ O!maxQueryStorageLimit \in Nat
  BY SMT DEF O!maxSocketBufferSize, O!maxQueryStorageLimit
<1>3. 256 \in O!BlockSizes /\ \A size \in O!BlockSizes : size \in Nat
  BY SMT DEF O!BlockSizes
<1> QED BY SMT, <1>1, <1>2, <1>3

(* A number that the parser took, or the default, is within the limits of  *)
(* Validate.                                                               *)
LEMMA NumbersInLimits ==
  ASSUME NEW config,
         \A key \in DOMAIN O!LooseNumbers : config[key] \in O!LooseNumbers[key] \cup {O!Default(key)}
  PROVE  /\ config.decimalMaxPrecision \in {0, 31, 63}
         /\ config.decimalMaxScale \in 0..63
         /\ config.minimumDivideScale \in 0..9
         /\ config.lobThreshold \in 0..O!maxLOBThreshold
         /\ config.blockSize \in O!BlockSizes
         /\ config.receiveBufferSize \in 0..O!maxSocketBufferSize
         /\ config.sendBufferSize \in 0..O!maxSocketBufferSize
         /\ config.socketTimeout >= 0
         /\ config.packageCCSID >= 0
         /\ config.queryStorageLimit \in Int
<1>1. config.decimalMaxPrecision \in {0, 31, 63}
  <2>1. "decimalMaxPrecision" \in DOMAIN O!LooseNumbers
    BY DEF O!LooseNumbers
  <2>2. config.decimalMaxPrecision \in O!LooseNumbers.decimalMaxPrecision \/ config.decimalMaxPrecision = O!Default("decimalMaxPrecision")
    BY Zenon, <2>1
  <2> QED BY SMT, <2>2, Limits DEF O!LooseNumbers, O!Default
<1>2. config.decimalMaxScale \in 0..63
  <2>1. "decimalMaxScale" \in DOMAIN O!LooseNumbers
    BY DEF O!LooseNumbers
  <2>2. config.decimalMaxScale \in O!LooseNumbers.decimalMaxScale \/ config.decimalMaxScale = O!Default("decimalMaxScale")
    BY Zenon, <2>1
  <2> QED BY SMT, <2>2, Limits DEF O!LooseNumbers, O!Default
<1>3. config.minimumDivideScale \in 0..9
  <2>1. "minimumDivideScale" \in DOMAIN O!LooseNumbers
    BY DEF O!LooseNumbers
  <2>2. config.minimumDivideScale \in O!LooseNumbers.minimumDivideScale \/ config.minimumDivideScale = O!Default("minimumDivideScale")
    BY Zenon, <2>1
  <2> QED BY SMT, <2>2, Limits DEF O!LooseNumbers, O!Default
<1>4. config.lobThreshold \in 0..O!maxLOBThreshold
  <2>1. "lobThreshold" \in DOMAIN O!LooseNumbers
    BY DEF O!LooseNumbers
  <2>2. config.lobThreshold \in O!LooseNumbers.lobThreshold \/ config.lobThreshold = O!Default("lobThreshold")
    BY Zenon, <2>1
  <2> QED BY SMT, <2>2, Limits DEF O!LooseNumbers, O!Default
<1>5. config.blockSize \in O!BlockSizes
  <2>1. "blockSize" \in DOMAIN O!LooseNumbers
    BY DEF O!LooseNumbers
  <2>2. config.blockSize \in O!LooseNumbers.blockSize \/ config.blockSize = O!Default("blockSize")
    BY Zenon, <2>1
  <2> QED BY SMT, <2>2, Limits DEF O!LooseNumbers, O!Default
<1>6. config.receiveBufferSize \in 0..O!maxSocketBufferSize
  <2>1. "receiveBufferSize" \in DOMAIN O!LooseNumbers
    BY DEF O!LooseNumbers
  <2>2. config.receiveBufferSize \in O!LooseNumbers.receiveBufferSize \/ config.receiveBufferSize = O!Default("receiveBufferSize")
    BY Zenon, <2>1
  <2> QED BY SMT, <2>2, Limits DEF O!LooseNumbers, O!Default
<1>7. config.sendBufferSize \in 0..O!maxSocketBufferSize
  <2>1. "sendBufferSize" \in DOMAIN O!LooseNumbers
    BY DEF O!LooseNumbers
  <2>2. config.sendBufferSize \in O!LooseNumbers.sendBufferSize \/ config.sendBufferSize = O!Default("sendBufferSize")
    BY Zenon, <2>1
  <2> QED BY SMT, <2>2, Limits DEF O!LooseNumbers, O!Default
<1>8. config.socketTimeout >= 0
  <2>1. "socketTimeout" \in DOMAIN O!LooseNumbers
    BY DEF O!LooseNumbers
  <2>2. config.socketTimeout \in O!LooseNumbers.socketTimeout \/ config.socketTimeout = O!Default("socketTimeout")
    BY Zenon, <2>1
  <2> QED BY SMT, <2>2, Limits DEF O!LooseNumbers, O!Default
<1>9. config.packageCCSID >= 0
  <2>1. "packageCCSID" \in DOMAIN O!LooseNumbers
    BY DEF O!LooseNumbers
  <2>2. config.packageCCSID \in O!LooseNumbers.packageCCSID \/ config.packageCCSID = O!Default("packageCCSID")
    BY Zenon, <2>1
  <2> QED BY SMT, <2>2, Limits DEF O!LooseNumbers, O!Default
<1>10. config.queryStorageLimit \in Int
  <2>1. "queryStorageLimit" \in DOMAIN O!LooseNumbers
    BY DEF O!LooseNumbers
  <2>2. config.queryStorageLimit \in O!LooseNumbers.queryStorageLimit \/ config.queryStorageLimit = O!Default("queryStorageLimit")
    BY Zenon, <2>1
  <2> QED BY SMT, <2>2, Limits DEF O!LooseNumbers, O!Default
<1> QED BY <1>1, <1>2, <1>3, <1>4, <1>5, <1>6, <1>7, <1>8, <1>9, <1>10

(* The configuration that the parsers make of a query is within the limits *)
(* of Validate.                                                            *)
LEMMA ParsedInLimits ==
  ASSUME NEW query, \A key \in O!Settings : ~O!Setting(query, key).err,
         NEW config, config = [key \in O!Settings |-> O!Setting(query, key).n]
  PROVE  /\ O!ValidOptions(config)
         /\ config.queryStorageLimit \in Int
         /\ \A key \in O!ClientInfoKeys : config[key] <= O!clientInfoMaxBytes
<1>1. DOMAIN O!LooseEnums \cup DOMAIN O!LooseNumbers \cup O!ClientInfoKeys
        \cup (DOMAIN O!StrictEnums \ {"commitControl"}) \subseteq O!Settings
  <2>1. \A key \in DOMAIN O!LooseEnums \cup DOMAIN O!LooseNumbers \cup O!ClientInfoKeys
              \cup (DOMAIN O!StrictEnums \ {"commitControl"}) :
          key \notin {"commitControl", "secure", "portNumber", "urlPort", "timeout"}
    BY DEF O!LooseEnums, O!LooseNumbers, O!ClientInfoKeys, O!StrictEnums
  <2> QED BY <2>1 DEF O!Settings, O!Keys, O!Loose
<1>2. /\ \A key \in DOMAIN O!LooseEnums : config[key] \in O!LooseEnums[key]
      /\ \A key \in DOMAIN O!StrictEnums \ {"commitControl"} : config[key] \in O!StrictEnums[key]
      /\ \A key \in DOMAIN O!LooseNumbers : config[key] \in O!LooseNumbers[key] \cup {O!Default(key)}
      /\ \A key \in O!ClientInfoKeys : config[key] <= O!clientInfoMaxBytes
  BY <1>1, AcceptedInLimits
<1>3. /\ config.bidiStringType \in O!BidiStringTypes
      /\ config.queryOptimizeGoal \in 0..2
      /\ config.decfloatRoundingMode \in 0..6
  BY <1>2 DEF O!LooseEnums
<1>4. /\ config.decimalMaxPrecision \in {0, 31, 63}
      /\ config.decimalMaxScale \in 0..63
      /\ config.minimumDivideScale \in 0..9
      /\ config.lobThreshold \in 0..O!maxLOBThreshold
      /\ config.blockSize \in O!BlockSizes
      /\ config.receiveBufferSize \in 0..O!maxSocketBufferSize
      /\ config.sendBufferSize \in 0..O!maxSocketBufferSize
      /\ config.socketTimeout >= 0
      /\ config.packageCCSID >= 0
      /\ config.queryStorageLimit \in Int
  BY <1>2, NumbersInLimits
<1> QED BY <1>2, <1>3, <1>4 DEF O!ValidOptions, O!validatePackageConfig

(* The size of the statement cache is a number.                            *)
LEMMA CacheSizeType ==
  ASSUME NEW query \in SUBSET OptionEntries
  PROVE  O!Setting(query, "statementCacheSize").n \in Int
<1> DEFINE key == "statementCacheSize"
<1>1. CASE O!Given(query, key) = O!NotGiven
  BY <1>1, OneSource DEF O!Default
<1>2. CASE O!Given(query, key) # O!NotGiven
  <2>1. O!Given(query, key).n \in Int
    BY <1>2, GivenType DEF OptionValues
  <2> QED BY <1>2, <2>1, OneSource
<1> QED BY <1>1, <1>2

(* What the parsers accept, Validate accepts too, but for the port and the *)
(* size of the statement cache (dsn.go:296, config.go:147).                *)
LEMMA LimitsAgree == \A query \in SUBSET OptionEntries : O!RangesAgree(query)
<1> SUFFICES ASSUME NEW query \in SUBSET OptionEntries PROVE O!RangesAgree(query)
  OBVIOUS
<1> DEFINE config == [key \in O!Settings |-> O!Setting(query, key).n]
           parsed == \A key \in O!Settings : ~O!Setting(query, key).err
<1>1. parsed => O!ValidOptions(config)
  BY ParsedInLimits
<1>2. O!ParseDSN(query).err <=> ~parsed \/ ~O!Validate(config)
  BY DEF O!ParseDSN
<1>3. config.statementCacheSize \in Int
  <2>1. "statementCacheSize" \in O!Settings
    BY DEF O!Settings, O!Keys, O!StrictNumbers
  <2> QED BY <2>1, CacheSizeType
<1>4. O!ParseDSN(query).err <=>
        ~parsed \/ config.port \notin O!PortNumbers \/ config.statementCacheSize < 0
  <2> HIDE DEF config, parsed
  <2>1. config.statementCacheSize >= 0 <=> ~(config.statementCacheSize < 0)
    BY <1>3
  <2> QED BY Zenon, <1>1, <1>2, <2>1 DEF O!Validate
<1>5. O!RangesAgree(query) <=>
        /\ parsed => O!ValidOptions(config)
        /\ O!ParseDSN(query).err <=>
             ~parsed \/ config.port \notin O!PortNumbers \/ config.statementCacheSize < 0
  BY Zenon DEF O!RangesAgree
<1> QED BY Zenon, <1>1, <1>4, <1>5

(* Max and Min keep a number between two limits.                           *)
LEMMA Clamped ==
  ASSUME NEW low \in Int, NEW high \in Int, low <= high, NEW n \in Int
  PROVE  O!Max({low, O!Min({n, high})}) \in low..high
<1>1. O!Min({n, high}) \in Int /\ O!Min({n, high}) <= high
  <2>1. \E x \in {n, high} : \A y \in {n, high} : x <= y
    OBVIOUS
  <2> QED BY <2>1 DEF O!Min
<1> DEFINE m == O!Min({n, high})
<1> HIDE DEF m
<1>2. O!Max({low, m}) \in {low, m} /\ O!Max({low, m}) >= low
  <2>1. \E x \in {low, m} : \A y \in {low, m} : x >= y
    BY <1>1 DEF m
  <2> QED BY <2>1 DEF O!Max
<1> QED BY <1>1, <1>2 DEF m

(* What is accepted can be sent: no scale above the precision, no buffer,  *)
(* threshold or limit out of range, no client information that is too long *)
(* (dbconn.go:393, config.go:223, clientinfo.go:141).                      *)
LEMMA AcceptedOptions == \A query \in SUBSET OptionEntries : O!AcceptedIsSendable(query)
<1> SUFFICES ASSUME NEW query \in SUBSET OptionEntries, ~O!ParseDSN(query).err PROVE O!AcceptedIsSendable(query)
  BY Zenon DEF O!AcceptedIsSendable
<1> DEFINE parsed == [key \in O!Settings |-> O!Setting(query, key).n]
           config == O!ParseDSN(query).cfg
<1>1. config = [parsed EXCEPT !.connectTimeout = IF @ = 0 THEN 15 ELSE @]
  BY DEF O!ParseDSN
<1>2. /\ O!ValidOptions(parsed) /\ parsed.queryStorageLimit \in Int
      /\ \A key \in O!ClientInfoKeys : parsed[key] <= O!clientInfoMaxBytes
  BY ParsedInLimits DEF O!ParseDSN
<1>3. "connectTimeout" \in O!Settings /\ "connectTimeout" \notin O!ClientInfoKeys
  BY DEF O!Settings, O!Keys, O!StrictNumbers, O!ClientInfoKeys
<1>4. DOMAIN parsed = O!Settings
  OBVIOUS
<1> HIDE DEF parsed, config
<1>5. config.connectTimeout # 0
  BY <1>1, <1>3, <1>4
<1>6. \A key \in O!ClientInfoKeys : config[key] <= O!clientInfoMaxBytes
  BY <1>1, <1>2, <1>3, <1>4 DEF O!Settings, O!Keys, O!Loose, O!ClientInfoKeys
<1>7. /\ config.decimalMaxPrecision \in {0, 31, 63} /\ config.decimalMaxScale \in 0..63
      /\ config.lobThreshold \in 0..O!maxLOBThreshold
      /\ config.blockSize \in O!BlockSizes
      /\ config.queryStorageLimit \in Int
  BY <1>1, <1>2 DEF O!ValidOptions
<1>8. O!decimalPrecisionIndicators(config).scale <= O!decimalPrecisionIndicators(config).precision
  BY <1>7 DEF O!decimalPrecisionIndicators
<1>9. O!fetchBuffer(config) \in O!BlockSizes \ {0}
  BY SMT, <1>7, Limits DEF O!fetchBuffer
<1>10. O!lobThresholdValue(config) \in 0..O!maxLOBThreshold
  BY SMT, <1>7, Clamped, Limits DEF O!lobThresholdValue
<1>11. O!clampQueryStorageLimit(config.queryStorageLimit) \in -1..O!maxQueryStorageLimit
  BY SMT, <1>7, Clamped, Limits DEF O!clampQueryStorageLimit
<1> HIDE DEF config
<1>12. O!AcceptedIsSendable(query) <=>
         (~O!ParseDSN(query).err =>
            /\ O!decimalPrecisionIndicators(config).scale <= O!decimalPrecisionIndicators(config).precision
            /\ O!fetchBuffer(config) \in O!BlockSizes \ {0}
            /\ O!lobThresholdValue(config) \in 0..O!maxLOBThreshold
            /\ O!clampQueryStorageLimit(config.queryStorageLimit) \in -1..O!maxQueryStorageLimit
            /\ config.connectTimeout # 0
            /\ \A key \in O!ClientInfoKeys : config[key] <= O!clientInfoMaxBytes)
  BY Zenon DEF O!AcceptedIsSendable, config
<1> QED BY Zenon, <1>5, <1>6, <1>8, <1>9, <1>10, <1>11, <1>12

(* ParseDSN sees of a query only what is given for each key, and whether   *)
(* bidiStringType is there with nothing in it.                             *)
LEMMA SameGiven ==
  ASSUME NEW one, NEW two,
         \A key : O!Given(one, key) = O!Given(two, key),
         O!Given(one, "bidiStringType") = O!NotGiven =>
           ((\E e \in one : e.key = "bidiStringType" /\ e.exact)
             <=> (\E e \in two : e.key = "bidiStringType" /\ e.exact))
  PROVE  O!ParseDSN(one) = O!ParseDSN(two)
<1>1. \A key : O!Setting(one, key) = O!Setting(two, key)
  <2> TAKE key
  <2> DEFINE keys == O!Sources(key).keys
             given(query) == {i \in DOMAIN keys : O!Given(query, keys[i]) # O!NotGiven}
             empty(query) == \E e \in query : e.key = key /\ e.exact
             used(query) == IF O!Sources(key).rule = "override" THEN given(query)
                            ELSE {O!Min(given(query))}
             failed(query) == \E i \in used(query) : ~O!Taken(keys[i], O!Given(query, keys[i]))
             number(query) == IF key = "packageCCSID" /\ O!Given(query, key).form = "name"
                              THEN O!Default(key)
                              ELSE O!Given(query, keys[O!Max(used(query))]).n
             default(query) == IF key = "bidiStringType" /\ empty(query) THEN -1 ELSE O!Default(key)
  <2>1. \A query : O!Setting(query, key) =
          IF given(query) = {} THEN [err |-> FALSE, n |-> default(query)]
          ELSE [err |-> failed(query), n |-> number(query)]
    BY Zenon DEF O!Setting
  <2>2. given(one) = given(two)
    OBVIOUS
  <2>3. used(one) = used(two)
    BY Zenon, <2>2
  <2>4. failed(one) <=> failed(two)
    BY Zenon, <2>3
  <2>5. number(one) = number(two)
    <3>1. /\ O!Given(one, key) = O!Given(two, key)
          /\ O!Given(one, keys[O!Max(used(one))]) = O!Given(two, keys[O!Max(used(one))])
      OBVIOUS
    <3> HIDE DEF used, keys
    <3> QED BY <2>3, <3>1
  <2>6. given(one) = {} => default(one) = default(two)
    <3>1. CASE key = "bidiStringType"
      <4>1. keys = <<key>>
        BY <3>1 DEF O!Sources
      <4>2. given(one) = {} => O!Given(one, key) = O!NotGiven
        BY <4>1
      <4> QED BY Zenon, <3>1, <4>2
    <3>2. CASE key # "bidiStringType"
      BY Zenon, <3>2
    <3> QED BY <3>1, <3>2
  <2> HIDE DEF given, failed, number, default
  <2>7. failed(one) = failed(two)
    <3>1. failed(one) \in BOOLEAN /\ failed(two) \in BOOLEAN
      BY Zenon DEF failed
    <3> QED BY <2>4, <3>1
  <2>8. CASE given(one) = {}
    BY <2>1, <2>2, <2>6, <2>8
  <2>9. CASE given(one) # {}
    BY <2>1, <2>2, <2>5, <2>7, <2>9
  <2> QED BY <2>8, <2>9
<1> DEFINE numbers(query) == [key \in O!Settings |-> O!Setting(query, key).n]
           failing(query) == \E key \in O!Settings : O!Setting(query, key).err
<1>2. \A query : O!ParseDSN(query) =
        [err |-> failing(query) \/ ~O!Validate(numbers(query)),
         cfg |-> [numbers(query) EXCEPT !.connectTimeout = IF @ = 0 THEN 15 ELSE @]]
  BY Zenon DEF O!ParseDSN
<1>3. numbers(one) = numbers(two)
  BY <1>1
<1>4. failing(one) <=> failing(two)
  BY Zenon, <1>1
<1> HIDE DEF numbers, failing
<1>5. (failing(one) \/ ~O!Validate(numbers(one))) = (failing(two) \/ ~O!Validate(numbers(two)))
  BY <1>3, <1>4
<1> QED BY <1>2, <1>3, <1>5

(* The three forms of one entry.                                           *)
Forms(e, own, other, empty) ==
  /\ own.key = e.key /\ own.exact = TRUE /\ own.value = e.value
  /\ other.key = e.key /\ other.exact = FALSE /\ other.value = e.value
  /\ empty.key = e.key /\ empty.exact = TRUE /\ empty.value = O!Blank

(* What one entry gives: under its own name, or in another spelling with   *)
(* or without an empty one under its own name.                             *)
GivenByForms(e, own, other, empty, key) ==
  /\ O!Given({own}, key) = IF key = e.key /\ e.value # O!Blank THEN e.value ELSE O!NotGiven
  /\ O!Given({other}, key) =
       IF key = e.key /\ e.value # O!Blank /\ key \in O!Loose THEN e.value ELSE O!NotGiven
  /\ O!Given({other, empty}, key) = O!Given({other}, key)
LEMMA OneEntry ==
  ASSUME NEW e \in OptionEntries, NEW own, NEW other, NEW empty, NEW key,
         Forms(e, own, other, empty)
  PROVE  GivenByForms(e, own, other, empty, key)
<1>1. own.value = e.value /\ other.value = e.value
  BY DEF Forms
<1>2. e.value # O!NotGiven
  BY DEF OptionEntries, OptionValues, O!NotGiven
<1> DEFINE exactly(query) == {x \in query : x.key = key /\ x.exact /\ x.value # O!Blank}
           others(query) == {x \in query : x.key = key /\ ~x.exact /\ x.value # O!Blank}
<1>3. \A query :
        /\ O!Get(query, key) = IF exactly(query) = {} THEN O!NotGiven
                               ELSE (CHOOSE x \in exactly(query) : TRUE).value
        /\ O!optionValue(query, key) =
             IF O!Get(query, key) # O!NotGiven THEN O!Get(query, key)
             ELSE IF others(query) = {} THEN O!NotGiven
             ELSE (CHOOSE x \in others(query) : TRUE).value
        /\ O!Given(query, key) = IF key \in O!Loose THEN O!optionValue(query, key)
                                 ELSE O!Get(query, key)
  BY Zenon DEF O!Get, O!optionValue, O!Given
<1>4. /\ exactly({own}) = IF key = e.key /\ e.value # O!Blank THEN {own} ELSE {}
      /\ others({own}) = {}
  BY DEF Forms
<1>5. /\ exactly({other}) = {} /\ exactly({other, empty}) = {}
      /\ others({other}) = IF key = e.key /\ e.value # O!Blank THEN {other} ELSE {}
      /\ others({other, empty}) = others({other})
  BY DEF Forms
<1>6. (CHOOSE x \in {own} : TRUE) = own /\ (CHOOSE x \in {other} : TRUE) = other
  OBVIOUS
<1> HIDE DEF exactly, others
<1>7. O!Get({own}, key) = IF key = e.key /\ e.value # O!Blank THEN e.value ELSE O!NotGiven
  <2>1. CASE key = e.key /\ e.value # O!Blank
    <3>1. exactly({own}) = {own}
      BY <1>4, <2>1
    <3> QED BY <1>1, <1>3, <1>6, <2>1, <3>1
  <2>2. CASE ~(key = e.key /\ e.value # O!Blank)
    <3>1. exactly({own}) = {}
      BY <1>4, <2>2
    <3> QED BY <1>3, <2>2, <3>1
  <2> QED BY <2>1, <2>2
<1>8. O!Given({own}, key) = IF key = e.key /\ e.value # O!Blank THEN e.value ELSE O!NotGiven
  BY Zenon, <1>2, <1>3, <1>4, <1>7
<1>9. O!Get({other}, key) = O!NotGiven /\ O!Get({other, empty}, key) = O!NotGiven
  BY Zenon, <1>3, <1>5
<1>10. O!optionValue({other}, key) =
         IF key = e.key /\ e.value # O!Blank THEN e.value ELSE O!NotGiven
  BY <1>1, <1>3, <1>5, <1>6, <1>9
<1>11. O!optionValue({other, empty}, key) = O!optionValue({other}, key)
  <2> DEFINE both == {other, empty}
  <2>1. O!Get(both, key) = O!NotGiven /\ others(both) = others({other})
    BY Zenon, <1>5, <1>9
  <2> HIDE DEF both
  <2>2. O!optionValue(both, key) = O!optionValue({other}, key)
    BY <1>3, <1>9, <2>1
  <2> QED BY Zenon, <2>2 DEF both
<1>12. /\ O!Given({other}, key) =
            IF key = e.key /\ e.value # O!Blank /\ key \in O!Loose THEN e.value ELSE O!NotGiven
       /\ O!Given({other, empty}, key) = O!Given({other}, key)
  <2>1. CASE key \in O!Loose
    BY <1>3, <1>10, <1>11, <2>1
  <2>2. CASE key \notin O!Loose
    BY Zenon, <1>3, <1>9, <2>2
  <2> QED BY <2>1, <2>2
<1> QED BY <1>8, <1>12 DEF GivenByForms

(* An option in another spelling means what it means under its own name,   *)
(* or nothing at all (dsn.go:271).                                         *)
LEMMA Spellings == \A e \in OptionEntries : O!SpellingsAgree(e)
<1> SUFFICES ASSUME NEW e \in OptionEntries PROVE O!SpellingsAgree(e)
  OBVIOUS
<1> DEFINE own == [e EXCEPT !.exact = TRUE]
           other == [e EXCEPT !.exact = FALSE]
           empty == [own EXCEPT !.value = O!Blank]
           flag(query) == \E x \in query : x.key = "bidiStringType" /\ x.exact
<1>1. Forms(e, own, other, empty)
  BY DEF Forms, OptionEntries
<1> HIDE DEF own, other, empty
<1>2. /\ flag({own}) <=> e.key = "bidiStringType"
      /\ ~flag({other}) /\ ~flag({})
      /\ flag({other, empty}) <=> e.key = "bidiStringType"
  BY <1>1 DEF Forms
<1>3. \A key :
        /\ O!Given({own}, key) =
             IF key = e.key /\ e.value # O!Blank THEN e.value ELSE O!NotGiven
        /\ O!Given({other}, key) =
             IF key = e.key /\ e.value # O!Blank /\ key \in O!Loose THEN e.value ELSE O!NotGiven
        /\ O!Given({other, empty}, key) = O!Given({other}, key)
  <2>1. \A key : GivenByForms(e, own, other, empty, key)
    BY Zenon, <1>1, OneEntry
  <2> QED BY Zenon, <2>1 DEF GivenByForms
<1>4. CASE e.key \in O!Loose /\ (e.value # O!Blank \/ e.key # "bidiStringType")
  <2>1. \A key : /\ O!Given({other}, key) = O!Given({own}, key)
                 /\ O!Given({other, empty}, key) = O!Given({own}, key)
    BY Zenon, <1>3, <1>4
  <2>2. O!Given({own}, "bidiStringType") = O!NotGiven => e.key # "bidiStringType"
    <3>1. e.value # O!NotGiven
      BY DEF OptionEntries, OptionValues, O!NotGiven
    <3> QED BY Zenon, <1>3, <1>4, <3>1
  <2>3. O!ParseDSN({other}) = O!ParseDSN({own})
    BY Zenon, <1>2, <2>1, <2>2, SameGiven
  <2>4. O!ParseDSN({other, empty}) = O!ParseDSN({own})
    BY Zenon, <1>2, <2>1, <2>2, SameGiven
  <2> QED BY Zenon, <1>4, <2>3, <2>4 DEF O!SpellingsAgree, own, other, empty
<1>5. CASE e.key \notin O!Loose
  <2>1. \A key : O!Given({other}, key) = O!NotGiven
    BY Zenon, <1>3, <1>5
  <2>2. \A key : O!Given({}, key) = O!NotGiven
    BY DEF O!Given, O!Get, O!optionValue
  <2>3. O!ParseDSN({other}) = O!ParseDSN({})
    BY Zenon, <1>2, <2>1, <2>2, SameGiven
  <2> QED BY Zenon, <1>5, <2>3 DEF O!SpellingsAgree, own, other, empty
<1>6. CASE e.key \in O!Loose /\ ~(e.value # O!Blank \/ e.key # "bidiStringType")
  BY Zenon, <1>6 DEF O!SpellingsAgree
<1> QED BY <1>4, <1>5, <1>6

(* Whatever entries a data source name has, with whatever numbers: what    *)
(* ParseDSN accepts is within the limits of Validate and can be sent to    *)
(* the server as it is, Validate rejects nothing the parsers accepted but  *)
(* a port or a cache size, and an option means the same in each of its     *)
(* spellings (dsn.go:271, config.go:147, dbconn.go:393).                   *)
THEOREM DataSourceNames == it \in OptionInputs => OptionsAgree
<1> SUFFICES ASSUME it \in OptionInputs PROVE OptionsAgree
  OBVIOUS
<1>1. it.query \in SUBSET OptionEntries
  BY DEF OptionInputs
<1>2. \A e \in it.query : e \in OptionEntries
  BY Zenon, <1>1
<1> QED BY Zenon, <1>1, <1>2, LimitsAgree, AcceptedOptions, Spellings DEF OptionsAgree
=============================================================================
