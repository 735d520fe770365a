------------------------------ MODULE Connect ------------------------------
(***************************************************************************)
(* Connector.Connect: signing on, asking the port mapper, and starting the *)
(* database server, each on a socket of its own, against the context and   *)
(* connectTimeout, which bounds the context of the whole.  Beside it run   *)
(* the goroutines of context.AfterFunc, which put a deadline of now on the *)
(* socket when the context is done, and time.                              *)
(*                                                                         *)
(* With a socketTimeout the sockets are wrapped: SetDeadline and Read then *)
(* take two steps, and between those of one the other may run.             *)
(***************************************************************************)
EXTENDS Naturals

CONSTANT Settings   \* the configurations and servers tried

ASSUME ConnectAssumption ==
  Settings \subseteq
    [mapped : BOOLEAN,     \* no port given: the port mapper is asked
     tls : BOOLEAN,
     wrapped : BOOLEAN,    \* a socketTimeout is set
     bounded : BOOLEAN,    \* the context has a deadline, connectTimeout's
     cancel : BOOLEAN,     \* the caller may cancel
     libraries : BOOLEAN,  \* there is a library list to send
     package : BOOLEAN,    \* extended dynamic, "exception", maybe no name
     level : Nat,          \* the password level of the system
     healthy : BOOLEAN]    \* the servers answer and the caller waits

Sockets == {"signon", "mapper", "database"}

VARIABLES
  cfg,      \* the setting
  stage,    \* the exchange, or what is done between exchanges
  phase,    \* where in it: "dial", "tls", "write", "load", "arm", "wait"
  part,     \* the part of the reply waited for
  seen,     \* the ctxDeadline a wrapped Read has loaded
  level,    \* SystemInfo.PasswordLevel
  sent,     \* the authentication scheme of the last logon request
  timeUp,   \* the deadline of the context has passed
  done,     \* ctx.Err() # nil
  ended,    \* ctx.Err() # nil when the AfterFunc was stopped
  sock,     \* each socket: "none", "open" or "closed"
  read,     \* its read deadline, see Deadlines
  write,    \* its write deadline
  ctxDl,    \* ctxDeadline of its wrapper
  after,    \* its AfterFunc goroutine
  result    \* what Connect returned

ctxVars == <<timeUp, done>>
sockVars == <<sock, read, write, ctxDl, after>>
vars == <<cfg, stage, phase, part, seen, level, sent, ctxVars, ended, sockVars, result>>

(* "ctx": the deadline of the context.  "idle": the socket timeout from    *)
(* when the read began.  "past": time.Now() when the context was done.     *)
Deadlines == {"none", "ctx", "idle", "past"}
Stages == {"exchange", "authenticate", "mapper", "seeds", "start",
           "attributes", "libraries", "return", "package", "done"}
Exchanges == Stages \ {"return", "package", "done"}

TypeOK ==
  /\ cfg \in Settings
  /\ stage \in Stages
  /\ phase \in {"dial", "tls", "write", "load", "arm", "wait", "stop", "clear", "cleared"}
  /\ part \in 1..2
  /\ seen \in Deadlines \ {"idle"}
  /\ level \in Nat
  /\ sent \in {0, 1, 3, 7}
  /\ {timeUp, done, ended} \subseteq BOOLEAN
  /\ sock \in [Sockets -> {"none", "open", "closed"}]
  /\ {read, write} \subseteq [Sockets -> Deadlines]
  /\ ctxDl \in [Sockets -> Deadlines \ {"idle"}]
  /\ after \in [Sockets -> {"off", "armed", "started", "half", "ran"}]
  /\ result \in {"none", "ok", "ctxErr", "err", "dialErr"}

Init ==
  /\ cfg \in Settings
  /\ stage = "exchange"
  /\ phase = "dial"
  /\ part = 1
  /\ seen = "none"
  /\ level = 0
  /\ sent = 0
  /\ timeUp = FALSE
  /\ done = FALSE
  /\ ended = FALSE
  /\ sock = [s \in Sockets |-> "none"]
  /\ read = [s \in Sockets |-> "none"]
  /\ write = [s \in Sockets |-> "none"]
  /\ ctxDl = [s \in Sockets |-> "none"]
  /\ after = [s \in Sockets |-> "off"]
  /\ result = "none"

-----------------------------------------------------------------------------
(* The socket of the stage; the port mapper's is never wrapped.            *)
S == CASE stage \in {"exchange", "authenticate"} -> "signon"
       [] stage = "mapper" -> "mapper"
       [] OTHER -> "database"
Wrapped(s) == cfg.wrapped /\ s # "mapper"

passwordSubstitute(l) == IF l < 2 THEN "des" ELSE IF l < 4 THEN "sha1" ELSE "sha512"

(* Mutant: what is not DES is the SHA of level 2.                          *)
passwordAuthScheme_Old(sub) == IF sub = "des" THEN 1 ELSE 3

passwordAuthScheme(sub) == CASE sub = "des" -> 1 [] sub = "sha1" -> 3 [] OTHER -> 7

Goto(st, ph) == stage' = st /\ phase' = ph

(* The deferred stop of the AfterFunc, which does not wait for a goroutine *)
(* that has started.                                                       *)
Stopped(s) == [after EXCEPT ![s] = IF @ = "armed" THEN "off" ELSE @]

(* Mutant: the socket stays open.                                          *)
Shut_Not(s) == after' = Stopped(s) /\ UNCHANGED <<sock, read, write, ctxDl>>

(* conn.Close with the deferred calls of connectSystemInfo and             *)
(* connectDatabase; deadlines of a closed socket do not matter.            *)
Shut(s) ==
  /\ sock' = [sock EXCEPT ![s] = "closed"]
  /\ after' = Stopped(s)
  /\ UNCHANGED <<read, write, ctxDl>>

Fail(r) == Goto("done", "wait") /\ result' = r

(* A failed exchange: the error of the context if it is done.  After a     *)
(* failed port mapper the default port is tried.                           *)
Broken ==
  /\ Shut(S)
  /\ IF stage = "mapper" THEN Goto("seeds", "dial") /\ UNCHANGED result
     ELSE Fail(IF done THEN "ctxErr" ELSE "err")

-----------------------------------------------------------------------------
(* Mutant: connectTimeout is for the dial only.                            *)
SetDeadlines_Not(s) ==
  /\ after' = [after EXCEPT ![s] = IF s = "mapper" THEN "off" ELSE "armed"]
  /\ UNCHANGED <<read, write, ctxDl>>

(* setConnDeadline and the AfterFunc; ResolvePort has only the deadline.   *)
SetDeadlines(s) ==
  LET d == IF cfg.bounded THEN "ctx" ELSE "none"
  IN  /\ read' = [read EXCEPT ![s] = d]
      /\ write' = [write EXCEPT ![s] = d]
      /\ ctxDl' = [ctxDl EXCEPT ![s] = d]
      /\ after' = [after EXCEPT ![s] = IF s = "mapper" THEN "off" ELSE "armed"]

(* dialHostServer and the dial of ResolvePort: DialContext, the socket     *)
(* options, and with TLS the handshake.  A context that is done fails the  *)
(* dial with the error of the transport.                                   *)
Dial ==
  /\ stage \in Exchanges /\ phase = "dial"
  /\ \/ /\ ~done /\ ~timeUp
        /\ sock' = [sock EXCEPT ![S] = "open"]
        /\ IF cfg.tls /\ stage # "mapper"
           THEN phase' = "tls" /\ UNCHANGED <<read, write, ctxDl, after>>
           ELSE phase' = "write" /\ SetDeadlines(S)
        /\ UNCHANGED <<stage, result>>
     \/ /\ ~cfg.healthy
        /\ IF stage = "mapper" THEN Goto("seeds", "dial") /\ UNCHANGED result
           ELSE Fail("dialErr")
        /\ UNCHANGED sockVars
     \/ /\ ~cfg.healthy /\ stage # "mapper"
        /\ Shut(S) /\ Fail("err")
  /\ UNCHANGED <<cfg, part, seen, level, sent, ctxVars, ended>>

Handshake ==
  /\ phase = "tls"
  /\ \/ /\ ~done /\ ~timeUp
        /\ phase' = "write" /\ SetDeadlines(S)
        /\ UNCHANGED <<stage, sock, result>>
     \/ /\ ~cfg.healthy
        /\ Shut(S) /\ Fail("dialErr")
  /\ UNCHANGED <<cfg, part, seen, level, sent, ctxVars, ended>>

Expired(d) == d = "past" \/ (d = "ctx" /\ timeUp)

(* conn.Write.  The logon requests first build the password substitute,    *)
(* which refuses a user or password that is too long or missing.           *)
Write ==
  /\ stage \in Exchanges /\ phase = "write"
  /\ \/ /\ ~Expired(write[S])
        /\ phase' = IF Wrapped(S) THEN "load" ELSE "wait"
        /\ sent' = IF stage \in {"authenticate", "start"}
                   THEN passwordAuthScheme(passwordSubstitute(level)) ELSE sent
        /\ part' = 1
        /\ UNCHANGED <<stage, sockVars, result>>
     \/ /\ Expired(write[S]) \/ ~cfg.healthy
        /\ Broken
        /\ UNCHANGED <<part, sent>>
  /\ UNCHANGED <<cfg, seen, level, ctxVars, ended>>

(* socketTimeoutConn.Read: it loads ctxDeadline under the lock ...         *)
Load ==
  /\ phase = "load"
  /\ seen' = ctxDl[S]
  /\ phase' = "arm"
  /\ UNCHANGED <<cfg, stage, part, level, sent, ctxVars, ended, sockVars, result>>

(* Mutant: ctxDeadline replaces the socket timeout, set or not.            *)
Arm_Seen ==
  /\ phase = "arm"
  /\ read' = [read EXCEPT ![S] = seen]
  /\ phase' = "wait"
  /\ UNCHANGED <<cfg, stage, part, seen, level, sent, ctxVars, ended, sock, write,
                 ctxDl, after, result>>

(* ... and then sets the earlier of it and the socket timeout, over what a *)
(* SetDeadline may have set in the meantime.                               *)
Arm ==
  /\ phase = "arm"
  /\ \E d \in CASE seen = "none" -> {"idle"} [] seen = "ctx" -> {"ctx", "idle"}
                [] OTHER -> {"past"} :
       read' = [read EXCEPT ![S] = d]
  /\ phase' = "wait"
  /\ UNCHANGED <<cfg, stage, part, seen, level, sent, ctxVars, ended, sock, write,
                 ctxDl, after, result>>

-----------------------------------------------------------------------------
(* The exchange after this one.  A system that is signed on to has told    *)
(* its password level.                                                     *)
NextExchange ==
  CASE stage = "exchange" -> "authenticate"
    [] stage = "seeds" -> "start"
    [] stage = "start" -> "attributes"
    [] stage = "attributes" /\ cfg.libraries -> "libraries"

(* connectSystemInfo and ResolvePort close their socket when they return.  *)
Accepted ==
  CASE stage = "authenticate" ->
         Shut("signon") /\ Goto(IF cfg.mapped THEN "mapper" ELSE "seeds", "dial")
    [] stage = "mapper" -> Shut("mapper") /\ Goto("seeds", "dial")
    [] stage = "libraries" \/ (stage = "attributes" /\ ~cfg.libraries) ->
         Goto("return", "stop") /\ UNCHANGED sockVars
    [] OTHER -> Goto(NextExchange, "write") /\ UNCHANGED sockVars

(* External: the server takes a logon whose scheme is the one of its level.*)
LogonFits ==
  stage \in {"authenticate", "start"} =>
    sent = CASE cfg.level \in 0..1 -> 1 [] cfg.level \in 2..3 -> 3 [] OTHER -> 7

(* Mutant: one more part is read.                                          *)
Reply_ReadsOn ==
  /\ phase = "wait" /\ stage \in Exchanges
  /\ ~Expired(read[S])
  /\ part' = part + 1
  /\ phase' = IF Wrapped(S) THEN "load" ELSE "wait"
  /\ UNCHANGED <<cfg, stage, seen, level, sent, ctxVars, ended, sockVars, result>>

(* readPacket takes the length and then the rest, ResolvePort the sign and *)
(* then the port.  The complete reply is accepted, or it is a refusal or   *)
(* cannot be parsed.                                                       *)
Reply ==
  /\ phase = "wait" /\ stage \in Exchanges
  /\ ~Expired(read[S])
  /\ \/ /\ part = 1 /\ part' = 2
        /\ phase' = IF Wrapped(S) THEN "load" ELSE "wait"
        /\ UNCHANGED <<stage, level, sockVars, result>>
     \/ /\ part = 2 /\ LogonFits
        /\ Accepted
        /\ level' = IF stage = "exchange" THEN cfg.level ELSE level
        /\ UNCHANGED <<part, result>>
     \/ /\ part = 2 /\ (~LogonFits \/ ~cfg.healthy)
        /\ Broken
        /\ UNCHANGED <<part, level>>
  /\ UNCHANGED <<cfg, seen, sent, ctxVars, ended>>

(* A read deadline passes, or the server closes the socket.                *)
ReadTimesOut ==
  /\ phase = "wait" /\ stage \in Exchanges
  /\ Expired(read[S]) \/ (read[S] = "idle" /\ ~cfg.healthy)
  /\ Broken
  /\ UNCHANGED <<cfg, part, seen, level, sent, ctxVars, ended>>

PeerCloses ==
  /\ phase = "wait" /\ stage \in Exchanges
  /\ ~cfg.healthy
  /\ Broken
  /\ UNCHANGED <<cfg, part, seen, level, sent, ctxVars, ended>>

-----------------------------------------------------------------------------
(* connectDatabase returns: the AfterFunc is stopped, then the deadline is *)
(* cleared, by SetDeadline in its two steps.                               *)
Stop ==
  /\ phase = "stop"
  /\ after' = Stopped("database")
  /\ ended' = done
  /\ phase' = "clear"
  /\ UNCHANGED <<cfg, stage, part, seen, level, sent, ctxVars, sock, read, write,
                 ctxDl, result>>

(* Mutant: the deadlines stay.                                             *)
Clear_Not ==
  /\ phase \in {"clear", "cleared"}
  /\ Goto("package", "wait")
  /\ UNCHANGED <<cfg, part, seen, level, sent, ctxVars, ended, sockVars, result>>

Clear ==
  /\ \/ /\ phase = "clear" /\ phase' = "cleared"
        /\ ctxDl' = [ctxDl EXCEPT !["database"] = "none"]
        /\ UNCHANGED <<stage, read, write>>
     \/ /\ phase = "cleared" /\ Goto("package", "wait")
        /\ read' = [read EXCEPT !["database"] = "none"]
        /\ write' = [write EXCEPT !["database"] = "none"]
        /\ UNCHANGED ctxDl
  /\ UNCHANGED <<cfg, part, seen, level, sent, ctxVars, ended, sock, after, result>>

(* openConn: newPackageState, which may refuse the configuration.          *)
NewPackageState ==
  /\ stage = "package"
  /\ \/ /\ Goto("done", "wait") /\ result' = "ok" /\ UNCHANGED sockVars
     \/ /\ cfg.package
        /\ Shut("database") /\ Fail("err")
  /\ UNCHANGED <<cfg, part, seen, level, sent, ctxVars, ended>>

-----------------------------------------------------------------------------
(* The AfterFunc goroutine of a socket: SetDeadline(time.Now()), which on  *)
(* a wrapped socket sets ctxDeadline first.                                *)
AfterStarts(s) ==
  /\ after[s] = "armed" /\ done
  /\ after' = [after EXCEPT ![s] = "started"]
  /\ UNCHANGED <<cfg, stage, phase, part, seen, level, sent, ctxVars, ended, sock, read,
                 write, ctxDl, result>>

SetCtxDeadline(s) ==
  /\ after[s] = "started"
  /\ after' = [after EXCEPT ![s] = "half"]
  /\ ctxDl' = [ctxDl EXCEPT ![s] = "past"]
  /\ UNCHANGED <<cfg, stage, phase, part, seen, level, sent, ctxVars, ended, sock, read,
                 write, result>>

SetDeadline(s) ==
  /\ after[s] = "half"
  /\ after' = [after EXCEPT ![s] = "ran"]
  /\ read' = [read EXCEPT ![s] = "past"]
  /\ write' = [write EXCEPT ![s] = "past"]
  /\ UNCHANGED <<cfg, stage, phase, part, seen, level, sent, ctxVars, ended, sock, ctxDl,
                 result>>

AfterFunc(s) == AfterStarts(s) \/ SetCtxDeadline(s) \/ SetDeadline(s)

(* The caller cancels; the deadline passes, and then ctx.Err() tells.      *)
(* After Connect has returned openConn's own cancel ends the context too.  *)
Cancel ==
  /\ ~done
  /\ (cfg.cancel /\ ~cfg.healthy) \/ (cfg.bounded /\ stage = "done")
  /\ done' = TRUE
  /\ UNCHANGED <<cfg, stage, phase, part, seen, level, sent, timeUp, ended, sockVars, result>>

TimePasses ==
  /\ cfg.bounded /\ ~cfg.healthy /\ ~timeUp
  /\ timeUp' = TRUE
  /\ UNCHANGED <<cfg, stage, phase, part, seen, level, sent, done, ended, sockVars, result>>

CtxExpires ==
  /\ timeUp /\ ~done
  /\ done' = TRUE
  /\ UNCHANGED <<cfg, stage, phase, part, seen, level, sent, timeUp, ended, sockVars, result>>

Connector ==
  \/ Dial \/ Handshake \/ Write \/ Load \/ Arm \/ ReadTimesOut \/ Stop \/ Clear
  \/ NewPackageState

Next ==
  \/ Connector \/ Reply \/ PeerCloses
  \/ \E s \in Sockets : AfterFunc(s)
  \/ Cancel \/ TimePasses \/ CtxExpires

Spec == Init /\ [][Next]_vars

(* The goroutines run, time passes, a dial or handshake ends with its      *)
(* context, and a socket timeout fires; only healthy servers must answer,  *)
(* and no caller must cancel.                                              *)
Fairness ==
  /\ WF_vars(Connector)
  /\ \A s \in Sockets : WF_vars(AfterFunc(s))
  /\ WF_vars(TimePasses)
  /\ WF_vars(CtxExpires)
  /\ WF_vars(cfg.healthy /\ Reply)

LiveSpec == Spec /\ Fairness

-----------------------------------------------------------------------------
Returned == stage = "done"

(* driver.go openConn, signon.go:31, dbconn.go:52: there is one open       *)
(* socket at a time; after an error there is none, and after success only  *)
(* the one of the connection.  (With the types of all variables.)          *)
NoSocketLeft ==
  LET open == {s \in Sockets : sock[s] = "open"}
  IN  /\ TypeOK
      /\ \A s, t \in open : s = t
      /\ Returned => open = IF result = "ok" THEN {"database"} ELSE {}

(* dbconn.go:43, wire.go:18: a connection that was opened before the       *)
(* context ended carries no deadline, and no goroutine that will set one,  *)
(* even though openConn cancels the context when it returns.               *)
HandedOverUnbounded ==
  result = "ok" /\ ~ended =>
    /\ after["database"] = "off"
    /\ read["database"] = "none" /\ write["database"] = "none" /\ ctxDl["database"] = "none"

(* transport.go:117, dbconn.go:44: Connect returns after its context is    *)
(* done whatever the servers do and however SetDeadline and Read           *)
(* interleave, at the latest when the socket timeout has passed.  Only the *)
(* port mapper is not told: without a deadline it may block for ever.  And *)
(* "connectTimeout bounds the whole open" (driver.go:97): with it Connect  *)
(* returns even if every server accepts and never answers.                 *)
ConnectReturns ==
  /\ done ~> (Returned \/ (stage = "mapper" /\ phase # "dial" /\ ~cfg.bounded))
  /\ cfg.bounded => <>Returned

(* Signing on to servers that answer succeeds at every password level,     *)
(* with or without port mapper, TLS and library list, unless the package   *)
(* options are refused.                                                    *)
HealthyConnects == cfg.healthy /\ ~cfg.package => <>(result = "ok")
=============================================================================
