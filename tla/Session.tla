------------------------------ MODULE Session ------------------------------
(***************************************************************************)
(* The session state of one pooled connection: autocommit, commitment      *)
(* control, the transaction and client info, on the driver's side and on   *)
(* the server's, through the users the pool lends the connection to.       *)
(*                                                                         *)
(* A request ends in one of three ways: the server does it, the server     *)
(* rejects it (the connection stays), or the connection is lost on the way *)
(* (invalidateConnection; the server job ends and rolls back).  A reset    *)
(* that fails with another error than ErrBadConn does not keep             *)
(* database/sql from lending the connection out.                           *)
(***************************************************************************)
EXTENDS Naturals, FiniteSets

CONSTANTS
  MaxUsers,        \* how many users the connection gets, one after another
  Keys,            \* client info keys
  DsnKeys,         \* the keys with a value in the DSN
  Levels,          \* commitment-control levels of explicit isolation levels
  CfgLevel,        \* cfg.CommitmentControl
  TrueAutocommit   \* cfg.TrueAutocommit

ASSUME SessionAssumption ==
  /\ MaxUsers \in Nat \ {0}
  /\ DsnKeys \subseteq Keys
  /\ Levels \subseteq 1..4
  /\ CfgLevel \in 0..4
  /\ TrueAutocommit \in BOOLEAN

Users == 1..MaxUsers
Dsn == 0  \* in place of a user: the value of the DSN

VARIABLES
  pc,          \* "pool", "use", "gone", or the step of ResetSession
  user,        \* the current or last user
  tx,          \* the user has an open driver.Tx
  autoCommit,  \* Conn.autoCommit
  currentCommitmentControl,
  clientInfo,  \* Conn.clientInfo: who set a key at runtime, Dsn if nobody
  restoring,   \* keys that restoreClientInfo has still to send
  srvAuto,     \* server: autocommit
  srvLevel,    \* server: commitment-control level
  srvInfo,     \* server: whose value a client info key has
  pending,     \* server: users with uncommitted changes
  saved,       \* users with a committed change
  acked,       \* users whose change outside a transaction was acknowledged
  finishFailed, \* users whose Commit or Rollback failed
  resetFailed, \* users who got the connection from a failed ResetSession
  forgotten    \* keys that a failed restoreClientInfo has left changed

driverVars == <<autoCommit, currentCommitmentControl, clientInfo, restoring>>
srvVars == <<srvAuto, srvLevel, srvInfo, pending, saved>>
history == <<acked, finishFailed, resetFailed, forgotten>>
sessionVars == <<pc, user, tx, driverVars, srvVars, history>>

SessionTypeOK ==
  /\ pc \in {"pool", "use", "gone", "reset", "rollback", "attributes", "info",
             "libraries"}
  /\ user \in Users
  /\ {tx, autoCommit, srvAuto} \subseteq BOOLEAN
  /\ {currentCommitmentControl, srvLevel} \subseteq 0..4
  /\ {clientInfo, srvInfo} \subseteq [Keys -> Users \cup {Dsn}]
  /\ restoring \subseteq Keys /\ forgotten \subseteq Keys
  /\ \A s \in {pending, saved, acked, finishFailed, resetFailed} : s \subseteq Users

(* serverCommitmentControl *)
ServerLevel(auto, control) == IF auto /\ ~TrueAutocommit THEN 0 ELSE control

(* openConn: the connection is new, its first user needs no reset.         *)
SessionInit ==
  /\ pc = "use"
  /\ user = 1
  /\ tx = FALSE
  /\ autoCommit = TRUE
  /\ currentCommitmentControl = CfgLevel
  /\ clientInfo = [k \in Keys |-> Dsn]
  /\ restoring = {}
  /\ srvAuto = TRUE
  /\ srvLevel = ServerLevel(TRUE, CfgLevel)
  /\ srvInfo = [k \in Keys |-> Dsn]
  /\ pending = {}
  /\ saved = {}
  /\ acked = {}
  /\ finishFailed = {}
  /\ resetFailed = {}
  /\ forgotten = {}

(* Any request may lose the connection, before or after the server did it. *)
Lost ==
  /\ pc \notin {"pool", "gone"}
  /\ pc' = "gone"
  /\ pending' = {}
  /\ \/ UNCHANGED saved
     \/ pc = "use" /\ tx /\ saved' = saved \cup pending
     \/ pc = "use" /\ srvAuto /\ saved' = saved \cup {user}
  /\ UNCHANGED <<user, tx, driverVars, srvAuto, srvLevel, srvInfo, history>>

-----------------------------------------------------------------------------
(* A statement that changes data, in the user's transaction or outside.    *)
Exec ==
  /\ pc = "use"
  /\ IF srvAuto THEN saved' = saved \cup {user} /\ UNCHANGED pending
                ELSE pending' = pending \cup {user} /\ UNCHANGED saved
  /\ acked' = IF tx THEN acked ELSE acked \cup {user}
  /\ UNCHANGED <<pc, user, tx, driverVars, srvAuto, srvLevel, srvInfo,
                 finishFailed, resetFailed, forgotten>>

(* Mutant: the levels are shifted by one. *)
BeginTx_WrongLevel(isolation) ==
  /\ pc = "use"
  /\ ~tx
  /\ autoCommit
  /\ currentCommitmentControl' = IF isolation = 0 THEN CfgLevel ELSE isolation + 1
  /\ \/ /\ autoCommit' = FALSE
        /\ srvAuto' = FALSE
        /\ srvLevel' = ServerLevel(FALSE, currentCommitmentControl')
        /\ tx' = TRUE
     \/ UNCHANGED <<autoCommit, srvAuto, srvLevel, tx>>
  /\ UNCHANGED <<pc, user, clientInfo, restoring, srvInfo, pending, saved, history>>

(* Mutant: autoCommit is cleared before the server agrees. *)
BeginTx_FlagFirst(isolation) ==
  /\ pc = "use"
  /\ ~tx
  /\ autoCommit
  /\ currentCommitmentControl' = IF isolation = 0 THEN CfgLevel ELSE isolation
  /\ autoCommit' = FALSE
  /\ \/ /\ srvAuto' = FALSE
        /\ srvLevel' = ServerLevel(FALSE, currentCommitmentControl')
        /\ tx' = TRUE
     \/ UNCHANGED <<srvAuto, srvLevel, tx>>
  /\ UNCHANGED <<pc, user, clientInfo, restoring, srvInfo, pending, saved, history>>

(* BeginTx, level 0 for LevelDefault.  The commitment level is remembered  *)
(* before setAutoCommitState(false) is tried.  A rejected SET TRANSACTION  *)
(* changes nothing.                                                        *)
BeginTx(isolation) ==
  /\ pc = "use"
  /\ ~tx
  /\ autoCommit
  /\ currentCommitmentControl' = IF isolation = 0 THEN CfgLevel ELSE isolation
  /\ \/ /\ autoCommit' = FALSE
        /\ srvAuto' = FALSE
        /\ srvLevel' = ServerLevel(FALSE, currentCommitmentControl')
        /\ tx' = TRUE
     \/ UNCHANGED <<autoCommit, srvAuto, srvLevel, tx>>
  /\ UNCHANGED <<pc, user, clientInfo, restoring, srvInfo, pending, saved, history>>

(* Tx.finish: the commit or rollback is rejected ...                       *)
FinishRejected ==
  /\ pc = "use"
  /\ tx
  /\ tx' = FALSE
  /\ finishFailed' = finishFailed \cup {user}
  /\ UNCHANGED <<pc, user, driverVars, srvVars, acked, resetFailed, forgotten>>

(* Mutant: autocommit is not turned on again. *)
Finish_LeavesTransaction(commit) ==
  /\ pc = "use"
  /\ tx
  /\ tx' = FALSE
  /\ saved' = IF commit THEN saved \cup pending ELSE saved
  /\ pending' = {}
  /\ \/ /\ UNCHANGED <<autoCommit, srvAuto, srvLevel>>
        /\ currentCommitmentControl' = CfgLevel
        /\ UNCHANGED finishFailed
     \/ /\ finishFailed' = finishFailed \cup {user}
        /\ UNCHANGED <<autoCommit, srvAuto, srvLevel, currentCommitmentControl>>
  /\ UNCHANGED <<pc, user, clientInfo, restoring, srvInfo, acked, resetFailed,
                 forgotten>>

(* ... or done, after which setAutoCommitState(true) sends the level that  *)
(* is still current, and may be rejected itself.                           *)
Finish(commit) ==
  /\ pc = "use"
  /\ tx
  /\ tx' = FALSE
  /\ saved' = IF commit THEN saved \cup pending ELSE saved
  /\ pending' = {}
  /\ \/ /\ autoCommit' = TRUE
        /\ srvAuto' = TRUE
        /\ srvLevel' = ServerLevel(TRUE, currentCommitmentControl)
        /\ currentCommitmentControl' = CfgLevel
        /\ UNCHANGED finishFailed
     \/ /\ finishFailed' = finishFailed \cup {user}
        /\ UNCHANGED <<autoCommit, srvAuto, srvLevel, currentCommitmentControl>>
  /\ UNCHANGED <<pc, user, clientInfo, restoring, srvInfo, acked, resetFailed,
                 forgotten>>

(* Mutant: a value the server rejects is kept. *)
SetClientInfo_KeepsRejected(k) ==
  /\ pc = "use"
  /\ clientInfo' = [clientInfo EXCEPT ![k] = user]
  /\ srvInfo' \in {srvInfo, [srvInfo EXCEPT ![k] = user]}
  /\ forgotten' = forgotten \ {k}
  /\ UNCHANGED <<pc, user, tx, autoCommit, currentCommitmentControl, restoring,
                 srvAuto, srvLevel, pending, saved, acked, finishFailed,
                 resetFailed>>

(* SetClientInfo; a rejected value is taken back.                          *)
SetClientInfo(k) ==
  /\ pc = "use"
  /\ clientInfo' = [clientInfo EXCEPT ![k] = user]
  /\ srvInfo' = [srvInfo EXCEPT ![k] = user]
  /\ forgotten' = forgotten \ {k}
  /\ UNCHANGED <<pc, user, tx, autoCommit, currentCommitmentControl, restoring,
                 srvAuto, srvLevel, pending, saved, acked, finishFailed,
                 resetFailed>>

-----------------------------------------------------------------------------
(* database/sql takes the connection back and lends it to the next user,   *)
(* who resets it first.                                                    *)
Release ==
  /\ pc = "use"
  /\ ~tx
  /\ pc' = "pool"
  /\ UNCHANGED <<user, tx, driverVars, srvVars, history>>

Acquire ==
  /\ pc = "pool"
  /\ user < MaxUsers
  /\ user' = user + 1
  /\ pc' = "reset"
  /\ UNCHANGED <<tx, driverVars, srvVars, history>>

(* ResetSession returns an error that is not ErrBadConn.                   *)
ResetFails ==
  /\ pc' = "use"
  /\ resetFailed' = resetFailed \cup {user}

(* Mutant: an open transaction is not rolled back. *)
ResetSession_NoRollback ==
  /\ pc = "reset"
  /\ \/ ResetFails
     \/ pc' = "attributes" /\ UNCHANGED resetFailed
  /\ UNCHANGED <<user, tx, driverVars, srvVars, acked, finishFailed, forgotten>>

(* ResetSession: a context that is already done, else a rollback if a      *)
(* transaction is open ...                                                 *)
ResetSession ==
  /\ pc = "reset"
  /\ \/ ResetFails
     \/ pc' = (IF autoCommit THEN "attributes" ELSE "rollback") /\ UNCHANGED resetFailed
  /\ UNCHANGED <<user, tx, driverVars, srvVars, acked, finishFailed, forgotten>>

ResetRollback ==
  /\ pc = "rollback"
  /\ \/ pc' = "attributes" /\ pending' = {} /\ UNCHANGED resetFailed
     \/ ResetFails /\ UNCHANGED pending
  /\ UNCHANGED <<user, tx, driverVars, srvAuto, srvLevel, srvInfo, saved, acked,
                 finishFailed, forgotten>>

(* Mutant: the level of the last transaction is sent. *)
ResetAttributes_KeepsLevel ==
  /\ pc = "attributes"
  /\ UNCHANGED currentCommitmentControl
  /\ \/ /\ autoCommit' = TRUE
        /\ srvAuto' = TRUE
        /\ srvLevel' = ServerLevel(TRUE, currentCommitmentControl)
        /\ srvInfo' = [k \in Keys |-> IF k \in DsnKeys THEN Dsn ELSE srvInfo[k]]
        /\ restoring' = {k \in Keys : clientInfo[k] # Dsn}
        /\ clientInfo' = [k \in Keys |-> Dsn]
        /\ forgotten' = forgotten \ DsnKeys
        /\ pc' = "info"
        /\ UNCHANGED resetFailed
     \/ ResetFails /\ UNCHANGED <<autoCommit, srvAuto, srvLevel, srvInfo,
                                  restoring, clientInfo, forgotten>>
  /\ UNCHANGED <<user, tx, pending, saved, acked, finishFailed>>

(* ... then setServerAttributes, which also sends the client info of the   *)
(* DSN; after it restoreClientInfo forgets what was set at runtime ...     *)
ResetAttributes ==
  /\ pc = "attributes"
  /\ currentCommitmentControl' = CfgLevel
  /\ \/ /\ autoCommit' = TRUE
        /\ srvAuto' = TRUE
        /\ srvLevel' = ServerLevel(TRUE, CfgLevel)
        /\ srvInfo' = [k \in Keys |-> IF k \in DsnKeys THEN Dsn ELSE srvInfo[k]]
        /\ restoring' = {k \in Keys : clientInfo[k] # Dsn}
        /\ clientInfo' = [k \in Keys |-> Dsn]
        /\ forgotten' = forgotten \ DsnKeys
        /\ pc' = "info"
        /\ UNCHANGED resetFailed
     \/ ResetFails /\ UNCHANGED <<autoCommit, srvAuto, srvLevel, srvInfo,
                                  restoring, clientInfo, forgotten>>
  /\ UNCHANGED <<user, tx, pending, saved, acked, finishFailed>>

(* ... and sends the DSN value of every key that was ...                   *)
RestoreClientInfo ==
  /\ pc = "info"
  /\ \/ \E k \in restoring :
          /\ srvInfo' = [srvInfo EXCEPT ![k] = Dsn]
          /\ restoring' = restoring \ {k}
          /\ UNCHANGED <<pc, resetFailed, forgotten>>
     \/ /\ restoring = {}
        /\ pc' = "libraries"
        /\ UNCHANGED <<srvInfo, restoring, resetFailed, forgotten>>
     \/ /\ restoring # {}
        /\ ResetFails
        /\ forgotten' = forgotten \cup restoring
        /\ restoring' = {}
        /\ UNCHANGED srvInfo
  /\ UNCHANGED <<user, tx, autoCommit, currentCommitmentControl, clientInfo,
                 srvAuto, srvLevel, pending, saved, acked, finishFailed>>

(* ... and last the library list.                                          *)
AddConfiguredLibraries ==
  /\ pc = "libraries"
  /\ \/ pc' = "use" /\ UNCHANGED resetFailed
     \/ ResetFails
  /\ UNCHANGED <<user, tx, driverVars, srvVars, acked, finishFailed, forgotten>>

Finished == pc \in {"pool", "gone"} /\ UNCHANGED sessionVars

SessionNext ==
  \/ Exec
  \/ \E isolation \in Levels \cup {0} : BeginTx(isolation)
  \/ FinishRejected
  \/ \E commit \in BOOLEAN : Finish(commit)
  \/ \E k \in Keys : SetClientInfo(k)
  \/ Release \/ Acquire
  \/ ResetSession \/ ResetRollback \/ ResetAttributes \/ RestoreClientInfo
  \/ AddConfiguredLibraries
  \/ Lost
  \/ Finished

SessionSpec == SessionInit /\ [][SessionNext]_sessionVars

-----------------------------------------------------------------------------
(* tx.go setAutoCommitState, driver.go setServerAttributes, clientinfo.go   *)
(* SetClientInfo: whichever request fails, what the driver holds is what    *)
(* the server has, autocommit and client info, so BeginTx and ResetSession  *)
(* decide on the truth; but for keys that a failed restoreClientInfo has    *)
(* forgotten.  (With the types of all variables.)                           *)
SessionAgrees ==
  /\ SessionTypeOK
  /\ pc # "gone" => autoCommit = srvAuto
  /\ pc = "use" => \A k \in Keys \ forgotten : clientInfo[k] = srvInfo[k]

(* tx.go finish and driver.go ResetSession: a change is committed by its    *)
(* own user only.  A transaction whose Commit failed is never committed     *)
(* later by somebody else who is lent the connection.                       *)
NeverCommittedByOthers == [][saved' \ saved \subseteq {user'}]_sessionVars

(* A change acknowledged outside a transaction is committed, unless the     *)
(* user's own Commit or Rollback failed before (tx.go finish then leaves    *)
(* autocommit off) or their ResetSession did.                               *)
AckedIsCommitted == acked \subseteq saved \cup finishFailed \cup resetFailed

(* driver.go ResetSession: a reset that succeeds, whatever the users before *)
(* did and wherever their requests failed, starts with autocommit on, no    *)
(* uncommitted change, the configured level, and the client info of the     *)
(* DSN but for keys that an earlier failed reset has forgotten.             *)
ResetRestores ==
  [][pc = "libraries" /\ pc' = "use" /\ user \notin resetFailed' =>
       /\ autoCommit /\ srvAuto /\ pending = {}
       /\ currentCommitmentControl = CfgLevel
       /\ srvLevel = ServerLevel(TRUE, CfgLevel)
       /\ \A k \in Keys : srvInfo[k] # Dsn => k \in forgotten]_sessionVars

(* readme.md:245, "ResetSession (pool reuse) restores the DSN values, so a  *)
(* runtime change does not leak to the next user of the connection".        *)
ClientInfoRestored ==
  [][pc = "libraries" /\ pc' = "use" /\ user \notin resetFailed' =>
       \A k \in Keys : srvInfo[k] = Dsn]_sessionVars

(* readme.md:115, trueAutocommit, "With autocommit on, keeps the configured *)
(* commitmentControl level".                                                *)
ConfiguredLevelKept ==
  pc = "use" /\ autoCommit /\ TrueAutocommit => srvLevel = CfgLevel

(* readme.md:329, ResetSession "Restores autocommit ... for pool reuse": a  *)
(* user whose own transactions did not fail has their acknowledged changes  *)
(* committed.                                                               *)
AckedAfterPoolReuse == acked \subseteq saved \cup finishFailed
=============================================================================
