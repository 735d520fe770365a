------------------------------ MODULE Requests ------------------------------
(***************************************************************************)
(* The requests of the driver: which attributes each builder puts into the *)
(* body, what it writes into the request template, and whether its sender  *)
(* waits for an answer.                                                    *)
(*                                                                         *)
(* An attribute is its code point and its length in bytes with the LL/CP   *)
(* prefix; values are left out.  A body is a sequence of attributes.  The  *)
(* template has the flags of the ORS bitmap, the handles of the RPB and of *)
(* the descriptor, and the number of attributes the builder has counted.   *)
(***************************************************************************)
EXTENDS Integers, Sequences, FiniteSets, SequencesExt

CONSTANTS
  NameLen,   \* bytes of an encoded name
  DataLen    \* bytes of a statement text or of marker data

(* appendByteAttribute and its siblings.                                   *)
Byte(cp) == [cp |-> cp, len |-> 7]
Short(cp) == [cp |-> cp, len |-> 8]
Word(cp) == [cp |-> cp, len |-> 10]
ShortInt(cp) == [cp |-> cp, len |-> 12]
Name(cp) == [cp |-> cp, len |-> 10 + NameLen]
Text == [cp |-> "3831", len |-> 12 + DataLen]
LLCP(cp, n) == [cp |-> cp, len |-> 6 + n]

Bytes(body) == FoldSeq(LAMBDA a, n : a.len + n, 0, body)

(* body[:len(body)-n]: the last attribute goes, or part of it stays.       *)
Truncate(body, n) ==
  IF Last(body).len = n THEN Front(body)
  ELSE Append(Front(body), [cp |-> "torn", len |-> Last(body).len - n])

If(b, s) == IF b THEN s ELSE <<>>
One(b) == IF b THEN 1 ELSE 0

(* buildHeader and appendRequestTemplate: a header of 20 bytes, a template *)
(* of 20 and the body.                                                     *)
Request(fn, flags, rpb, pm, parms, body) ==
  [fn |-> fn, flags |-> flags, rpb |-> rpb, pm |-> pm, parms |-> parms,
   body |-> body, length |-> 40 + Bytes(body)]

-----------------------------------------------------------------------------
(* packageSpec: nil without packages; a name that CCSID 37 cannot encode   *)
(* is left out of the body.                                                *)
NoSpec == [enabled |-> FALSE, packaged |-> FALSE, encodes |-> TRUE]
PackageSpecs == {NoSpec} \cup [enabled : {TRUE}, packaged : BOOLEAN, encodes : BOOLEAN]

appendPrepareAttributes(s) ==
  CASE ~s.enabled                -> [add |-> <<>>, parms |-> 0]
    [] s.packaged /\ s.encodes   -> [add |-> <<Byte("3808"), Name("3804")>>, parms |-> 2]
    [] s.packaged /\ ~s.encodes  -> [add |-> <<Byte("3808")>>, parms |-> 1]
    [] OTHER                     -> [add |-> <<Byte("3808"), LLCP("3804", 0)>>, parms |-> 2]

appendExecuteAttributes(s) ==
  IF s.packaged /\ s.encodes THEN [add |-> <<Name("3804")>>, parms |-> 1]
  ELSE [add |-> <<>>, parms |-> 0]

appendLibraryAttributes(s) ==
  IF s.enabled /\ s.encodes THEN [add |-> <<Name("3801")>>, parms |-> 1]
  ELSE [add |-> <<>>, parms |-> 0]

-----------------------------------------------------------------------------
(* The statement's requests.                                               *)
Reply == "sendReplyImmediately"

buildCreateRPBRequest(h, s) ==
  LET lib == appendLibraryAttributes(s)
  IN  Request("createRPB", {}, h, 0, 2 + lib.parms,
              <<Name("3806"), Name("380B")>> \o lib.add)

buildPrepareAndDescribeRequestCCSID(h, type, s) ==
  LET typed == type \in {"select", "call"}
      pkg   == appendPrepareAttributes(s)
  IN  Request("prepareDescribe",
              {Reply, "dataFormat", "sqlca", "parameterMarkerFormat"}
                \cup (IF type = "call" THEN {} ELSE {"extendedColumnDescriptors"}),
              h, 0, 1 + 2 * One(typed) + pkg.parms + 1,
              <<Name("3806")>> \o If(typed, <<Short("3812"), Byte("3809")>>)
                \o pkg.add \o <<Text>>)

buildOpenDescribePreparedRequest(h, d, bound, hold, s) ==
  LET pkg == appendExecuteAttributes(s)
  IN  Request("openDescribe", {Reply, "dataFormat", "sqlca", "resultSetAttributes"},
              h, d, 2 + pkg.parms + 4 + 2 * One(hold) + One(bound),
              <<Name("3806"), Name("380B")>> \o pkg.add
                \o <<Byte("3809"), Byte("3833"), Byte("380A"), Short("380D")>>
                \o If(hold, <<Byte("380F"), Byte("3830")>>)
                \o If(bound, <<LLCP("381F", DataLen)>>))

(* Mutant: the relative fetch is appended to the scroll option.            *)
buildFetchRequestForStatement_Appends(h, option) ==
  Request("fetch", {Reply, "resultData"}, h, 0, 4,
          <<Name("380B"), Short("380E")>>
            \o If(option \in {"relative", "direct"}, <<ShortInt("380E")>>)
            \o <<Byte("3833"), Word("3834")>>)

(* A relative or direct fetch cuts the scroll option it has just appended  *)
(* off again, by its length, and appends the longer form.                  *)
buildFetchRequestForStatement(h, option) ==
  LET plain == <<Name("380B"), Short("380E")>>
      moved == Append(Truncate(plain, 8), ShortInt("380E"))
  IN  Request("fetch", {Reply, "resultData"}, h, 0, 4,
              (IF option \in {"relative", "direct"} THEN moved ELSE plain)
                \o <<Byte("3833"), Word("3834")>>)

buildExecuteImmediateRequestCCSID(type, s) ==
  LET call == type = "call"
      pkg  == appendPrepareAttributes(s)
  IN  Request("executeImmediate", {Reply, "sqlca"}, 0, 0,
              2 * One(call) + One(call /\ ~s.enabled) + pkg.parms + 1,
              If(call, <<Short("3812"), Byte("3809")>>)
                \o If(call /\ ~s.enabled, <<Byte("3808")>>) \o pkg.add \o <<Text>>)

buildExecutePreparedRequest(h, d, type, outputs, s) ==
  LET pkg == appendExecuteAttributes(s)
  IN  Request("execute",
              {Reply, "sqlca"} \cup (IF type = "call" /\ outputs THEN {"resultData"} ELSE {}),
              h, d, 2 + pkg.parms, <<Short("3812"), LLCP("381F", DataLen)>> \o pkg.add)

buildBlockExecuteRequest(h, d, s) ==
  LET pkg == appendExecuteAttributes(s)
  IN  Request("execute", {Reply, "sqlca"}, h, d, 3 + pkg.parms,
              <<Short("3812"), LLCP("381F", DataLen), LLCP("3814", 2)>> \o pkg.add)

buildExecuteCallNoParamsRequest(h, s) ==
  LET pkg == appendExecuteAttributes(s)
  IN  Request("execute", {Reply, "sqlca", "resultSetAttributes"}, h, 0,
              1 + pkg.parms, <<Short("3812")>> \o pkg.add)

buildChangeDescriptorRequest(h, d) ==
  Request("changeDescriptor", {Reply, "sqlca"}, h, d, 1, <<LLCP("381E", DataLen)>>)

buildDeleteDescriptorRequest(h, d) ==
  Request("deleteDescriptor", {Reply, "sqlca"}, h, d, 0, <<>>)

buildCloseCursorRequest ==
  Request("close", {Reply}, 0, 0, 2, <<Name("380B"), Byte("3810")>>)

(* Mutant: the close of a result set asks for a reply, like the other one. *)
buildCloseResultSetCursorRequest_Reply(h) ==
  Request("close", {Reply, "replyRLECompressed"}, h, 0, 2, <<Name("380B"), Byte("3810")>>)

buildCloseResultSetCursorRequest(h) ==
  Request("close", {"replyRLECompressed"}, h, 0, 2, <<Name("380B"), Byte("3810")>>)

buildDeleteRPBRequest(h) ==
  Request("deleteRPB", {Reply, "replyRLECompressed"}, h, 0, 0, <<>>)

buildChangeRPBQueryTimeoutRequest(h) ==
  Request("changeRPB", {}, h, 0, 1, <<Word("3817")>>)

buildWriteLOBDataRequest ==
  Request("writeLobData", {Reply, "resultData"}, 0, 0, 5,
          <<Word("3818"), Word("3819"), Word("381A"), Byte("381B"), LLCP("381D", DataLen)>>)

buildRetrieveLobDataRequest ==
  Request("retrieveLobData", {Reply, "resultData"}, 0, 0, 5,
          <<Word("3818"), Word("3819"), Word("381A"), Byte("381B"), Byte("3821")>>)

buildFreeLobRequest == Request("freeLob", {Reply}, 0, 0, 1, <<Word("3818")>>)

buildSendResultsSetRequest(h, second) ==
  Request("sendResultsSet",
          {Reply, "sqlca", "messageID", "firstLevelText"}
            \cup (IF second THEN {"secondLevelText"} ELSE {}), h, 0, 0, <<>>)

-----------------------------------------------------------------------------
(* The connection's requests.                                              *)
clientInfoAttributes ==
  <<[name |-> "ApplicationName", cp |-> "3838"], [name |-> "ClientUser", cp |-> "3839"],
    [name |-> "ClientAccounting", cp |-> "3837"], [name |-> "ClientHostname", cp |-> "383A"],
    [name |-> "ClientProgramID", cp |-> "383B"]>>

(* info is the set of client values the DSN has.                           *)
appendVRMOptionAttributes(info, limit, v6r1) ==
  LET sent == SelectSeq(clientInfoAttributes, LAMBDA a : a.name \in info)
  IN  IF ~v6r1 THEN [add |-> <<>>, parms |-> 0]
      ELSE [add |-> [i \in DOMAIN sent |-> Name(sent[i].cp)] \o If(limit, <<Word("3834")>>),
            parms |-> Len(sent) + One(limit)]

buildSetServerAttributesRequestVRM(goal, rounding, v6r1, info, limit, schema) ==
  LET opt == appendVRMOptionAttributes(info, limit, v6r1)
  IN  Request("setAttributes", {Reply, "serverAttributes"}, 0, 0,
              14 + One(goal) + One(rounding) + One(v6r1) + opt.parms + 6 + One(schema),
              <<Short("3801"), Name("3803"), Short("380C"), Short("380E"), Byte("3824"),
                Byte("3821"), Short("3812"), Short("3807"), Short("3808"), Short("3809"),
                Short("380A"), Short("380B"), LLCP("3827", 6), Word("3822")>>
                \o If(goal, <<Byte("3833")>>) \o If(rounding, <<Short("3835")>>)
                \o If(v6r1, <<Byte("383F")>>) \o opt.add
                \o <<Byte("3805"), Short("3806"), Word("3825"),
                     Name("383C"), Name("383D"), Name("383E")>>
                \o If(schema, <<Name("380F")>>))

buildAddLibraryListRequest ==
  Request("addLibraryList", {Reply}, 0, 0, 1, <<LLCP("3813", DataLen)>>)

buildCreatePackageRequest ==
  Request("createPackage", {Reply}, 0, 0, 2, <<Name("3804"), Name("3801")>>)

buildReturnPackageRequest ==
  Request("returnPackage", {Reply, "packageInfo"}, 0, 0, 3,
          <<Name("3804"), Name("3801"), Word("3815")>>)

buildSetClientInfoRequest ==
  Request("setAttributes", {Reply, "serverAttributes"}, 0, 0, 1, <<Name("3838")>>)

buildAutoCommitRequestLevel ==
  Request("setAttributes", {Reply, "serverAttributes"}, 0, 0, 2,
          <<Byte("3824"), Short("380E")>>)

buildCancelRequest == Request("cancel", {Reply}, 0, 0, 1, <<Name("3826")>>)
buildCommitRequest == Request("commit", {Reply}, 0, 0, 0, <<>>)
buildRollbackRequest == Request("rollback", {Reply}, 0, 0, 0, <<>>)
buildTestConnectionRequest == Request("testConnection", {Reply}, 0, 0, 0, <<>>)
buildEndJobRequest == Request("endJob", {}, 0, 0, 0, <<>>)
=============================================================================
