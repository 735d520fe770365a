------------------------------- MODULE Options -------------------------------
(***************************************************************************)
(* The options of a data source name: ParseDSN and the option parsers it   *)
(* calls, Config.Validate, and the values the connection derives from the  *)
(* accepted configuration.                                                 *)
(*                                                                         *)
(* A query is a set of entries [key, exact, value]: the option, whether it *)
(* is written exactly as the driver names it or in another spelling of     *)
(* JTOpen, and its value.  A value is [form, n]: a number, a name the      *)
(* option knows (with its number n), a text of n bytes, or blank.          *)
(***************************************************************************)
EXTENDS Integers, FiniteSetsExt

maxLOBThreshold == 15728640
maxSocketBufferSize == 16777216
maxQueryStorageLimit == 2147352578
clientInfoMaxBytes == 255
PortNumbers == 0..65535

Blank == [form |-> "blank", n |-> 0]
NotGiven == [form |-> "absent", n |-> 0]

(* validBlockSize.                                                         *)
BlockSizes == {0, 8, 16, 32, 64, 128, 256, 512} \cup 513..16000

(* validBidiStringType.                                                    *)
BidiStringTypes == {-1, 0} \cup 4..11

(* The options whose value is a name or its number (parseEnumeratedOption),*)
(* with the numbers allowed.  The first three sets of keys are found with  *)
(* optionValue in any spelling, the others only as they are named.         *)
LooseEnums == [queryOptimizeGoal |-> 0..2, decfloatRoundingMode |-> 0..6,
               bidiStringType |-> BidiStringTypes]
(* Mutant: the parser takes a scale above the largest precision.           *)
LooseNumbers_Wide == [decimalMaxPrecision |-> {31, 63}, decimalMaxScale |-> 0..64,
                      minimumDivideScale |-> 0..9, lobThreshold |-> 0..maxLOBThreshold,
                      blockSize |-> BlockSizes, receiveBufferSize |-> 0..maxSocketBufferSize,
                      sendBufferSize |-> 0..maxSocketBufferSize, socketTimeout |-> Nat,
                      packageCCSID |-> Nat \ {0}, queryStorageLimit |-> Int]
LooseNumbers == [decimalMaxPrecision |-> {31, 63}, decimalMaxScale |-> 0..63,
                 minimumDivideScale |-> 0..9, lobThreshold |-> 0..maxLOBThreshold,
                 blockSize |-> BlockSizes, receiveBufferSize |-> 0..maxSocketBufferSize,
                 sendBufferSize |-> 0..maxSocketBufferSize, socketTimeout |-> Nat,
                 packageCCSID |-> Nat \ {0}, queryStorageLimit |-> Int]
LooseNames == {"errors", "trueAutocommit", "useBlockUpdate", "returnGeneratedKeys", "keepAlive",
               "tcpNoDelay", "extendedDynamic", "packageCriteria", "packageAdd", "packageError",
               "packageCache", "packageClear", "queryTimeoutMechanism"}
ClientInfoKeys == {"applicationName", "clientUser", "clientAccounting", "clientHostname",
                   "clientProgramID"}
StrictEnums == [dateFormat |-> 0..7, dateSeparator |-> 0..4, timeFormat |-> 0..4,
                timeSeparator |-> 0..3, decimalSeparator |-> 0..1, commitmentControl |-> 0..4,
                commitControl |-> 0..4]
StrictNumbers == {"port", "portNumber", "urlPort", "statementCacheSize", "connectTimeout",
                  "timeout"}
StrictNames == {"tls", "secure", "naming", "scrollableCursors", "timestampPrecision",
                "bidiImplicitReordering", "bidiNumericOrdering", "holdCursors"}

Loose == DOMAIN LooseEnums \cup DOMAIN LooseNumbers \cup LooseNames \cup ClientInfoKeys
Keys == Loose \cup DOMAIN StrictEnums \cup StrictNumbers \cup StrictNames

(* RawQuery.Get with the blanks trimmed: an empty value counts as absent.  *)
Get(query, key) ==
    LET found == {e \in query : e.key = key /\ e.exact /\ e.value # Blank}
    IN  IF found = {} THEN NotGiven ELSE (CHOOSE e \in found : TRUE).value

(* optionValue: the option as it is named, or else any spelling of it.     *)
(* Mutant: an option that is present and empty hides its other spelling.   *)
optionValue_Hidden(query, key) ==
    LET found == {e \in query : e.key = key /\ e.exact}
        other == {e \in query : e.key = key /\ ~e.exact /\ e.value # Blank}
    IN  IF found # {} THEN Get(query, key)
        ELSE IF other = {} THEN NotGiven ELSE (CHOOSE e \in other : TRUE).value
optionValue(query, key) ==
    LET other == {e \in query : e.key = key /\ ~e.exact /\ e.value # Blank}
    IN  IF Get(query, key) # NotGiven THEN Get(query, key)
        ELSE IF other = {} THEN NotGiven ELSE (CHOOSE e \in other : TRUE).value

(* What ParseDSN finds for a key, and whether the parser of the option     *)
(* takes it.                                                               *)
Given(query, key) == IF key \in Loose THEN optionValue(query, key) ELSE Get(query, key)

(* Mutant: a client information value may be one byte longer.              *)
Taken_Longer(key, value) ==
    \/ key \in DOMAIN LooseEnums /\ value.form \in {"number", "name"} /\ value.n \in LooseEnums[key]
    \/ key \in DOMAIN StrictEnums /\ value.form \in {"number", "name"} /\ value.n \in StrictEnums[key]
    \/ key = "packageCCSID" /\ value.form = "name"
    \/ key \in DOMAIN LooseNumbers /\ value.form = "number" /\ value.n \in LooseNumbers[key]
    \/ key \in ClientInfoKeys /\ value.n <= clientInfoMaxBytes + 1
    \/ key \in StrictNumbers /\ value.form = "number"
    \/ key \in LooseNames \cup StrictNames /\ value.form = "name"
Taken(key, value) ==
    \/ key \in DOMAIN LooseEnums /\ value.form \in {"number", "name"} /\ value.n \in LooseEnums[key]
    \/ key \in DOMAIN StrictEnums /\ value.form \in {"number", "name"} /\ value.n \in StrictEnums[key]
    \/ key = "packageCCSID" /\ value.form = "name"
    \/ key \in DOMAIN LooseNumbers /\ value.form = "number" /\ value.n \in LooseNumbers[key]
    \/ key \in ClientInfoKeys /\ value.n <= clientInfoMaxBytes
    \/ key \in StrictNumbers /\ value.form = "number"
    \/ key \in LooseNames \cup StrictNames /\ value.form = "name"

(* The defaults of ParseDSN, 0 for what it leaves out.                     *)
Default(key) ==
    CASE key \in {"dateFormat", "bidiStringType"} -> 5
      [] key = "commitmentControl" -> 1
      [] key \in {"decimalMaxPrecision", "decimalMaxScale"} -> 31
      [] key = "lobThreshold" -> 1048576
      [] key = "blockSize" -> 256
      [] key = "queryStorageLimit" -> -1
      [] key = "packageCCSID" -> 13488
      [] OTHER -> 0

(* The keys a setting is read from.  The last one that is given wins in    *)
(* "override", the first one in "first"; the keys of "first" after it are  *)
(* not even looked at.                                                     *)
Sources(key) ==
    CASE key = "commitmentControl" -> [rule |-> "override", keys |-> <<"commitmentControl", "commitControl">>]
      [] key = "tls" -> [rule |-> "override", keys |-> <<"tls", "secure">>]
      [] key = "port" -> [rule |-> "first", keys |-> <<"port", "portNumber", "urlPort">>]
      [] key = "connectTimeout" -> [rule |-> "first", keys |-> <<"connectTimeout", "timeout">>]
      [] OTHER -> [rule |-> "first", keys |-> <<key>>]

Settings == Keys \ {"commitControl", "secure", "portNumber", "urlPort", "timeout"}

(* The setting of a configuration, given the query.  packageCCSID=system   *)
(* sets a flag of its own and leaves the number; an empty bidiStringType   *)
(* is "not set", which is not the default.                                 *)
Setting(query, key) ==
    LET keys == Sources(key).keys
        given == {i \in DOMAIN keys : Given(query, keys[i]) # NotGiven}
        used == IF Sources(key).rule = "override" THEN given ELSE {Min(given)}
        empty == \E e \in query : e.key = key /\ e.exact
    IN  IF given = {}
        THEN [err |-> FALSE,
              n |-> IF key = "bidiStringType" /\ empty THEN -1 ELSE Default(key)]
        ELSE [err |-> \E i \in used : ~Taken(keys[i], Given(query, keys[i])),
              n |-> IF key = "packageCCSID" /\ Given(query, key).form = "name" THEN Default(key)
                    ELSE Given(query, keys[Max(used)]).n]

(* Names of package options are checked when they are parsed (Taken).      *)
validatePackageConfig(cfg) == cfg.packageCCSID >= 0

(* Config.Validate, after port and statement cache.                        *)
ValidOptions(cfg) ==
    /\ cfg.bidiStringType \in BidiStringTypes
    /\ \A key \in DOMAIN StrictEnums \ {"commitControl"} : cfg[key] \in StrictEnums[key]
    /\ cfg.queryOptimizeGoal \in 0..2
    /\ cfg.decimalMaxPrecision \in {0, 31, 63}
    /\ cfg.decimalMaxScale \in 0..63
    /\ cfg.minimumDivideScale \in 0..9
    /\ cfg.lobThreshold \in 0..maxLOBThreshold
    /\ cfg.blockSize \in BlockSizes
    /\ cfg.decfloatRoundingMode \in 0..6
    /\ cfg.receiveBufferSize \in 0..maxSocketBufferSize
    /\ cfg.sendBufferSize \in 0..maxSocketBufferSize
    /\ cfg.socketTimeout >= 0
    /\ validatePackageConfig(cfg)
Validate(cfg) ==
    /\ cfg.port \in PortNumbers
    /\ cfg.statementCacheSize >= 0
    /\ ValidOptions(cfg)

(* ParseDSN.                                                               *)
ParseDSN(query) ==
    LET cfg == [key \in Settings |-> Setting(query, key).n]
    IN  [err |-> \/ \E key \in Settings : Setting(query, key).err
                 \/ ~Validate(cfg),
         cfg |-> [cfg EXCEPT !.connectTimeout = IF @ = 0 THEN 15 ELSE @]]

-----------------------------------------------------------------------------
(* What the connection makes of a configuration.                           *)

(* decimalPrecisionIndicators.                                             *)
decimalPrecisionIndicators(cfg) ==
    [precision |-> IF cfg.decimalMaxPrecision = 63 \/ cfg.decimalMaxScale > 31 THEN 63 ELSE 31,
     scale |-> cfg.decimalMaxScale]

(* fetchBufferBytes in KB, lobThresholdValue, clampQueryStorageLimit.      *)
fetchBuffer(cfg) == IF cfg.blockSize <= 0 THEN 256 ELSE cfg.blockSize
lobThresholdValue(cfg) == Max({0, Min({cfg.lobThreshold, maxLOBThreshold})})
clampQueryStorageLimit(limit) == Max({-1, Min({limit, maxQueryStorageLimit})})

-----------------------------------------------------------------------------
(* The two lists of limits agree: what the parsers of the options accept,  *)
(* Validate accepts too, but for the port and the size of the cache, which *)
(* only Validate checks (dsn.go:296, config.go:147).                       *)
RangesAgree(query) ==
    LET parsed == \A key \in Settings : ~Setting(query, key).err
        cfg == [key \in Settings |-> Setting(query, key).n]
    IN  /\ parsed => ValidOptions(cfg)
        /\ ParseDSN(query).err <=> ~parsed \/ cfg.port \notin PortNumbers \/ cfg.statementCacheSize < 0

(* Whatever data source name is accepted, connecting cannot fail on what   *)
(* it says: the decimal scale sent is not above the precision sent, the    *)
(* fetch buffer and the limits are in the server's range, and client       *)
(* information fits (dbconn.go:393, config.go:223, clientinfo.go:141).     *)
AcceptedIsSendable(query) ==
    LET r == ParseDSN(query)
        dec == decimalPrecisionIndicators(r.cfg)
    IN  ~r.err =>
          /\ dec.scale <= dec.precision
          /\ fetchBuffer(r.cfg) \in BlockSizes \ {0}
          /\ lobThresholdValue(r.cfg) \in 0..maxLOBThreshold
          /\ clampQueryStorageLimit(r.cfg.queryStorageLimit) \in -1..maxQueryStorageLimit
          /\ r.cfg.connectTimeout # 0
          /\ \A key \in ClientInfoKeys : r.cfg[key] <= clientInfoMaxBytes

(* An option in a spelling of JTOpen means the same as under its own name, *)
(* also next to an empty one under its own name; for the options with one  *)
(* name only, another spelling means nothing (dsn.go:271, readme.md:93).   *)
SpellingsAgree(e) ==
    LET own == [e EXCEPT !.exact = TRUE]
        other == [e EXCEPT !.exact = FALSE]
        empty == [own EXCEPT !.value = Blank]
    IN  IF e.key \in Loose
        THEN (e.value # Blank \/ e.key # "bidiStringType") =>
               /\ ParseDSN({other}) = ParseDSN({own})
               /\ ParseDSN({other, empty}) = ParseDSN({own})
        ELSE ParseDSN({other}) = ParseDSN({})
=============================================================================
