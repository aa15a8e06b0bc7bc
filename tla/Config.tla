------------------------------- MODULE Config --------------------------------
(***************************************************************************)
(* From the command line, the environment and a file to a configuration    *)
(* that Run starts with: the flags with their environment variables        *)
(* (cmd/consul-dataplane: init, flags.go, env.go), run with its early      *)
(* exits, the merging of layers (config.go), and the validation and        *)
(* credentials of pkg/consuldp.  Options that are treated alike are        *)
(* represented by one of them.                                             *)
(***************************************************************************)
EXTENDS Naturals, Sequences

CONSTANT
  MaxGiven   \* how many settings a user gives (a bound of the model)

ASSUME MaxGivenAssumption == MaxGiven \in Nat

VARIABLES
  given,     \* what the user gives: nil or a value per layer and option
  argument,  \* the other arguments on the command line
  pc,        \* where run is, or how it ended
  flags,     \* flagOpts.dataplaneConfig: nil, or a value, per option
  config,    \* consuldp.Config
  token,     \* the bearer token of the credentials
  probe      \* the port that the health check asked

configVars == <<given, argument, pc, flags, config, token, probe>>

Nil == "nil"

(* One option of each kind that the code treats differently, and what the  *)
(* user can give for it; "x" is a value that cannot be parsed.             *)
Values ==
  [ mode |-> {"dns-proxy", "Sidecar"}, adminPort |-> {"19001", "0", "x"},
    level |-> {"debug", "verbose"}, meta |-> {"k", "x"},
    proxyID |-> {"id", ""}, proxyIDPath |-> {"path", "missing"}, proxyNs |-> {"ns1", ""},
    serviceID |-> {"service"}, serviceIDPath |-> {"path", "missing"}, serviceNs |-> {"ns2"},
    addresses |-> {""}, credType |-> {"static", "login", "other"}, bearer |-> {"bearer"},
    bearerPath |-> {"path", "missing", "empty"}, promTLS |-> {"all", "some"}, caCerts |-> {"missing"} ]

Options == DOMAIN Values
Connection == {"addresses", "credType", "bearer", "bearerPath", "promTLS", "caCerts"}
ProxyFlags == {"proxyID", "proxyIDPath", "proxyNs"}

(* buildDefaultConsulDPFlags. *)
DefaultFlags ==
  [o \in Options |-> CASE o = "mode" -> "sidecar" [] o = "adminPort" -> "19000"
                       [] o = "level" -> "info" [] OTHER -> Nil]

(* Other arguments: none, a configuration file that is missing, is no JSON *)
(* or has another suffix, -version and -check-proxy-health.                *)
Arguments == {"none", "noFile", "badJSON", "yaml", "version", "health"}

Layers == {"file", "env", "flag"}

(* The settings about the connection are given as flags, to keep the model *)
(* small; the others in any layer.  A map in a file always parses.         *)
Settings ==
  UNION {{<<l, o, v>> : l \in IF o \in Connection THEN {"flag"} ELSE Layers, v \in Values[o]} : o \in Options}
    \ {<<"file", "meta", "x">>}

(* A setting that is given twice counts once.  The addresses of the         *)
(* servers are always given.                                                *)
Layer(l, settings) ==
  [o \in Options |->
     LET here == {i \in DOMAIN settings : settings[i][1] = l /\ settings[i][2] = o}
     IN CASE here # {} -> settings[CHOOSE i \in here : TRUE][3]
          [] here = {} /\ l = "flag" /\ o = "addresses" -> "servers"
          [] OTHER -> Nil]

ConfigInit ==
  /\ \E n \in 0..MaxGiven, a \in Arguments : \E settings \in [1..n -> Settings] :
       /\ a # "none" => n < MaxGiven
       /\ a \in {"noFile", "badJSON", "yaml"} => \A i \in DOMAIN settings : settings[i][1] # "file"
       /\ given = [l \in Layers |-> Layer(l, settings)] /\ argument = a
  /\ pc = "init"
  /\ flags = [o \in Options |-> Nil] /\ config = [o \in Options |-> ""]
  /\ token = "" /\ probe = ""

Step(from, to) == pc = from /\ pc' = to /\ UNCHANGED <<given, argument>>

-----------------------------------------------------------------------------
(* The values of a later layer override those of an earlier one where they *)
(* are not nil: Set of a flag, and mergeConfigs.                           *)
Override(lower, upper) == [o \in Options |-> IF upper[o] = Nil THEN lower[o] ELSE upper[o]]

(* Set of a number's flag, and of a map's that needs key=value. *)
BadNumber(layer) == layer.adminPort = "x"
BadPair(layer) == layer.meta = "x"
Unparsable(layer) == BadNumber(layer) \/ BadPair(layer)

(* An environment variable that is empty is none. *)
AsValue(v) == IF v = "" THEN Nil ELSE v
FromEnv == [o \in Options |-> AsValue(given.env[o])]

(* init: every flag starts with its environment variable. *)
ParseEnv ==
  \/ /\ Step("init", "parse") /\ ~Unparsable(given.env)
     /\ flags' = FromEnv /\ UNCHANGED <<config, token, probe>>
  \/ Step("init", "fatal") /\ Unparsable(given.env) /\ UNCHANGED <<flags, config, token, probe>>

(* run: flags.Parse. *)
Parse ==
  \/ /\ Step("parse", "parsed") /\ ~Unparsable(given.flag)
     /\ flags' = Override(flags, given.flag) /\ UNCHANGED <<config, token, probe>>
  \/ Step("parse", "error") /\ Unparsable(given.flag) /\ UNCHANGED <<flags, config, token, probe>>

PrintVersion ==
  Step("parsed", "done") /\ argument = "version" /\ UNCHANGED <<flags, config, token, probe>>

(* Mutant: the default port, whatever the flags say. *)
MutantRunProxyReadyCmd ==
  /\ argument = "health"
  /\ Step("parsed", "healthy") \/ Step("parsed", "unhealthy")
  /\ probe' = DefaultFlags.adminPort
  /\ UNCHANGED <<flags, config, token>>

(* runProxyReadyCmd: the port of the flag or the environment, or the       *)
(* default; the configuration file is not read.  doHealthCheck exits with  *)
(* 0 when Envoy answers in time with a status from 200 to 399, or else 1.  *)
RunProxyReadyCmd ==
  /\ argument = "health"
  /\ Step("parsed", "healthy") \/ Step("parsed", "unhealthy")
  /\ probe' = Override(DefaultFlags, flags).adminPort
  /\ UNCHANGED <<flags, config, token>>

(* readServiceIDFromFile and readProxyIDFromFile: id is nil, path is not.  *)
FromFile(id, path) == flags[id] = Nil /\ flags[path] # Nil
Unreadable(id, path) == FromFile(id, path) /\ flags[path] = "missing"

ReadIDsFromFiles ==
  /\ pc = "parsed" /\ argument \notin {"version", "health"}
  /\ \/ /\ Step("parsed", "read")
        /\ ~Unreadable("serviceID", "serviceIDPath") /\ ~Unreadable("proxyID", "proxyIDPath")
        /\ flags' = [flags EXCEPT !.serviceID = IF FromFile("serviceID", "serviceIDPath") THEN "serviceFile" ELSE @,
                                  !.proxyID = IF FromFile("proxyID", "proxyIDPath") THEN "idFile" ELSE @]
     \/ /\ Step("parsed", "fatal")
        /\ Unreadable("serviceID", "serviceIDPath") \/ Unreadable("proxyID", "proxyIDPath")
        /\ UNCHANGED flags
  /\ UNCHANGED <<config, token, probe>>

(* validateFlags: of the flags and the environment, not of the file.       *)
ValidateFlags ==
  /\ \/ Step("read", "valid") /\ flags.level # "verbose" /\ argument # "yaml"
     \/ Step("read", "fatal") /\ (flags.level = "verbose" \/ argument = "yaml")
  /\ UNCHANGED <<flags, config, token, probe>>

(* Mutant: the file is merged last. *)
MutantMerged == Override(Override(DefaultFlags, flags), given.file)

(* buildDataplaneConfig: the defaults, then the file, then the flags.      *)
Merged == Override(Override(DefaultFlags, given.file), flags)

Val(v) == IF v = Nil THEN "" ELSE v

(* Mutant: the choice is made for each setting on its own. *)
MutantIdentity(m) ==
  [id |-> Val(IF m.proxyID = Nil THEN m.serviceID ELSE m.proxyID),
   ns |-> Val(IF m.proxyNs = Nil THEN m.serviceNs ELSE m.proxyNs)]

(* constructRuntimeConfig: the proxy's flags, when there is any, or else   *)
(* the deprecated ones of the service.                                     *)
Identity(m) ==
  IF \E o \in ProxyFlags : m[o] # Nil THEN [id |-> Val(m.proxyID), ns |-> Val(m.proxyNs)]
                                      ELSE [id |-> Val(m.serviceID), ns |-> Val(m.serviceNs)]

(* buildConfigFromFile. *)
FileFails == argument \in {"noFile", "badJSON"} \/ BadNumber(given.file)

BuildDataplaneConfig ==
  LET m == Merged
  IN /\ \/ /\ Step("valid", "built") /\ ~FileFails
           /\ config' = [o \in Options |-> CASE o = "proxyID" -> Identity(m).id
                                             [] o = "proxyNs" -> Identity(m).ns
                                             [] OTHER -> Val(m[o])]
        \/ Step("valid", "error") /\ FileFails /\ UNCHANGED config
     /\ UNCHANGED <<flags, token, probe>>

(* Mutant: a login's bearer token is not asked for. *)
MutantInvalid ==
  \/ config.addresses = ""
  \/ config.mode = "sidecar" /\ (config.proxyID = "" \/ config.adminPort = "0")
  \/ config.mode = "dns-proxy" /\ config.proxyNs # ""
  \/ config.promTLS = "some"

(* validateConfig.  An unknown mode is not one of the two that it tests    *)
(* for.                                                                    *)
Invalid ==
  \/ config.addresses = ""
  \/ config.mode = "sidecar" /\ (config.proxyID = "" \/ config.adminPort = "0")
  \/ config.mode = "dns-proxy" /\ config.proxyNs # ""
  \/ config.credType = "login" /\ config.bearer = "" /\ config.bearerPath = ""
  \/ config.promTLS = "some"

NewConsulDP ==
  /\ \/ Step("built", "new") /\ ~Invalid
     \/ Step("built", "error") /\ Invalid
  /\ UNCHANGED <<flags, config, token, probe>>

(* TLSConfig.Load and CredentialsConfig.ToDiscoveryCredentials, the first  *)
(* that Run calls.                                                         *)
BearerFromFile == config.bearer = "" /\ config.bearerPath # ""
LoadFails ==
  \/ config.caCerts = "missing"
  \/ config.credType = "other"
  \/ config.credType = "login" /\ BearerFromFile /\ config.bearerPath = "missing"

LoadCredentials ==
  /\ \/ /\ Step("new", "connect") /\ ~LoadFails
        /\ token' = CASE config.credType # "login" -> ""
                      [] config.credType = "login" /\ BearerFromFile ->
                           IF config.bearerPath = "empty" THEN "" ELSE "bearerFile"
                      [] OTHER -> config.bearer
     \/ Step("new", "error") /\ LoadFails /\ UNCHANGED token
  /\ UNCHANGED <<flags, config, probe>>

ConfigNext ==
  \/ ParseEnv \/ Parse \/ PrintVersion \/ RunProxyReadyCmd \/ ReadIDsFromFiles
  \/ ValidateFlags \/ BuildDataplaneConfig \/ NewConsulDP \/ LoadCredentials

ConfigSpec == ConfigInit /\ [][ConfigNext]_configVars

-----------------------------------------------------------------------------
ConfigTypeOK ==
  /\ given \in [Layers -> [Options -> STRING]] /\ argument \in Arguments
  /\ pc \in {"init", "parse", "parsed", "read", "valid", "built", "new",
             "connect", "done", "healthy", "unhealthy", "error", "fatal"}
  /\ flags \in [Options -> STRING] /\ config \in [Options -> STRING]
  /\ token \in STRING /\ probe \in STRING

Built == pc \in {"built", "new", "connect"}

(* What the user asked for: a flag (even an empty one), or else a variable *)
(* that is not empty, or else the file, or else the default.               *)
Wins(o) ==
  CASE given.flag[o] # Nil -> given.flag[o]
    [] given.flag[o] = Nil /\ given.env[o] \notin {Nil, ""} -> given.env[o]
    [] OTHER -> Val(IF given.file[o] # Nil THEN given.file[o] ELSE DefaultFlags[o])

(* The configuration holds for every option the value of the layer that    *)
(* has precedence (flags over environment over file over defaults), through *)
(* the two merges, the pointers that are nil and the empty strings, for    *)
(* every option but those from which the proxy's identity is put together. *)
Precedence ==
  Built => \A o \in Options \ {"proxyID", "proxyNs", "serviceID"} : config[o] = Wins(o)

(* The ID and the namespace are of one section: constructRuntimeConfig     *)
(* never joins a proxy's ID with the namespace of the deprecated service   *)
(* flags, or the other way round, wherever the two come from.  (So a file  *)
(* with any proxy setting hides the service flags of the command line.)    *)
OneIdentity ==
  ~ \/ config.proxyID \in {"id", "idFile"} /\ config.proxyNs = "ns2"
    \/ config.proxyID \in {"service", "serviceFile"} /\ config.proxyNs = "ns1"

(* Whatever the layers say, what reaches the connection to the servers is  *)
(* usable: a sidecar knows its ID and Envoy's admin port, a DNS proxy has  *)
(* no namespace, and a login presents a token (that validateConfig asked   *)
(* for) unless the token's file is empty.                                  *)
ReadyToConnect ==
  pc = "connect" =>
    /\ config.mode = "sidecar" => config.proxyID # "" /\ config.adminPort # "0"
    /\ config.mode = "dns-proxy" => config.proxyNs = ""
    /\ config.credType = "login" => token # "" \/ config.bearerPath = "empty"

(* -check-proxy-health, started like the dataplane that it checks, asks    *)
(* the admin port which that dataplane gives to Envoy, unless the port     *)
(* comes from the configuration file, which the check does not read.       *)
ProbesEnvoy ==
  probe # "" => \/ probe = Wins("adminPort")
                \/ given.file.adminPort # Nil /\ given.env.adminPort = Nil /\ given.flag.adminPort = Nil

=============================================================================
