---------------------------- MODULE ConfigProofs -----------------------------
(***************************************************************************)
(* Theorems about the two command lines: the configuration, for any number *)
(* of settings that a user gives, and Envoy's arguments, for any number of *)
(* extra ones.                                                             *)
(***************************************************************************)
EXTENDS Config, EnvoyArgs, SequenceTheorems, FiniteSetTheorems, TLAPS

-----------------------------------------------------------------------------
(* The configuration.                                                       *)

(* Where the proxy's identity is put together from, and what can be there; *)
(* and the port, which is never empty.                                     *)
GivenValues ==
  \A l \in Layers :
       /\ given[l]["adminPort"] # ""
       /\ given[l]["proxyNs"] \in {Nil, "", "ns1"} /\ given[l]["serviceNs"] \in {Nil, "ns2"}
       /\ given[l]["proxyID"] \in {Nil, "", "id"} /\ given[l]["serviceID"] \in {Nil, "service"}

(* The options that are read from a file. *)
FromFiles == {"serviceID", "proxyID"}

(* The flags hold the environment, then the environment overridden by the  *)
(* command line, then that but for the IDs that are read from files.       *)
FlagsInv ==
  /\ pc = "parse" => flags = FromEnv
  /\ pc = "parsed" => flags = Override(FromEnv, given.flag)
  /\ pc \in {"read", "valid", "built", "new", "connect"} =>
       /\ \A o \in Options \ FromFiles : flags[o] = Override(FromEnv, given.flag)[o]
       /\ flags["serviceID"] \in {Nil, "service", "serviceFile"}
       /\ flags["proxyID"] \in {Nil, "", "id", "idFile"}

ConfigInv ==
  /\ GivenValues /\ FlagsInv /\ Precedence /\ OneIdentity /\ ReadyToConnect /\ ProbesEnvoy
  /\ pc \in {"new", "connect"} => ~Invalid

(* The options that the steps name. *)
LEMMA Named ==
  /\ Options = {"mode", "adminPort", "level", "meta", "proxyID", "proxyIDPath", "proxyNs", "serviceID",
                "serviceIDPath", "serviceNs", "addresses", "credType", "bearer", "bearerPath", "promTLS", "caCerts"}
  /\ Layers = {"file", "env", "flag"}
  BY DEF Options, Values, Layers

(* What a user gives for these options, in any layer. *)
LEMMA GivenByUser ==
  ASSUME NEW n \in Nat, NEW settings \in [1..n -> Settings], NEW l \in Layers
  PROVE  LET g == Layer(l, settings)
         IN /\ g["adminPort"] # ""
            /\ g["proxyNs"] \in {Nil, "", "ns1"} /\ g["serviceNs"] \in {Nil, "ns2"}
            /\ g["proxyID"] \in {Nil, "", "id"} /\ g["serviceID"] \in {Nil, "service"}
<1>1. ASSUME NEW o \in Options, o # "addresses"
      PROVE  Layer(l, settings)[o] \in Values[o] \cup {Nil}
  <2> DEFINE here == {i \in DOMAIN settings : settings[i][1] = l /\ settings[i][2] = o}
  <2>1. Layer(l, settings)[o] = CASE here # {} -> settings[CHOOSE i \in here : TRUE][3]
                                  [] here = {} /\ l = "flag" /\ o = "addresses" -> "servers"
                                  [] OTHER -> Nil
    BY DEF Layer
  <2>2. CASE here = {}
    BY <1>1, <2>1, <2>2
  <2>3. CASE here # {}
    <3>1. PICK i \in here : i = CHOOSE j \in here : TRUE
      BY <2>3
    <3>2. settings[i] \in Settings /\ settings[i][2] = o
      BY <3>1
    <3>3. settings[i][3] \in Values[o]
      BY <3>2 DEF Settings
    <3>4. QED
      BY <2>1, <2>3, <3>1, <3>3
  <2>4. QED
    BY <2>2, <2>3
<1>2. {"adminPort", "proxyNs", "serviceNs", "proxyID", "serviceID"} \subseteq Options
  BY Named
<1>3. /\ Values["proxyNs"] = {"ns1", ""} /\ Values["serviceNs"] = {"ns2"}
      /\ Values["proxyID"] = {"id", ""} /\ Values["serviceID"] = {"service"}
      /\ Values["adminPort"] = {"19001", "0", "x"}
  BY DEF Values
<1>4. QED
  BY <1>1, <1>2, <1>3, Zenon DEF Nil

(* The invariant holds of what a user can give. *)
LEMMA ConfigInvInit == ConfigInit => ConfigInv
<1> SUFFICES ASSUME ConfigInit PROVE ConfigInv
  OBVIOUS
<1>0. PICK n \in 0..MaxGiven : \E settings \in [1..n -> Settings] : given = [l \in Layers |-> Layer(l, settings)]
  BY Zenon DEF ConfigInit
<1>1. PICK settings \in [1..n -> Settings] : given = [l \in Layers |-> Layer(l, settings)]
  BY <1>0
<1>n. n \in Nat
  BY MaxGivenAssumption
<1>2. GivenValues
  BY <1>1, <1>n, GivenByUser, Zenon DEF GivenValues
<1>3. config["proxyID"] = "" /\ config["proxyNs"] = ""
  BY Named, Zenon DEF ConfigInit
<1>4. QED
  BY <1>2, <1>3, Zenon DEF ConfigInit, ConfigInv, FlagsInv, Precedence, Built, OneIdentity, ReadyToConnect, ProbesEnvoy

(* The steps of run preserve it. *)
LEMMA ConfigInvNext == ConfigInv /\ [ConfigNext]_configVars => ConfigInv'
<1> SUFFICES ASSUME ConfigInv, [ConfigNext]_configVars
             PROVE  ConfigInv'
  OBVIOUS
<1> USE DEF ConfigInv
<1>1. UNCHANGED given
  BY Zenon DEF ConfigNext, ParseEnv, Parse, PrintVersion, RunProxyReadyCmd, ReadIDsFromFiles, ValidateFlags,
     BuildDataplaneConfig, NewConsulDP, LoadCredentials, Step, configVars
<1>2. GivenValues'
  BY <1>1, Zenon DEF GivenValues
<1>3. CASE UNCHANGED configVars
  <2>1. FlagsInv'
    BY <1>3, Zenon DEF configVars, FlagsInv, FromEnv, Override
  <2>2. Precedence' /\ ProbesEnvoy'
    BY <1>3, Zenon DEF configVars, Precedence, Built, Wins, ProbesEnvoy
  <2>3. QED
    BY <1>2, <1>3, <2>1, <2>2, Zenon DEF configVars, OneIdentity, ReadyToConnect, Invalid
<1>4. CASE ParseEnv
  BY <1>1, <1>2, <1>4, Zenon DEF ParseEnv, Step, FlagsInv, FromEnv, Precedence, Built, OneIdentity, ReadyToConnect,
     ProbesEnvoy, Wins
<1>5. CASE Parse
  BY <1>1, <1>2, <1>5, Zenon DEF Parse, Step, FlagsInv, FromEnv, Precedence, Built, OneIdentity, ReadyToConnect,
     ProbesEnvoy, Wins
<1>6. CASE PrintVersion
  BY <1>1, <1>2, <1>6, Zenon DEF PrintVersion, Step, FlagsInv, Precedence, Built, OneIdentity, ReadyToConnect,
     ProbesEnvoy, Wins
<1>7. CASE RunProxyReadyCmd
  <2>1. /\ pc = "parsed" /\ pc' \in {"healthy", "unhealthy"} /\ probe' = Override(DefaultFlags, flags).adminPort
        /\ UNCHANGED <<flags, config, token>>
    BY <1>7 DEF RunProxyReadyCmd, Step
  <2>2. flags = Override(FromEnv, given.flag)
    BY <2>1 DEF FlagsInv
  <2>3. ProbesEnvoy'
    <3> DEFINE e == given["env"]["adminPort"]
               f == given["flag"]["adminPort"]
    <3>1. flags["adminPort"] = IF f = Nil THEN AsValue(e) ELSE f
      BY <2>2, Named DEF Override, FromEnv
    <3>2. probe' = IF flags["adminPort"] = Nil THEN "19000" ELSE flags["adminPort"]
      BY <2>1, Named DEF Override, DefaultFlags
    <3>3. e # ""
      BY Named, Zenon DEF GivenValues
    <3>4. Wins("adminPort") = CASE f # Nil -> f
                                [] f = Nil /\ e \notin {Nil, ""} -> e
                                [] OTHER -> Val(IF given["file"]["adminPort"] # Nil THEN given["file"]["adminPort"]
                                                ELSE "19000")
      BY Named DEF Wins, DefaultFlags
    <3>5. \/ probe' = Wins("adminPort")
          \/ given["file"]["adminPort"] # Nil /\ e = Nil /\ f = Nil
      BY <3>1, <3>2, <3>3, <3>4, Zenon DEF AsValue, Val, Nil
    <3>6. QED
      BY <1>1, <3>5, Zenon DEF ProbesEnvoy, Wins
  <2>4. QED
    BY <1>1, <1>2, <2>1, <2>3, Zenon DEF FlagsInv, Precedence, Built, OneIdentity, ReadyToConnect
<1>8. CASE ReadIDsFromFiles
  <2>1. UNCHANGED <<config, token, probe>> /\ pc = "parsed" /\ pc' \in {"read", "fatal"}
    BY <1>8 DEF ReadIDsFromFiles, Step
  <2>2. flags = Override(FromEnv, given.flag)
    BY <2>1 DEF FlagsInv
  <2>3. FlagsInv'
    <3>1. CASE pc' = "fatal"
      BY <3>1, Zenon DEF FlagsInv
    <3>2. CASE pc' = "read"
      <4>1. flags' = [flags EXCEPT !["serviceID"] = IF FromFile("serviceID", "serviceIDPath") THEN "serviceFile" ELSE @,
                                   !["proxyID"] = IF FromFile("proxyID", "proxyIDPath") THEN "idFile" ELSE @]
        BY <1>8, <3>2, Zenon DEF ReadIDsFromFiles, Step
      <4>2. \A o \in Options \ FromFiles : flags'[o] = flags[o]
        BY <4>1, <2>2 DEF FromFiles, Override
      <4>3. /\ flags["serviceID"] \in {Nil, "service"}
            /\ flags["proxyID"] \in {Nil, "", "id"}
        BY <2>2, Named, Zenon DEF GivenValues, Override, FromEnv, AsValue
      <4>4. /\ flags'["serviceID"] \in {Nil, "service", "serviceFile"}
            /\ flags'["proxyID"] \in {Nil, "", "id", "idFile"}
        BY <2>2, <4>1, <4>3, Named, Zenon DEF Override
      <4>5. \A o \in Options \ FromFiles : Override(FromEnv, given.flag)[o]' = flags[o]
        BY <1>1, <2>2 DEF FromEnv, Override
      <4>6. QED
        BY <3>2, <4>2, <4>4, <4>5, Zenon DEF FlagsInv
    <3>3. QED
      BY <2>1, <3>1, <3>2
  <2>4. QED
    BY <1>1, <1>2, <2>1, <2>3, Zenon DEF Precedence, Built, OneIdentity, ReadyToConnect, ProbesEnvoy, Wins
<1>9. CASE ValidateFlags
  BY <1>1, <1>2, <1>9, ZenonT(30) DEF ValidateFlags, Step, FlagsInv, FromEnv, Precedence, Built, OneIdentity, ReadyToConnect,
     ProbesEnvoy, Wins
<1>10. CASE BuildDataplaneConfig
  <2>1. UNCHANGED <<flags, token, probe>> /\ pc = "valid" /\ pc' \in {"built", "error"}
    BY <1>10 DEF BuildDataplaneConfig, Step
  <2>2. FlagsInv'
    BY <1>1, <2>1, Zenon DEF FlagsInv, FromEnv, Override
  <2>3. CASE UNCHANGED config /\ pc' = "error"
    BY <1>1, <1>2, <2>1, <2>2, <2>3, Zenon DEF Precedence, Built, OneIdentity, ReadyToConnect, ProbesEnvoy, Wins
  <2>4. CASE pc' = "built"
    <3>1. config' = [o \in Options |-> CASE o = "proxyID" -> Identity(Merged).id
                                         [] o = "proxyNs" -> Identity(Merged).ns
                                         [] OTHER -> Val(Merged[o])]
      BY <1>10, <2>4 DEF BuildDataplaneConfig, Step
    <3>2. Precedence'
      <4>1. ASSUME NEW o \in Options \ {"proxyID", "proxyNs", "serviceID"}
            PROVE  config'[o] = Wins(o)
        <5> DEFINE e == given["env"][o]
                   f == given["flag"][o]
                   d == given["file"][o]
        <5>1. config'[o] = Val(Merged[o])
          BY <3>1
        <5>2. flags[o] = IF f = Nil THEN AsValue(e) ELSE f
          BY <2>1, Zenon DEF FlagsInv, FromFiles, Override, FromEnv
        <5>3. Merged[o] = IF flags[o] = Nil THEN (IF d = Nil THEN DefaultFlags[o] ELSE d) ELSE flags[o]
          BY DEF Merged, Override
        <5>4. Wins(o) = CASE f # Nil -> f
                          [] f = Nil /\ e \notin {Nil, ""} -> e
                          [] OTHER -> Val(IF d # Nil THEN d ELSE DefaultFlags[o])
          BY DEF Wins
        <5> HIDE DEF e, f, d
        <5>5. QED
          BY <5>1, <5>2, <5>3, <5>4, Zenon DEF AsValue, Val, Nil
      <4>2. QED
        BY <1>1, <4>1, Zenon DEF Precedence, Wins
    <3>3. OneIdentity'
      <4> DEFINE m == Merged
      <4>1. /\ m["proxyID"] \in {Nil, "", "id", "idFile"} /\ m["serviceID"] \in {Nil, "service", "serviceFile"}
            /\ m["proxyNs"] \in {Nil, "", "ns1"} /\ m["serviceNs"] \in {Nil, "ns2"}
        <5>1. /\ flags["proxyID"] \in {Nil, "", "id", "idFile"} /\ flags["serviceID"] \in {Nil, "service", "serviceFile"}
          BY <2>1, Zenon DEF FlagsInv
        <5>2. /\ flags["proxyNs"] \in {Nil, "", "ns1"} /\ flags["serviceNs"] \in {Nil, "ns2"}
          BY <2>1, Named, ZenonT(30) DEF FlagsInv, FromFiles, Override, FromEnv, AsValue, GivenValues
        <5>3. \A o \in FromFiles \cup {"proxyNs", "serviceNs"} : DefaultFlags[o] = Nil
          BY Named DEF DefaultFlags, FromFiles
        <5>4. QED
          BY <5>1, <5>2, <5>3, Named, Zenon DEF Merged, Override, GivenValues, FromFiles
      <4>2. config'["proxyID"] = Identity(m).id /\ config'["proxyNs"] = Identity(m).ns
        BY <3>1, Named
      <4> HIDE DEF m
      <4>3. \/ config'["proxyID"] = Val(m["proxyID"]) /\ config'["proxyNs"] = Val(m["proxyNs"])
            \/ config'["proxyID"] = Val(m["serviceID"]) /\ config'["proxyNs"] = Val(m["serviceNs"])
        BY <4>2 DEF Identity
      <4>4. QED
        BY <4>1, <4>3, Zenon DEF OneIdentity, Val, Nil
    <3>4. QED
      BY <1>1, <1>2, <2>1, <2>2, <2>4, <3>2, <3>3, Zenon DEF ReadyToConnect, ProbesEnvoy, Wins
  <2>5. QED
    BY <1>10, <2>3, <2>4 DEF BuildDataplaneConfig, Step
<1>11. CASE NewConsulDP
  <2>1. /\ UNCHANGED <<flags, config, token, probe>> /\ pc = "built" /\ pc' \in {"new", "error"}
        /\ pc' = "new" => ~Invalid
    BY <1>11 DEF NewConsulDP, Step
  <2>2. FlagsInv'
    BY <1>1, <2>1, Zenon DEF FlagsInv, FromEnv, Override
  <2>3. Precedence' /\ ProbesEnvoy'
    BY <1>1, <2>1, Zenon DEF Precedence, Built, Wins, ProbesEnvoy
  <2>4. QED
    BY <1>2, <2>1, <2>2, <2>3, Zenon DEF OneIdentity, ReadyToConnect, Invalid
<1>12. CASE LoadCredentials
  <2>1. /\ UNCHANGED <<flags, config, probe>> /\ pc = "new" /\ pc' \in {"connect", "error"} /\ ~Invalid
        /\ pc' = "connect" =>
             /\ ~LoadFails
             /\ token' = CASE config.credType # "login" -> ""
                           [] config.credType = "login" /\ BearerFromFile ->
                                IF config.bearerPath = "empty" THEN "" ELSE "bearerFile"
                           [] OTHER -> config.bearer
    BY <1>12, Zenon DEF LoadCredentials, Step
  <2>2. FlagsInv'
    BY <1>1, <2>1, Zenon DEF FlagsInv, FromEnv, Override
  <2>3. Precedence' /\ ProbesEnvoy'
    BY <1>1, <2>1, Zenon DEF Precedence, Built, Wins, ProbesEnvoy
  <2>4. ReadyToConnect'
    BY <2>1, Zenon DEF ReadyToConnect, Invalid, BearerFromFile
  <2>5. QED
    BY <1>2, <2>1, <2>2, <2>3, <2>4, Zenon DEF OneIdentity, Invalid
<1>13. QED
  BY <1>3, <1>4, <1>5, <1>6, <1>7, <1>8, <1>9, <1>10, <1>11, <1>12 DEF ConfigNext

(* The invariant holds of every start. *)
LEMMA ConfigInvariant == ConfigSpec => []ConfigInv
  BY ConfigInvInit, ConfigInvNext, PTL DEF ConfigSpec

(* buildDataplaneConfig: for every option the layer that has precedence    *)
(* wins, whatever settings are given.                                      *)
THEOREM LayersOverride == ConfigSpec => []Precedence
<1>1. ConfigInv => Precedence
  BY DEF ConfigInv
<1>2. QED
  BY ConfigInvariant, <1>1, PTL

(* constructRuntimeConfig: the proxy's ID and namespace are of one section. *)
THEOREM IdentityOfOneSection == ConfigSpec => []OneIdentity
<1>1. ConfigInv => OneIdentity
  BY DEF ConfigInv
<1>2. QED
  BY ConfigInvariant, <1>1, PTL

(* validateConfig and ToDiscoveryCredentials: what reaches the connection  *)
(* to the servers is usable.                                               *)
THEOREM ConnectsWhenUsable == ConfigSpec => []ReadyToConnect
<1>1. ConfigInv => ReadyToConnect
  BY DEF ConfigInv
<1>2. QED
  BY ConfigInvariant, <1>1, PTL

(* runProxyReadyCmd: the health check asks the port that Envoy is given.   *)
THEOREM HealthCheckAsksEnvoy == ConfigSpec => []ProbesEnvoy
<1>1. ConfigInv => ProbesEnvoy
  BY DEF ConfigInv
<1>2. QED
  BY ConfigInvariant, <1>1, PTL

-----------------------------------------------------------------------------
(* Envoy's command line.                                                    *)

(* The command's own arguments, and the level among them. *)
Own(level) == <<"--config-yaml", "yaml", "--log-format", "format", LevelKey, level, "--disable-hot-restart">>

Level == IF ValueOf(args) = "" THEN InferredLevel ELSE ValueOf(args)

(* The arguments are the user's and one for each setting; the command has  *)
(* its own in front.                                                       *)
ArgsInv ==
  /\ extra \in Seq(UserArgs) /\ logger \in {"warn", "off"}
  /\ built \in {"config", "command", "done"}
  /\ built # "config" => \E order \in [1..3 -> DOMAIN EnvoyArg] : args = AppendEnvoyArgs(extra, order)
  /\ built = "done" => argv = Own(Level) \o WithoutKey(args)

(* A set of natural numbers has a least element. *)
LEMMA Least ==
  ASSUME NEW P \in SUBSET Nat, P # {}
  PROVE  \E i \in P : \A j \in P : i \leq j
<1>1. PICK i \in P : \A j \in P : ~(<<j, i>> \in OpToRel(<, Nat))
  BY NatLessThanWellFounded, WFMin, Zenon
<1>2. \A j \in P : ~(j < i)
  BY <1>1, Zenon DEF OpToRel
<1>3. QED
  BY <1>2

(* A function on 1..n is a sequence. *)
LEMMA OfLength ==
  ASSUME NEW S, NEW n \in Nat, NEW f \in [1..n -> S]
  PROVE  f \in Seq(S) /\ Len(f) = n
OBVIOUS

(* What a concatenation holds. *)
LEMMA Joined ==
  ASSUME NEW S, NEW s \in Seq(S), NEW t \in Seq(S)
  PROVE  /\ s \o t \in Seq(S) /\ Len(s) \in Nat /\ Len(t) \in Nat /\ Len(s \o t) = Len(s) + Len(t)
         /\ DOMAIN (s \o t) = 1..(Len(s) + Len(t))
         /\ \A i \in 1..Len(s) : (s \o t)[i] = s[i]
         /\ \A i \in 1..Len(t) : (s \o t)[Len(s) + i] = t[i]
OBVIOUS

(* KeyAt finds the first key. *)
LEMMA FirstKey ==
  ASSUME NEW S, NEW s \in Seq(S)
  PROVE  IF Places(s, LevelKey) = {} THEN KeyAt(s) = 0
         ELSE KeyAt(s) \in Places(s, LevelKey) /\ \A j \in Places(s, LevelKey) : KeyAt(s) \leq j
<1> DEFINE at == Places(s, LevelKey)
<1>1. at \in SUBSET Nat
  BY DEF Places
<1>2. CASE at = {}
  BY <1>2 DEF KeyAt
<1>3. CASE at # {}
  <2>1. \E i \in at : \A j \in at : i \leq j
    BY <1>1, <1>3, Least
  <2>2. KeyAt(s) = CHOOSE i \in at : \A j \in at : i \leq j
    BY <1>3 DEF KeyAt
  <2> HIDE DEF at
  <2>3. KeyAt(s) \in at /\ \A j \in at : KeyAt(s) \leq j
    BY <2>1, <2>2
  <2>4. QED
    BY <1>3, <2>3 DEF at
<1>4. QED
  BY <1>2, <1>3

(* What envoyProxyConfig appends is neither a key nor empty, so the first  *)
(* key is where the user gave it, and something comes after it.            *)
LEMMA Appended ==
  ASSUME extra \in Seq(UserArgs), NEW order \in [1..3 -> DOMAIN EnvoyArg], args = AppendEnvoyArgs(extra, order)
  PROVE  /\ args \in Seq(UserArgs \cup {FromConfig[a] : a \in DOMAIN EnvoyArg})
         /\ Len(args) = Len(extra) + 3 /\ Len(extra) \in Nat
         /\ \A i \in 1..Len(extra) : args[i] = extra[i]
         /\ Places(args, LevelKey) = Places(extra, LevelKey) /\ KeyAt(args) = KeyAt(extra)
<1> DEFINE V == {FromConfig[a] : a \in DOMAIN EnvoyArg}
           S == UserArgs \cup V
           t == [i \in DOMAIN order |-> FromConfig[order[i]]]
<1>1. extra \in Seq(S)
  BY SeqMonotonic
<1>2. t \in Seq(S) /\ Len(t) = 3 /\ \A i \in 1..3 : t[i] \in V
  <2>1. t \in [1..3 -> V]
    OBVIOUS
  <2>2. V \subseteq S
    OBVIOUS
  <2> HIDE DEF t, V, S
  <2>3. t \in [1..3 -> S]
    BY <2>1, <2>2, Zenon
  <2>4. t \in Seq(S) /\ Len(t) = 3
    <3>1. PICK n \in Nat : n = 3
      OBVIOUS
    <3>2. t \in [1..n -> S]
      BY <2>3, <3>1
    <3>3. t \in Seq(S) /\ Len(t) = n
      BY <3>2, OfLength, Zenon
    <3>4. QED
      BY <3>1, <3>3
  <2>5. QED
    BY <2>1, <2>4
<1>3. args = extra \o t
  BY DEF AppendEnvoyArgs
<1>4. \A v \in V : v # LevelKey
  <2>1. DOMAIN EnvoyArg = {"concurrency", "drainTime", "drainStrategy"}
    BY DEF EnvoyArg
  <2>2. /\ FromConfig["concurrency"] # LevelKey /\ FromConfig["drainTime"] # LevelKey
        /\ FromConfig["drainStrategy"] # LevelKey
    BY DEF FromConfig, LevelKey
  <2>3. QED
    BY <2>1, <2>2
<1> HIDE DEF S, t, V
<1>5. /\ args \in Seq(S) /\ Len(args) = Len(extra) + 3 /\ Len(extra) \in Nat
      /\ \A i \in 1..Len(extra) : args[i] = extra[i]
      /\ \A i \in 1..3 : args[Len(extra) + i] = t[i]
  <2>1. t \in Seq(S) /\ Len(t) = 3
    BY <1>2
  <2>2. /\ extra \o t \in Seq(S) /\ Len(extra) \in Nat /\ Len(extra \o t) = Len(extra) + Len(t)
        /\ \A i \in 1..Len(extra) : (extra \o t)[i] = extra[i]
        /\ \A i \in 1..Len(t) : (extra \o t)[Len(extra) + i] = t[i]
    <3>1. t \in Seq(S)
      BY <2>1
    <3>2. QED
      BY <1>1, <3>1, Joined
  <2>3. QED
    BY <1>3, <2>1, <2>2
<1>6. \A i \in (Len(extra) + 1)..(Len(extra) + 3) : args[i] # LevelKey
  <2>1. \A i \in 1..3 : args[Len(extra) + i] # LevelKey
    BY <1>2, <1>4, <1>5
  <2>2. \A i \in (Len(extra) + 1)..(Len(extra) + 3) : \E j \in 1..3 : i = Len(extra) + j
    <3>1. TAKE i \in (Len(extra) + 1)..(Len(extra) + 3)
    <3>2. i - Len(extra) \in 1..3 /\ i = Len(extra) + (i - Len(extra))
      BY <1>5
    <3>3. QED
      BY <3>2
  <2>3. QED
    BY <2>1, <2>2
<1>7. DOMAIN args = 1..(Len(extra) + 3) /\ DOMAIN extra = 1..Len(extra)
  BY <1>1, <1>5
<1>8. Places(args, LevelKey) = Places(extra, LevelKey)
  BY <1>5, <1>6, <1>7 DEF Places
<1>9. KeyAt(args) = KeyAt(extra)
  BY <1>8 DEF KeyAt
<1>10. QED
  BY <1>5, <1>8, <1>9 DEF S, V

(* removeArgAndGetValue takes two arguments out: those before keep their   *)
(* places, those after move two down.                                      *)
LEMMA Removed ==
  ASSUME NEW S, NEW s \in Seq(S), KeyAt(s) \in Nat \ {0}, KeyAt(s) < Len(s)
  PROVE  /\ WithoutKey(s) \in Seq(S) /\ Len(s) \in Nat /\ Len(WithoutKey(s)) = Len(s) - 2
         /\ \A i \in 1..(KeyAt(s) - 1) : WithoutKey(s)[i] = s[i]
         /\ \A i \in KeyAt(s)..(Len(s) - 2) : WithoutKey(s)[i] = s[i + 2]
<1> DEFINE k == KeyAt(s)
           n == Len(s)
           a == SubSeq(s, 1, k - 1)
           b == SubSeq(s, k + 2, n)
<1>1. n \in Nat /\ k \in Nat \ {0} /\ k < n /\ \A i \in 1..n : s[i] \in S
  OBVIOUS
<1>2. WithoutKey(s) = a \o b
  BY <1>1, Zenon DEF WithoutKey
<1> HIDE DEF k, n
<1>3. a \in Seq(S) /\ Len(a) = k - 1 /\ \A i \in 1..(k - 1) : a[i] = s[i]
  <2>1. 1 \in Int /\ k - 1 \in Int /\ \A i \in 1..(k - 1) : s[i] \in S
    BY <1>1
  <2>2. a \in Seq(S) /\ Len(a) = (IF 1 \leq k - 1 THEN (k - 1) - 1 + 1 ELSE 0) /\ \A i \in 1..((k - 1) - 1 + 1) : a[i] = s[1 + i - 1]
    BY <2>1, SubSeqProperties
  <2>3. QED
    BY <1>1, <2>2
<1>4. b \in Seq(S) /\ Len(b) = n - k - 1 /\ \A i \in 1..(n - k - 1) : b[i] = s[k + 1 + i]
  <2>1. k + 2 \in Int /\ n \in Int /\ \A i \in (k + 2)..n : s[i] \in S
    BY <1>1
  <2>2. b \in Seq(S) /\ Len(b) = (IF k + 2 \leq n THEN n - (k + 2) + 1 ELSE 0) /\ \A i \in 1..(n - (k + 2) + 1) : b[i] = s[(k + 2) + i - 1]
    BY <2>1, SubSeqProperties, SMTT(20)
  <2> HIDE DEF b
  <2>3. Len(b) = n - k - 1 /\ n - (k + 2) + 1 = n - k - 1
    BY <1>1, <2>2
  <2>4. ASSUME NEW i \in 1..(n - k - 1)
        PROVE  b[i] = s[k + 1 + i]
    <3>1. (k + 2) + i - 1 = k + 1 + i
      BY <1>1, <2>4
    <3>2. b[i] = s[(k + 2) + i - 1]
      BY <2>2, <2>3, <2>4
    <3>3. QED
      BY <3>1, <3>2
  <2>5. QED
    BY <2>2, <2>3, <2>4
<1> HIDE DEF a, b
<1>5. /\ a \o b \in Seq(S) /\ Len(a \o b) = (k - 1) + (n - k - 1)
      /\ \A i \in 1..(k - 1) : (a \o b)[i] = a[i]
      /\ \A i \in 1..(n - k - 1) : (a \o b)[(k - 1) + i] = b[i]
  <2>1. a \in Seq(S) /\ b \in Seq(S)
    BY <1>3, <1>4
  <2>2. /\ a \o b \in Seq(S) /\ Len(a \o b) = Len(a) + Len(b)
        /\ \A i \in 1..Len(a) : (a \o b)[i] = a[i]
        /\ \A i \in 1..Len(b) : (a \o b)[Len(a) + i] = b[i]
    BY <2>1, Joined
  <2>3. Len(a) = k - 1 /\ Len(b) = n - k - 1
    BY <1>3, <1>4
  <2>4. QED
    BY <2>2, <2>3, Zenon
<1>6. ASSUME NEW i \in k..(n - 2)
      PROVE  (a \o b)[i] = s[i + 2]
  <2>1. i - (k - 1) \in 1..(n - k - 1) /\ (k - 1) + (i - (k - 1)) = i /\ k + 1 + (i - (k - 1)) = i + 2
    BY <1>1, <1>6
  <2>2. (a \o b)[(k - 1) + (i - (k - 1))] = b[i - (k - 1)]
    BY <1>5, <2>1, Zenon
  <2>3. b[i - (k - 1)] = s[k + 1 + (i - (k - 1))]
    BY <1>4, <2>1, Zenon
  <2>4. QED
    BY <2>1, <2>2, <2>3, Zenon
<1>7. /\ a \o b \in Seq(S) /\ Len(a \o b) = n - 2
      /\ \A i \in 1..(k - 1) : (a \o b)[i] = s[i]
  BY <1>1, <1>3, <1>5
<1>8. QED
  BY <1>1, <1>2, <1>6, <1>7, Zenon DEF k, n

(* Where the level's key, the level and the extra arguments w are in the   *)
(* command.                                                                *)
Fronted(a, level, w) ==
  /\ DOMAIN a = 1..(7 + Len(w)) /\ a[5] = LevelKey /\ a[6] = level
  /\ \A i \in 1..7 : a[i] = LevelKey => i \in {5, 6}
  /\ \A i \in 1..Len(w) : a[7 + i] = w[i]

(* The command has its own arguments in front. *)
LEMMA InFront ==
  ASSUME NEW S, NEW w \in Seq(S), NEW level
  PROVE  Fronted(Own(level) \o w, level, w)
<1> DEFINE R == Range(Own(level))
<1>1. /\ Own(level) \in Seq(R) /\ Len(Own(level)) = 7 /\ Own(level)[5] = LevelKey /\ Own(level)[6] = level
      /\ \A i \in {1, 2, 3, 4, 7} : Own(level)[i] # LevelKey
  BY DEF Own, Range, LevelKey
<1>2. Own(level) \in Seq(S \cup R) /\ w \in Seq(S \cup R)
  BY <1>1, SeqMonotonic
<1>3. /\ Len(w) \in Nat
      /\ DOMAIN (Own(level) \o w) = 1..(Len(Own(level)) + Len(w))
      /\ \A i \in 1..Len(Own(level)) : (Own(level) \o w)[i] = Own(level)[i]
      /\ \A i \in 1..Len(w) : (Own(level) \o w)[Len(Own(level)) + i] = w[i]
  BY <1>2, Joined
<1>4. QED
  BY <1>1, <1>3, SMTT(20) DEF Fronted

(* Initially. *)
LEMMA ArgsInvInit == ArgsInit => ArgsInv
<1> SUFFICES ASSUME ArgsInit PROVE ArgsInv
  OBVIOUS
<1>1. PICK n \in 0..MaxExtra : extra \in [1..n -> UserArgs]
  BY DEF ArgsInit
<1>2. n \in Nat
  BY MaxExtraAssumption
<1>3. extra \in Seq(UserArgs)
  BY <1>1, <1>2, OfLength, Zenon
<1>4. QED
  BY <1>3 DEF ArgsInit, ArgsInv

(* buildCommand never finds the key at the end. *)
LEMMA SomethingFollows ==
  ASSUME ArgsInv, built # "config"
  PROVE  IF KeyAt(args) = 0 THEN Places(args, LevelKey) = {} ELSE KeyAt(args) \in Nat \ {0} /\ KeyAt(args) < Len(args)
<1>1. PICK order \in [1..3 -> DOMAIN EnvoyArg] : args = AppendEnvoyArgs(extra, order)
  BY DEF ArgsInv
<1>2. extra \in Seq(UserArgs)
  BY DEF ArgsInv
<1>3. /\ Len(args) = Len(extra) + 3 /\ Len(extra) \in Nat /\ DOMAIN extra = 1..Len(extra)
      /\ Places(args, LevelKey) = Places(extra, LevelKey) /\ KeyAt(args) = KeyAt(extra)
  <2>1. /\ Len(args) = Len(extra) + 3 /\ Len(extra) \in Nat
        /\ Places(args, LevelKey) = Places(extra, LevelKey) /\ KeyAt(args) = KeyAt(extra)
    BY <1>1, <1>2, Appended, Zenon
  <2>2. DOMAIN extra = 1..Len(extra)
    BY <1>2
  <2>3. QED
    BY <2>1, <2>2
<1>4. IF Places(extra, LevelKey) = {} THEN KeyAt(extra) = 0
      ELSE KeyAt(extra) \in Places(extra, LevelKey)
  BY <1>2, FirstKey, Zenon
<1>5. Places(extra, LevelKey) \subseteq 1..Len(extra)
  BY <1>3 DEF Places
<1>6. QED
  BY <1>3, <1>4, <1>5

(* Every step. *)
LEMMA ArgsInvNext == ArgsInv /\ [ArgsNext]_argsVars => ArgsInv'
<1> SUFFICES ASSUME ArgsInv, [ArgsNext]_argsVars PROVE ArgsInv'
  OBVIOUS
<1>1. CASE EnvoyProxyConfig
  <2>1. PICK order \in Bijection(1..3, DOMAIN EnvoyArg) : args' = AppendEnvoyArgs(extra, order)
    BY <1>1 DEF EnvoyProxyConfig
  <2>2. order \in [1..3 -> DOMAIN EnvoyArg]
    BY DEF Bijection, Injection
  <2>3. \E o \in [1..3 -> DOMAIN EnvoyArg] : args' = AppendEnvoyArgs(extra, o)
    BY <2>1, <2>2, Zenon
  <2>4. QED
    BY <1>1, <2>3, Zenon DEF EnvoyProxyConfig, ArgsInv, AppendEnvoyArgs
<1>2. CASE BuildCommand
  <2>1. built = "command" /\ UNCHANGED <<extra, logger, args>>
    BY <1>2, Zenon DEF BuildCommand
  <2>2. ~(KeyAt(args) # 0 /\ KeyAt(args) = Len(args))
    <3>1. built # "config"
      BY <2>1
    <3>2. IF KeyAt(args) = 0 THEN Places(args, LevelKey) = {} ELSE KeyAt(args) \in Nat \ {0} /\ KeyAt(args) < Len(args)
      BY <3>1, SomethingFollows
    <3>3. CASE KeyAt(args) = 0
      BY <3>3
    <3>4. CASE KeyAt(args) # 0
      <4>1. KeyAt(args) \in Nat \ {0} /\ KeyAt(args) < Len(args)
        BY <3>2, <3>4
      <4>2. QED
        BY <4>1
    <3>5. QED
      BY <3>3, <3>4
  <2>3. built' = "done" /\ argv' = Own(Level) \o WithoutKey(args)
    BY <1>2, <2>2, Zenon DEF BuildCommand, Own, Level
  <2>4. (Own(Level) \o WithoutKey(args))' = Own(Level) \o WithoutKey(args)
    BY <2>1 DEF Own, Level, ValueOf, InferredLevel, WithoutKey, KeyAt, Places
  <2>5. \E o \in [1..3 -> DOMAIN EnvoyArg] : args = AppendEnvoyArgs(extra, o)
    BY <2>1 DEF ArgsInv
  <2>6. QED
    BY <2>1, <2>3, <2>4, <2>5, Zenon DEF ArgsInv, AppendEnvoyArgs
<1>3. CASE UNCHANGED argsVars
  <2>1. UNCHANGED <<extra, logger, built, args, argv>>
    BY <1>3 DEF argsVars
  <2>2. (Own(Level) \o WithoutKey(args))' = Own(Level) \o WithoutKey(args)
    BY <2>1 DEF Own, Level, ValueOf, InferredLevel, WithoutKey, KeyAt, Places
  <2>3. QED
    BY <2>1, <2>2, Zenon DEF ArgsInv, AppendEnvoyArgs
<1>4. QED
  BY <1>1, <1>2, <1>3 DEF ArgsNext

(* The invariant holds of every behaviour. *)
LEMMA ArgsInvariant == ArgsSpec => []ArgsInv
BY ArgsInvInit, ArgsInvNext, PTL DEF ArgsSpec

(* Building the command never reads past the end of the arguments, however *)
(* many the user gives: a key can only be last among the user's, and       *)
(* envoyProxyConfig appends three.                                         *)
THEOREM ArgsStayInBounds == ArgsSpec => []ArgsInBounds
<1>1. ArgsInv => ArgsInBounds
  BY DEF ArgsInv, ArgsInBounds
<1>2. QED
  BY <1>1, ArgsInvariant, PTL

(* When the key at k, the first, is put at 5, the argument after it at 6,  *)
(* and the later ones five up, as many keys are left: every place of a key *)
(* moves to a place of a key, no two to the same.                          *)
LEMMA KeysKept ==
  ASSUME NEW s, NEW a, NEW n \in Nat, NEW k \in Nat \ {0}, k < n, DOMAIN s = 1..n, DOMAIN a = 1..(n + 5),
         s[k] = LevelKey, \A j \in Places(s, LevelKey) : k \leq j,
         a[5] = LevelKey, a[6] = LevelKey <=> s[k + 1] = LevelKey, \A i \in 1..7 : a[i] = LevelKey => i \in {5, 6},
         \A i \in 1..(k - 1) : a[7 + i] = s[i], \A i \in (k + 2)..n : a[i + 5] = s[i]
  PROVE  Occurrences(a, LevelKey) = Occurrences(s, LevelKey)
<1> DEFINE P == Places(s, LevelKey)
           T == Places(a, LevelKey)
           to(i) == IF i = k THEN 5 ELSE IF i = k + 1 THEN 6 ELSE i + 5
           F == [i \in P |-> to(i)]
<1>1. \A i : i \in P <=> i \in 1..n /\ s[i] = LevelKey
  BY DEF Places
<1>2. \A i : i \in T <=> i \in 1..(n + 5) /\ a[i] = LevelKey
  BY DEF Places
<1>3. \A j \in P : k \leq j
  OBVIOUS
<1> HIDE DEF P, T
<1>4. ASSUME NEW i \in P
      PROVE  to(i) \in T
  <2>1. i \in 1..n /\ s[i] = LevelKey /\ k \leq i
    BY <1>1, <1>3, <1>4
  <2>2. CASE i = k
    <3>1. 5 \in 1..(n + 5) /\ a[5] = LevelKey
      OBVIOUS
    <3>2. 5 \in T
      BY <1>2, <3>1, Zenon
    <3>3. QED
      BY <2>2, <3>2
  <2>3. CASE i = k + 1
    <3>1. 6 \in 1..(n + 5) /\ a[6] = LevelKey /\ i # k
      BY <2>1, <2>3
    <3>2. 6 \in T
      BY <1>2, <3>1, Zenon
    <3>3. QED
      BY <2>3, <3>1, <3>2
  <2>4. CASE i # k /\ i # k + 1
    <3>1. i \in (k + 2)..n /\ i + 5 \in 1..(n + 5)
      BY <2>1, <2>4
    <3>2. QED
      BY <1>2, <2>1, <2>4, <3>1, SMTT(20)
  <2>5. QED
    BY <2>2, <2>3, <2>4
<1>5. F \in [P -> T]
  BY <1>4, Zenon
<1>6. ASSUME NEW i \in P, NEW j \in P, F[i] = F[j]
      PROVE  i = j
  <2>1. to(i) = to(j)
    BY <1>6
  <2>2. i \in Nat /\ j \in Nat /\ k \leq i /\ k \leq j
    BY <1>1, <1>3, <1>6
  <2>3. QED
    BY <2>1, <2>2
<1>7. ASSUME NEW t \in T
      PROVE  \E i \in P : F[i] = t
  <2>1. t \in 1..(n + 5) /\ a[t] = LevelKey
    BY <1>2, <1>7
  <2>2. CASE t = 5
    <3>1. k \in P /\ to(k) = t
      BY <1>1, <2>2
    <3>2. QED
      BY <3>1
  <2>3. CASE t = 6
    <3>1. k + 1 \in P /\ to(k + 1) = t
      BY <1>1, <2>1, <2>3
    <3>2. QED
      BY <3>1
  <2>4. CASE t \in 8..(n + 5)
    <3>1. ASSUME t - 7 < k
          PROVE  FALSE
      <4>1. t - 7 \in 1..(k - 1) /\ 7 + (t - 7) = t /\ t - 7 \in 1..n
        BY <2>4, <3>1
      <4>2. s[t - 7] = LevelKey
        BY <2>1, <4>1
      <4>3. t - 7 \in P
        BY <1>1, <4>1, <4>2, Zenon
      <4>4. k \leq t - 7
        BY <1>3, <4>3
      <4>5. QED
        BY <3>1, <4>1, <4>4
    <3>2. t - 5 \in (k + 2)..n /\ (t - 5) + 5 = t /\ t - 5 \in 1..n
      BY <2>4, <3>1
    <3>3. s[t - 5] = LevelKey
      BY <2>1, <3>2
    <3>4. t - 5 \in P
      BY <1>1, <3>2, <3>3, Zenon
    <3>5. to(t - 5) = t
      BY <3>2
    <3>6. QED
      BY <3>4, <3>5
  <2>5. t \in {5, 6} \/ t \in 8..(n + 5)
    BY <2>1
  <2>6. QED
    BY <2>2, <2>3, <2>4, <2>5
<1> HIDE DEF F
<1>8. F \in Bijection(P, T)
  BY <1>5, <1>6, <1>7, Zenon DEF Bijection, Injection, Surjection, IsInjective
<1>9. IsFiniteSet(P)
  <2>1. P \in SUBSET Nat /\ \A i \in P : i \leq n
    BY <1>1
  <2>2. QED
    BY <2>1, FS_BoundedSetOfNaturals, Zenon
<1>10. ExistsBijection(P, T)
  BY <1>8 DEF ExistsBijection
<1>11. Cardinality(T) = Cardinality(P)
  BY <1>9, <1>10, FS_Bijection, Zenon
<1>12. QED
  BY <1>11 DEF Occurrences, P, T

(* However many log levels the user gives, Envoy is given as many, and one *)
(* if none; and the level is the user's first if it has a value, else the  *)
(* logger's.                                                               *)
THEOREM LevelGivenOnce == ArgsSpec => []LogLevelOnce
<1>1. ASSUME ArgsInv, built = "done"
      PROVE  LogLevelOnce
  <2> DEFINE S == UserArgs \cup {FromConfig[x] : x \in DOMAIN EnvoyArg}
             k == KeyAt(args)
             n == Len(args)
             m == Len(extra)
  <2>1. extra \in Seq(UserArgs) /\ logger \in {"warn", "off"} /\ argv = Own(Level) \o WithoutKey(args)
    BY <1>1 DEF ArgsInv
  <2>2. PICK order \in [1..3 -> DOMAIN EnvoyArg] : args = AppendEnvoyArgs(extra, order)
    BY <1>1 DEF ArgsInv
  <2>3. /\ args \in Seq(S) /\ n = m + 3 /\ m \in Nat
        /\ \A i \in 1..m : args[i] = extra[i]
        /\ Places(args, LevelKey) = Places(extra, LevelKey) /\ k = KeyAt(extra)
    BY <2>1, <2>2, Appended, Zenon
  <2>4. IF k = 0 THEN Places(args, LevelKey) = {} ELSE k \in Nat \ {0} /\ k < n
    BY <1>1, SomethingFollows
  <2>5. InferredLevel \in {"warn", "info"}
    BY <2>1 DEF InferredLevel
  <2>6. InferredLevel # LevelKey /\ LevelKey # ""
    BY <2>5 DEF LevelKey
  <2>7. DOMAIN args = 1..n /\ n \in Nat /\ DOMAIN extra = 1..m
    BY <2>1, <2>3
  <2>8. LevelKey \in Range(extra) <=> Places(extra, LevelKey) # {}
    BY DEF Range, Places
  <2> HIDE DEF S
  <2>9. CASE k = 0
    <3>1. Places(args, LevelKey) = {} /\ Places(extra, LevelKey) = {} /\ LevelKey \notin Range(extra)
      BY <2>3, <2>4, <2>8, <2>9
    <3>2. WithoutKey(args) = args /\ Level = InferredLevel
      BY <2>9 DEF WithoutKey, Level, ValueOf
    <3>3. /\ DOMAIN argv = 1..(7 + n) /\ argv[5] = LevelKey /\ argv[6] = InferredLevel
          /\ \A i \in 1..7 : argv[i] = LevelKey => i \in {5, 6}
          /\ \A i \in 1..n : argv[7 + i] = args[i]
      <4>1. argv = Own(InferredLevel) \o args /\ args \in Seq(S)
        BY <2>1, <2>3, <3>2, Zenon
      <4>2. Fronted(argv, InferredLevel, args)
        BY <4>1, InFront, Zenon
      <4>3. QED
        BY <4>2 DEF Fronted
    <3>4. \A i \in 1..n : args[i] # LevelKey
      BY <2>7, <3>1 DEF Places
    <3>5. ASSUME NEW i \in 8..(7 + n)
          PROVE  argv[i] # LevelKey
      <4>1. i - 7 \in 1..n /\ 7 + (i - 7) = i
        BY <2>7, <3>5
      <4>2. argv[7 + (i - 7)] = args[i - 7] /\ args[i - 7] # LevelKey
        BY <3>3, <3>4, <4>1, Zenon
      <4>3. QED
        BY <4>1, <4>2, Zenon
    <3>6. Places(argv, LevelKey) = {5}
      <4>1. ASSUME NEW i \in 1..(7 + n), argv[i] = LevelKey
            PROVE  i = 5
        <5>1. i \in 1..7 \/ i \in 8..(7 + n)
          BY <2>7, <4>1
        <5>2. QED
          BY <2>6, <3>3, <3>5, <4>1, <5>1, Zenon
      <4>2. 5 \in 1..(7 + n)
        BY <2>7
      <4>3. QED
        BY <3>3, <4>1, <4>2 DEF Places
    <3>7. Occurrences(argv, LevelKey) = 1
      BY <3>6, FS_Singleton, Zenon DEF Occurrences
    <3>8. QED
      BY <2>3, <2>9, <3>1, <3>3, <3>7 DEF LogLevelOnce
  <2>10. CASE k # 0
    <3>1. k \in Nat \ {0} /\ k < n
      BY <2>4, <2>10
    <3>2. k \in Places(extra, LevelKey) /\ \A j \in Places(extra, LevelKey) : k \leq j
      <4>1. IF Places(extra, LevelKey) = {} THEN KeyAt(extra) = 0
            ELSE KeyAt(extra) \in Places(extra, LevelKey) /\ \A j \in Places(extra, LevelKey) : KeyAt(extra) \leq j
        BY <2>1, FirstKey, Zenon
      <4>2. QED
        BY <2>3, <2>10, <4>1
    <3>3. k \in 1..m /\ args[k] = LevelKey /\ LevelKey \in Range(extra)
      BY <2>3, <2>7, <2>8, <3>2 DEF Places
    <3>4. /\ WithoutKey(args) \in Seq(S) /\ Len(WithoutKey(args)) = n - 2
          /\ \A i \in 1..(k - 1) : WithoutKey(args)[i] = args[i]
          /\ \A i \in k..(n - 2) : WithoutKey(args)[i] = args[i + 2]
      BY <2>3, <3>1, Removed, Zenon
    <3>5. /\ DOMAIN argv = 1..(7 + Len(WithoutKey(args))) /\ argv[5] = LevelKey /\ argv[6] = Level
          /\ \A i \in 1..7 : argv[i] = LevelKey => i \in {5, 6}
          /\ \A i \in 1..Len(WithoutKey(args)) : argv[7 + i] = WithoutKey(args)[i]
      <4>1. argv = Own(Level) \o WithoutKey(args) /\ WithoutKey(args) \in Seq(S)
        BY <2>1, <3>4, Zenon
      <4>2. Fronted(argv, Level, WithoutKey(args))
        BY <4>1, InFront, Zenon
      <4>3. QED
        BY <4>2 DEF Fronted
    <3>6. ValueOf(args) = args[k + 1]
      BY <2>10 DEF ValueOf
    <3>7. argv[6] = LevelKey <=> args[k + 1] = LevelKey
      BY <2>6, <3>5, <3>6, Zenon DEF Level
    <3>8. DOMAIN argv = 1..(n + 5)
      BY <2>7, <3>4, <3>5
    <3>9. \A i \in 1..(k - 1) : argv[7 + i] = args[i]
      BY <2>7, <3>1, <3>4, <3>5
    <3>10. ASSUME NEW i \in (k + 2)..n
           PROVE  argv[i + 5] = args[i]
      <4>1. i - 2 \in k..(n - 2) /\ i - 2 \in 1..(n - 2) /\ 7 + (i - 2) = i + 5 /\ (i - 2) + 2 = i
        BY <2>7, <3>1, <3>10
      <4>2. argv[7 + (i - 2)] = WithoutKey(args)[i - 2]
        BY <3>4, <3>5, <4>1
      <4>3. WithoutKey(args)[i - 2] = args[(i - 2) + 2]
        BY <3>4, <4>1
      <4>4. QED
        BY <4>1, <4>2, <4>3
    <3>11. Occurrences(argv, LevelKey) = Occurrences(args, LevelKey)
      <4>1. \A j \in Places(args, LevelKey) : k \leq j
        BY <2>3, <3>2
      <4> HIDE DEF k, n
      <4>2. QED
        BY <2>7, <3>1, <3>3, <3>5, <3>7, <3>8, <3>9, <3>10, <4>1, KeysKept, Zenon
    <3>12. Occurrences(argv, LevelKey) = Occurrences(extra, LevelKey)
      BY <2>3, <3>11 DEF Occurrences
    <3>13. k \in 1..(m - 1) => argv[6] = IF extra[k + 1] = "" THEN InferredLevel ELSE extra[k + 1]
      <4>1. SUFFICES ASSUME k \in 1..(m - 1) PROVE args[k + 1] = extra[k + 1]
        BY <3>5, <3>6, Zenon DEF Level
      <4>2. k + 1 \in 1..m
        BY <2>3, <4>1
      <4>3. QED
        BY <2>3, <4>2
    <3>14. QED
      BY <2>3, <2>10, <3>3, <3>12, <3>13, Zenon DEF LogLevelOnce
  <2>11. QED
    BY <2>9, <2>10
<1>2. ArgsInv => LogLevelOnce
  BY <1>1, Zenon DEF LogLevelOnce
<1>3. QED
  BY <1>2, ArgsInvariant, PTL
=============================================================================
