------------------------------ MODULE EnvoyArgs ------------------------------
(***************************************************************************)
(* Envoy's command line: envoyProxyConfig (pkg/consuldp/consul_dataplane.  *)
(* go) adds the dataplane's settings to the user's extra arguments, and    *)
(* buildCommand with removeArgAndGetValue (pkg/envoy/proxy.go) put the     *)
(* dataplane's own arguments in front, taking the log level out of the     *)
(* extra ones.                                                             *)
(***************************************************************************)
EXTENDS Naturals, Sequences, FiniteSets, Functions

CONSTANT
  MaxExtra   \* how many extra arguments a user gives (a bound of the model)

ASSUME MaxExtraAssumption == MaxExtra \in Nat

VARIABLES
  extra,     \* cdp.cfg.Envoy.ExtraArgs: what follows the flags
  logger,    \* the level of the logger
  built,     \* config, command, done, panicked
  args,      \* p.cfg.ExtraArgs
  argv       \* the arguments of the command

argsVars == <<extra, logger, built, args, argv>>

LevelKey == "--log-level"

(* envoyArgs, each with the one string that envoyProxyConfig makes of it. *)
EnvoyArg == [concurrency |-> "--concurrency", drainTime |-> "--drain-time-s",
             drainStrategy |-> "--drain-strategy"]
FromConfig == [concurrency |-> "--concurrency 2", drainTime |-> "--drain-time-s 30",
               drainStrategy |-> "--drain-strategy immediate"]

(* What a user may give: the same flags, the log level, a value, and the   *)
(* empty string.                                                           *)
UserArgs == {EnvoyArg[a] : a \in DOMAIN EnvoyArg} \cup {LevelKey, "value", ""}

ArgsInit ==
  /\ \E n \in 0..MaxExtra : extra \in [1..n -> UserArgs]
  /\ logger \in {"warn", "off"}
  /\ built = "config" /\ args = <<>> /\ argv = <<>>

-----------------------------------------------------------------------------
(* Mutant: the break skips the append too, as it was meant to. *)
MutantAppendEnvoyArgs(given, order) ==
  LET left == SelectSeq(order, LAMBDA a : EnvoyArg[a] \notin Range(given))
  IN given \o [i \in DOMAIN left |-> FromConfig[left[i]]]

(* Every setting is appended: the break leaves the inner loop only. *)
AppendEnvoyArgs(given, order) == given \o [i \in DOMAIN order |-> FromConfig[order[i]]]

(* The settings come in the order of a Go map. *)
EnvoyProxyConfig ==
  /\ built = "config" /\ built' = "command"
  /\ \E order \in Bijection(1..3, DOMAIN EnvoyArg) : args' = AppendEnvoyArgs(extra, order)
  /\ UNCHANGED <<extra, logger, argv>>

(* Envoy knows the logger's levels; a logger that is off becomes info. *)
InferredLevel == IF logger = "off" THEN "info" ELSE logger

Places(s, a) == {i \in DOMAIN s : s[i] = a}

(* Where the log level first is, 0 when it is not. *)
KeyAt(s) ==
  LET at == Places(s, LevelKey)
  IN IF at = {} THEN 0 ELSE CHOOSE i \in at : \A j \in at : i \leq j

(* Mutant: the value is read, and key and value are left in. *)
MutantWithoutKey(s) == s

(* removeArgAndGetValue: the arguments without the first key and what      *)
(* comes after it.                                                         *)
WithoutKey(s) ==
  IF KeyAt(s) = 0 THEN s
  ELSE SubSeq(s, 1, KeyAt(s) - 1) \o SubSeq(s, KeyAt(s) + 2, Len(s))

ValueOf(s) == IF KeyAt(s) = 0 THEN "" ELSE s[KeyAt(s) + 1]

(* A key without anything after it is an index out of range. *)
BuildCommand ==
  /\ built = "command"
  /\ IF KeyAt(args) # 0 /\ KeyAt(args) = Len(args)
     THEN built' = "panicked" /\ UNCHANGED argv
     ELSE /\ built' = "done"
          /\ argv' = <<"--config-yaml", "yaml", "--log-format", "format", LevelKey,
                       IF ValueOf(args) = "" THEN InferredLevel ELSE ValueOf(args),
                       "--disable-hot-restart">> \o WithoutKey(args)
  /\ UNCHANGED <<extra, logger, args>>

ArgsNext == EnvoyProxyConfig \/ BuildCommand

ArgsSpec == ArgsInit /\ [][ArgsNext]_argsVars

-----------------------------------------------------------------------------
Occurrences(s, a) == Cardinality(Places(s, a))

(* removeArgAndGetValue reads one past the key without looking whether     *)
(* there is anything: it is safe because envoyProxyConfig always appends   *)
(* something, which the comment there says it should not.                  *)
ArgsInBounds == built # "panicked"

(* buildCommand: however often the user gives a log level, Envoy is not    *)
(* given it more often, and it is given one when the user does not; the    *)
(* level is the user's first one if that has a value, else the logger's.   *)
(* (A key at the end of the user's arguments takes the setting appended    *)
(* after it for its value.)                                                *)
LogLevelOnce ==
  built = "done" =>
    /\ Occurrences(argv, LevelKey) =
         IF LevelKey \in Range(extra) THEN Occurrences(extra, LevelKey) ELSE 1
    /\ LET first == KeyAt(extra) IN
         argv[6] = CASE first = 0 -> InferredLevel
                     [] first \in 1..(Len(extra) - 1) ->
                          IF extra[first + 1] = "" THEN InferredLevel ELSE extra[first + 1]
                     [] OTHER -> argv[6]

(* envoyProxyConfig's comment: what users set as extra arguments has       *)
(* priority over what the dataplane would set.                             *)
UserArgsWin ==
  built = "done" =>
    \A a \in DOMAIN EnvoyArg : EnvoyArg[a] \in Range(extra) => FromConfig[a] \notin Range(argv)
=============================================================================
