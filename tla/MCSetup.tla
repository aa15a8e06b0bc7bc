------------------------------- MODULE MCSetup -------------------------------
(***************************************************************************)
(* What is worked out before Envoy starts, for TLC: the configuration,     *)
(* Envoy's bootstrap document and Envoy's command line.  A behaviour is    *)
(* one of a single part, so that the state spaces add; the others keep     *)
(* default settings.                                                       *)
(***************************************************************************)
EXTENDS Config, Bootstrap, EnvoyArgs

VARIABLE part

vars == <<part, configVars, bootVars, argsVars>>

NoConfig ==
  /\ given = [l \in Layers |-> Layer(l, <<>>)] /\ argument = "none"
  /\ pc = "init" /\ flags = [o \in Options |-> Nil] /\ config = [o \in Options |-> ""]
  /\ token = "" /\ probe = ""
NoBoot == in = Defaults /\ step = "args" /\ doc = NoDoc
NoArgs == extra = <<>> /\ logger = "off" /\ built = "config" /\ args = <<>> /\ argv = <<>>

Init ==
  \/ part = "config" /\ ConfigInit /\ NoBoot /\ NoArgs
  \/ part = "bootstrap" /\ BootInit /\ NoConfig /\ NoArgs
  \/ part = "args" /\ ArgsInit /\ NoConfig /\ NoBoot

Next ==
  \/ part = "config" /\ ConfigNext /\ UNCHANGED <<part, bootVars, argsVars>>
  \/ part = "bootstrap" /\ BootNext /\ UNCHANGED <<part, configVars, argsVars>>
  \/ part = "args" /\ ArgsNext /\ UNCHANGED <<part, configVars, bootVars>>

Spec == Init /\ [][Next]_vars
=============================================================================
