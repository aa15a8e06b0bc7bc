--------------------------- MODULE EnvoyLifecycle ---------------------------
(***************************************************************************)
(* What envoy.Proxy promises about the process it manages, without the     *)
(* goroutines that bring it about: a proxy is run at most once, owns at    *)
(* most one process, only moves forward, and is called Exited only when    *)
(* the process is gone.  Module Proxy implements this specification.       *)
(***************************************************************************)

VARIABLES
  state,   \* the five-valued state of the proxy
  alive    \* "none" before the process exists, then "yes", then "no"

avars == <<state, alive>>

AInit == state = "Initial" /\ alive = "none"

(* Run claims the proxy, once. *)
ARun == state = "Initial" /\ state' = "Running" /\ UNCHANGED alive

(* The process is started while the proxy is Running, and never again. *)
ASpawn == state = "Running" /\ alive = "none" /\ alive' = "yes" /\ UNCHANGED state

ADrain == state = "Running" /\ state' = "Draining" /\ UNCHANGED alive

AQuit == state \in {"Running", "Draining"} /\ state' = "Stopped" /\ UNCHANGED alive

(* The process exits, whatever made it do so. *)
ADie == alive = "yes" /\ alive' = "no" /\ UNCHANGED state

(* Only a proxy nobody has drained or stopped becomes Exited. *)
AExit == state = "Running" /\ alive = "no" /\ state' = "Exited" /\ UNCHANGED alive

ANext == ARun \/ ASpawn \/ ADrain \/ AQuit \/ ADie \/ AExit

ASpec == AInit /\ [][ANext]_avars
=============================================================================
