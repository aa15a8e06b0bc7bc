---------------------------- MODULE MCDataplane -----------------------------
(* Instances of Dataplane for TLC. *)
EXTENDS Dataplane, TLC
=============================================================================
