--------------------------------- MODULE XDS ---------------------------------
(***************************************************************************)
(* The streams of the local xDS server (pkg/consuldp/xds.go).  Envoy opens *)
(* a stream, the director decides whether it is proxied to Consul, and the *)
(* proxy's handler runs two goroutines for it: one receives from Envoy     *)
(* (RecvMsg), one sends to it (SendMsg).  Each of them first calls gRPC    *)
(* and then sets the envoy_connected gauge, so the calls of the two and of *)
(* other streams come in between.                                          *)
(***************************************************************************)
EXTENDS Naturals

CONSTANTS
  Streams,   \* the streams Envoy opens, each once
  AclToken,  \* cdp.aclToken
  EnvoyToken \* a token that Envoy sends along

VARIABLES
  xdsServer, \* serving, stopped
  conn,      \* of a stream: new, refused, up, down
  tokens,    \* of a stream: the x-consul-token values passed on to Consul
  recv,      \* the receiving goroutine: none, call, set1, set0, done
  send,      \* the sending goroutine, likewise
  gauge      \* envoy_connected: its value and the goroutine that set it

xdsVars == <<xdsServer, conn, tokens, recv, send, gauge>>

ConnStates == {"new", "refused", "up", "down"}
Goroutine == {"none", "call", "set1", "set0", "done"}

(* The type of the variables. *)
XDSTypeOK ==
  /\ xdsServer \in {"serving", "stopped"}
  /\ conn \in [Streams -> ConnStates]
  /\ tokens \in [Streams -> SUBSET {EnvoyToken, AclToken}]
  /\ recv \in [Streams -> Goroutine] /\ send \in [Streams -> Goroutine]
  /\ gauge \in [value : {0, 1}, stream : Streams \cup {"none"}, by : {"none", "recv", "send"}]

XDSInit ==
  /\ xdsServer = "serving"
  /\ conn = [s \in Streams |-> "new"]
  /\ tokens = [s \in Streams |-> {}]
  /\ recv = [s \in Streams |-> "none"] /\ send = [s \in Streams |-> "none"]
  /\ gauge = [value |-> 0, stream |-> "none", by |-> "none"]

-----------------------------------------------------------------------------
(* Mutant: the token is added to Envoy's metadata instead of replacing it. *)
MutantDirector(incoming) == incoming \cup {AclToken}

(* Set on the copied metadata: the incoming token is replaced. *)
Director(incoming) == {AclToken}

(* Envoy calls a method.  Only ADS goes to Consul, other methods are       *)
(* answered with Unimplemented.                                            *)
OpenStream(s) ==
  /\ xdsServer = "serving" /\ conn[s] = "new"
  /\ \/ /\ conn' = [conn EXCEPT ![s] = "refused"]
        /\ UNCHANGED <<tokens, recv, send>>
     \/ \E incoming \in {{}, {EnvoyToken}} :
          /\ conn' = [conn EXCEPT ![s] = "up"]
          /\ tokens' = [tokens EXCEPT ![s] = Director(incoming)]
          /\ recv' = [recv EXCEPT ![s] = "call"] /\ send' = [send EXCEPT ![s] = "call"]
  /\ UNCHANGED <<xdsServer, gauge>>

(* Envoy exits, resets the stream or loses the connection. *)
EnvoyLeaves(s) ==
  /\ conn[s] = "up" /\ conn' = [conn EXCEPT ![s] = "down"]
  /\ UNCHANGED <<xdsServer, tokens, recv, send, gauge>>

(* The context is cancelled: stopXDSServer closes every connection. *)
StopXDSServer ==
  /\ xdsServer = "serving" /\ xdsServer' = "stopped"
  /\ conn' = [s \in Streams |-> IF conn[s] = "up" THEN "down" ELSE conn[s]]
  /\ UNCHANGED <<tokens, recv, send, gauge>>

(* gRPC's RecvMsg returns a message, or an error once the stream is over. *)
RecvMsg(s) ==
  /\ recv[s] = "call"
  /\ \/ conn[s] = "up" /\ recv' = [recv EXCEPT ![s] = "set1"]
     \/ conn[s] = "down" /\ recv' = [recv EXCEPT ![s] = "set0"]
  /\ UNCHANGED <<xdsServer, conn, tokens, send, gauge>>

(* gRPC's SendMsg delivers a message of Consul, or fails. *)
SendMsg(s) ==
  /\ send[s] = "call"
  /\ \/ conn[s] = "up" /\ send' = [send EXCEPT ![s] = "set1"]
     \/ conn[s] = "down" /\ send' = [send EXCEPT ![s] = "set0"]
  /\ UNCHANGED <<xdsServer, conn, tokens, recv, gauge>>

(* Consul's half of the stream ends, which the sending goroutine sees      *)
(* without a SendMsg: the handler returns and the stream is over.          *)
ConsulEnds(s) ==
  /\ send[s] = "call"
  /\ send' = [send EXCEPT ![s] = "done"]
  /\ conn' = [conn EXCEPT ![s] = "down"]
  /\ UNCHANGED <<xdsServer, tokens, recv, gauge>>

(* Mutant: an error of RecvMsg is returned without resetting the gauge. *)
MutantRecvSetsGauge(s) ==
  /\ recv[s] \in {"set0", "set1"}
  /\ recv' = [recv EXCEPT ![s] = IF recv[s] = "set1" THEN "call" ELSE "done"]
  /\ gauge' = IF recv[s] = "set1" THEN [value |-> 1, stream |-> s, by |-> "recv"] ELSE gauge
  /\ UNCHANGED <<xdsServer, conn, tokens, send>>

(* RecvMsg sets the gauge and returns; the goroutine ends with an error. *)
RecvSetsGauge(s) ==
  /\ recv[s] \in {"set0", "set1"}
  /\ recv' = [recv EXCEPT ![s] = IF recv[s] = "set1" THEN "call" ELSE "done"]
  /\ gauge' = [value |-> IF recv[s] = "set1" THEN 1 ELSE 0, stream |-> s, by |-> "recv"]
  /\ UNCHANGED <<xdsServer, conn, tokens, send>>

SendSetsGauge(s) ==
  /\ send[s] \in {"set0", "set1"}
  /\ send' = [send EXCEPT ![s] = IF send[s] = "set1" THEN "call" ELSE "done"]
  /\ gauge' = [value |-> IF send[s] = "set1" THEN 1 ELSE 0, stream |-> s, by |-> "send"]
  /\ UNCHANGED <<xdsServer, conn, tokens, recv>>

Goes(s) == RecvMsg(s) \/ SendMsg(s) \/ ConsulEnds(s) \/ RecvSetsGauge(s) \/ SendSetsGauge(s)

XDSNext == StopXDSServer \/ \E s \in Streams : OpenStream(s) \/ EnvoyLeaves(s) \/ Goes(s)

XDSSpec == XDSInit /\ [][XDSNext]_xdsVars

-----------------------------------------------------------------------------
(* What Consul is told by the director: exactly the dataplane's own token, *)
(* whatever token Envoy sent, for the streams that are proxied and for no  *)
(* other.                                                                  *)
OwnToken ==
  \A s \in Streams :
    tokens[s] = (IF conn[s] \in {"new", "refused"} THEN {} ELSE {AclToken})

(* SetGauge in RecvMsg: when a receiver was the last to set the gauge, the *)
(* gauge is right about the receiver's stream.  So once every stream has   *)
(* ended, only a SendMsg can have left the gauge at 1: one that returned   *)
(* before the end and set the gauge after RecvMsg had reset it.  (That     *)
(* happens, and then the gauge is not what its Help in stats.go says.)     *)
ReceiverTruthful ==
  gauge.by = "recv" =>
    /\ gauge.value = 0 => recv[gauge.stream] = "done" /\ conn[gauge.stream] # "up"
    /\ gauge.value = 1 => recv[gauge.stream] \in {"call", "set1", "set0"}
=============================================================================
