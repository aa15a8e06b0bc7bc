------------------------------ MODULE MCServers ------------------------------
(***************************************************************************)
(* The parts that run beside Envoy and share no state, for TLC: the cache  *)
(* of metrics, the metrics servers, the streams of the xDS server, the DNS *)
(* server and one TCP connection of it.  A behaviour is one of a single    *)
(* part: the others stay in their initial state, so that the state spaces  *)
(* add and do not multiply.                                                *)
(***************************************************************************)
EXTENDS MetricsCache, Metrics, XDS, DNSServer, DNSConn, TLC

VARIABLE part

vars == <<part, cacheVars, metricsVars, xdsVars, serverVars, connVars>>

CONSTANTS sample, key

EmitterKinds == (sample :> "samples") @@ (key :> "keys")

(* A request of two pieces, an empty one and one of a single piece. *)
Lengths == <<2, 0, 1>>

(* Consul's responses around the limit of the 16-bit prefix. *)
ResponseLengths == {0, 65535, 65536, 65537}

Init ==
  /\ CacheInit /\ MetricsInit /\ XDSInit /\ ServerInit /\ ConnInit
  /\ part \in {"cache", "metrics", "xds", "dns", "conn"}
  /\ part # "metrics" => cfg = [central |-> FALSE, backends |-> {}, service |-> FALSE]

Cache(step) == part = "cache" /\ step /\ UNCHANGED <<part, metricsVars, xdsVars, serverVars, connVars>>
Conn(step) == part = "conn" /\ step /\ UNCHANGED <<part, cacheVars, metricsVars, xdsVars, serverVars>>

Next ==
  \/ Cache(CacheNext)
  \/ part = "metrics" /\ MetricsNext /\ UNCHANGED <<part, cacheVars, xdsVars, serverVars, connVars>>
  \/ part = "xds" /\ XDSNext /\ UNCHANGED <<part, cacheVars, metricsVars, serverVars, connVars>>
  \/ part = "dns" /\ ServerNext /\ UNCHANGED <<part, cacheVars, metricsVars, xdsVars, connVars>>
  \/ Conn(ConnNext)

(* The fairness of the parts.  ServerFairness asks for nothing of a server *)
(* that was never started.                                                 *)
Spec ==
  /\ Init /\ [][Next]_vars
  /\ \A e \in Emitters : SF_vars(Cache(~Panicked /\ Emit(e)))
  /\ \A s \in Setters : SF_vars(Cache(~Panicked /\ Set(s)))
  /\ ServerFairness
  /\ WF_vars(Conn(Handle))
=============================================================================
