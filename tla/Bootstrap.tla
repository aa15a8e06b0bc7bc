------------------------------ MODULE Bootstrap ------------------------------
(***************************************************************************)
(* Envoy's bootstrap configuration: bootstrapConfig (pkg/consuldp/         *)
(* bootstrap.go) prepares the arguments, and BootstrapConfig.GenerateJSON  *)
(* (internal/bootstrap) completes them in a fixed order, each step         *)
(* appending to lists of clusters, listeners, secrets, sinks and tags that *)
(* the steps before it and the user have begun.  The document is what      *)
(* these lists name.  What the dataplane itself later makes of the same    *)
(* settings (pkg/consuldp/metrics.go) has to agree with it.                *)
(***************************************************************************)
EXTENDS Naturals, Sequences, Functions

CONSTANT
  MaxSettings  \* how many settings differ from their default (a bound)

ASSUME MaxSettingsAssumption == MaxSettings \in Nat

VARIABLES
  in,          \* the settings: the dataplane's, and Proxy.Config from Consul
  step,        \* the next step, or failed, or rendered
  doc          \* the template arguments, as far as they are complete

bootVars == <<in, step, doc>>

(* A sink's URL: with a scheme, not a URL, naming an environment variable, *)
(* or with an environment variable in it.                                  *)
URLs == {"udp", "unix", "http", "garbage", "$UDP", "$UNSET", "udp:HOST_IP", "udp:OTHER"}

Defaults == [
  central |-> "yes", decode |-> "ok", mergePort |-> "20100", network |-> "tcp",
  identity |-> "", namespace |-> "", datacenter |-> "dc1", tls |-> "", ready |-> "", prometheus |-> "",
  stats |-> "", clusters |-> "", listeners |-> "", sinks |-> "", statsConfig |-> "",
  tags |-> "", statsd |-> "", dogstatsd |-> "", collector |-> "", template |-> "ours"]

(* The other values a setting can have.  tls: what the CA path is when the *)
(* certificate, key and CA path are given (validateConfig asks for all).   *)
(* ready is the dataplane's setting: Proxy.Config does not override it.    *)
Others == [
  central |-> {"no"}, decode |-> {"fails"}, mergePort |-> {"0", "9090"}, network |-> {"unix"},
  identity |-> {"identity"}, namespace |-> {"ns"}, datacenter |-> {""}, tls |-> {"file", "dir", "missing"},
  ready |-> {"addr"}, prometheus |-> {"addr", "invalid"}, stats |-> {"addr", "invalid"},
  clusters |-> {"zipkin", "self_admin", "invalid"}, listeners |-> {"users", "invalid"}, sinks |-> {"users"},
  statsConfig |-> {"users"}, tags |-> {"canary", "consul.source.service"}, statsd |-> URLs,
  dogstatsd |-> URLs, collector |-> {"dir"}, template |-> {"users", "invalid"}]

Changes == UNION {{<<f, v>> : v \in Others[f]} : f \in DOMAIN Others}

With(changes) ==
  [f \in DOMAIN Defaults |->
     IF \E i \in DOMAIN changes : changes[i][1] = f
     THEN changes[CHOOSE i \in DOMAIN changes : changes[i][1] = f][2] ELSE Defaults[f]]

After == [args |-> "sinks", sinks |-> "tags", tags |-> "static", static |-> "prometheus", prometheus |-> "stats",
          stats |-> "ready", ready |-> "collector", collector |-> "render"]

NoDoc == [source |-> "", agent |-> "", backendPort |-> "", ready |-> "", sinks |-> <<>>,
          tags |-> <<>>, clusters |-> <<>>, listeners |-> <<>>, secrets |-> <<>>]

BootInit ==
  /\ \E n \in 0..MaxSettings : \E changes \in [1..n -> Changes] : in = With(changes)
  /\ step = "args" /\ doc = NoDoc

Fail == step' = "failed" /\ UNCHANGED <<in, doc>>
Go(d) == step' = After[step] /\ doc' = d /\ UNCHANGED in

(* Proxy.Config is applied only with central configuration. *)
Central(f) == IF in.central = "yes" THEN in[f] ELSE ""

-----------------------------------------------------------------------------
(* bootstrapConfig.  The identity, when there is one, stands for the       *)
(* service; a unix listener for the agent's address.                       *)
BootstrapConfig ==
  /\ step = "args"
  /\ IF in.tls = "missing" \/ (in.central = "yes" /\ in.decode = "fails")
     THEN Fail
     ELSE Go([doc EXCEPT !.source = IF in.identity # "" THEN in.identity ELSE "service",
                         !.agent = IF in.network = "unix" THEN "pipe" ELSE "socket_address",
                         !.ready = in.ready,
                         !.backendPort = IF in.central = "yes" THEN in.mergePort ELSE ""])

Names(s) == {s[i].name : i \in DOMAIN s}

(* The environment of the process. *)
Getenv(name) == CASE name = "UDP" -> "udp" [] OTHER -> ""

(* A URL that is a variable's name is replaced by its value; of variables  *)
(* inside one only HOST_IP is expanded, others are no host name.           *)
Resolved(url) ==
  CASE url = "$UDP" -> Getenv("UDP")
    [] url = "$UNSET" -> Getenv("UNSET")
    [] url = "udp:HOST_IP" -> "udp"
    [] url = "udp:OTHER" -> "garbage"
    [] OTHER -> url

(* generateStatsSinkJSON: the address of the sink, "" for an error. *)
SinkAddress(url) ==
  CASE Resolved(url) = "udp" -> "socket_address"
    [] Resolved(url) = "unix" -> "pipe"
    [] OTHER -> ""

Sink(name, f) == IF Central(f) = "" THEN <<>> ELSE <<[name |-> name, address |-> SinkAddress(in[f])]>>

GenerateStatsSinks ==
  /\ step = "sinks"
  /\ LET sinks == Sink("statsd", "statsd") \o Sink("dogstatsd", "dogstatsd") IN
       IF \E i \in DOMAIN sinks : sinks[i].address = ""
       THEN Fail
       ELSE Go([doc EXCEPT !.sinks = sinks \o IF Central("sinks") = "" THEN <<>>
                                              ELSE <<[name |-> "users", address |-> "users"]>>])

(* The user's tag (without a value it is a boolean one, "1"), and the      *)
(* rules that take tags from the names of metrics.                         *)
UserTags ==
  IF Central("tags") = "" THEN <<>>
  ELSE <<[name |-> in.tags, value |-> IF in.tags = "canary" THEN "1" ELSE "users"]>>
ResourceTagSpecifiers ==
  LET rule(name) == [name |-> name, value |-> "regex"] IN
    <<rule("consul.destination"), rule("consul.upstream")>>

DefaultTags ==
  << [name |-> "local_cluster", value |-> doc.source],
     [name |-> "consul.source.service", value |-> doc.source],
     [name |-> "consul.source.namespace", value |-> IF in.namespace = "" THEN "default" ELSE in.namespace],
     [name |-> "consul.source.datacenter", value |-> in.datacenter] >>

(* Mutant: the defaults are added without looking for explicit tags. *)
MutantAddDefault(tags, t) == IF t.value = "" THEN tags ELSE Append(tags, t)

(* A default is left out when there is no value, or an explicit tag. *)
AddDefault(tags, t) ==
  IF t.value = "" \/ t.name \in Names(UserTags) THEN tags ELSE Append(tags, t)

GenerateStatsTags ==
  LET all == DefaultTags IN
    AddDefault(AddDefault(AddDefault(AddDefault(UserTags \o ResourceTagSpecifiers, all[1]), all[2]), all[3]), all[4])

StatsConfig ==
  /\ step = "tags"
  /\ Go([doc EXCEPT !.tags = IF Central("statsConfig") # "" THEN <<[name |-> "users", value |-> "users"]>>
                             ELSE GenerateStatsTags])

(* The lists of clusters and listeners begin with the user's. *)
StaticJSON ==
  /\ step = "static"
  /\ Go([doc EXCEPT
       !.clusters = IF Central("clusters") = "" THEN <<>> ELSE <<[name |-> in.clusters, port |-> "users"]>>,
       !.listeners = IF Central("listeners") = "" THEN <<>>
                     ELSE <<[name |-> in.listeners, cluster |-> "users", tls |-> FALSE]>>])

Secrets == <<"prometheus_cert", "prometheus_validation_context">>

(* The cluster a listener routes to: the dataplane's merged metrics for    *)
(* Prometheus when there is a backend port, else Envoy's admin server.     *)
ClusterOf(l) ==
  IF l = "prometheus" /\ doc.backendPort # ""
  THEN [name |-> "prometheus_backend", port |-> doc.backendPort]
  ELSE [name |-> "self_admin", port |-> "19000"]

(* Mutant: the cluster is appended when there is no cluster yet, only. *)
MutantAddCluster(clusters, c) == IF clusters = <<>> THEN <<c>> ELSE clusters

(* Mutant: the cluster is always appended. *)
MutantAlwaysAddCluster(clusters, c) == Append(clusters, c)

(* Nothing is appended when the list has a self_admin cluster. *)
AddCluster(clusters, c) == IF "self_admin" \in Names(clusters) THEN clusters ELSE Append(clusters, c)

(* Mutant: the secrets are added with the first listener of all only. *)
MutantGenerateListener(l, bindAddr) ==
  /\ step = l
  /\ IF bindAddr = "" THEN Go(doc)
     ELSE IF bindAddr = "invalid" \/ "invalid" \in Names(doc.clusters) THEN Fail
     ELSE Go([doc EXCEPT
            !.clusters = AddCluster(@, ClusterOf(l)),
            !.listeners = Append(@, [name |-> l, cluster |-> ClusterOf(l).name, tls |-> in.tls # ""]),
            !.secrets = IF in.tls # "" /\ doc.listeners = <<>> THEN @ \o Secrets ELSE @])

(* generateListenerConfig, which ConfigureArgs calls for the addresses     *)
(* that are set.  It parses the clusters to find self_admin.               *)
GenerateListener(l, bindAddr) ==
  /\ step = l
  /\ IF bindAddr = "" THEN Go(doc)
     ELSE IF bindAddr = "invalid" \/ "invalid" \in Names(doc.clusters) THEN Fail
     ELSE Go([doc EXCEPT
            !.clusters = AddCluster(@, ClusterOf(l)),
            !.listeners = Append(@, [name |-> l, cluster |-> ClusterOf(l).name, tls |-> in.tls # ""]),
            !.secrets = IF in.tls # "" THEN @ \o Secrets ELSE @])

GenerateListeners ==
  \/ GenerateListener("prometheus", Central("prometheus"))
  \/ GenerateListener("stats", Central("stats"))
  \/ GenerateListener("ready", doc.ready)

Loopback == "consul_telemetry_collector_loopback"

AppendTelemetryCollectorConfig ==
  /\ step = "collector"
  /\ Go(IF Central("collector") = "" THEN doc
        ELSE [doc EXCEPT !.sinks = Append(@, [name |-> "metrics_service", address |-> Loopback]),
                         !.clusters = Append(@, [name |-> Loopback, port |-> "pipe"])])

(* What the template, ours or the user's, puts into the document: our      *)
(* template puts every list into it.                                       *)
Inserted ==
  IF Central("template") = "users" THEN {} ELSE Names(doc.clusters) \cup Names(doc.listeners)

(* GenerateJSON: the template is filled in, and the result has to be JSON. *)
Render ==
  /\ step = "render"
  /\ IF Central("template") = "invalid" \/ "invalid" \in Inserted
     THEN Fail
     ELSE step' = "rendered" /\ UNCHANGED <<in, doc>>

BootNext ==
  \/ BootstrapConfig \/ GenerateStatsSinks \/ StatsConfig \/ StaticJSON \/ GenerateListeners
  \/ AppendTelemetryCollectorConfig \/ Render

BootSpec == BootInit /\ [][BootNext]_bootVars

-----------------------------------------------------------------------------
(* What startMetrics (metrics.go) makes of the same settings once Envoy has *)
(* been started with the document.                                          *)

(* Mutant: variables are not expanded. *)
MutantParseSinkAddr(url, sink) ==
  CASE url = "udp" -> "socket_address" [] url = "unix" /\ sink = "dogstatsd" -> "pipe" [] OTHER -> ""

(* parseSinkAddr: the address of the sink, "" for an error. *)
ParseSinkAddr(url, sink) ==
  CASE Resolved(url) = "udp" -> "socket_address"
    [] Resolved(url) = "unix" /\ sink = "dogstatsd" -> "pipe"
    [] OTHER -> ""

(* Mutant: the configured port is ignored. *)
MutantMergedPort == "20100"

(* The port of the merged metrics server, with a default of its own. *)
MergedPort == IF in.mergePort = "0" THEN "20100" ELSE in.mergePort

-----------------------------------------------------------------------------
Generated == {i \in DOMAIN doc.listeners : doc.listeners[i].name \in {"prometheus", "stats", "ready"}}

(* generateListenerConfig: every listener it generates routes to a cluster *)
(* of the document.  The exception is the Prometheus listener when the     *)
(* user's clusters have a self_admin: then its cluster is left out.        *)
RoutesResolve ==
  step = "rendered" =>
    \A i \in Generated :
      \/ doc.listeners[i].cluster \in Names(doc.clusters)
      \/ doc.listeners[i].name = "prometheus" /\ Central("clusters") = "self_admin"

(* Its comment on clusters, "Make sure we do not append the same cluster   *)
(* multiple times, as that will cause envoy startup to fail.", over all    *)
(* three listeners and the telemetry collector.                            *)
ClusterNamesUnique ==
  step = "rendered" =>
    \A i, j \in DOMAIN doc.clusters : doc.clusters[i].name = doc.clusters[j].name => i = j

(* generateStatsTags: no tag is given twice, and one the user has set      *)
(* keeps the user's value; the defaults name the service Consul gave, or   *)
(* its identity.                                                           *)
TagsOnce ==
  step = "rendered" /\ Central("statsConfig") = "" =>
    /\ \A i, j \in DOMAIN doc.tags : doc.tags[i].name = doc.tags[j].name => i = j
    /\ \A i \in DOMAIN doc.tags :
         doc.tags[i].name = "consul.source.service" =>
           doc.tags[i].value = IF Central("tags") = "consul.source.service" THEN "users"
                               ELSE IF in.identity # "" THEN in.identity ELSE "service"

(* generateStatsSinkJSON and parseSinkAddr read the same URLs, the second  *)
(* when Envoy runs already and an error ends the dataplane: what the first *)
(* accepts, the second takes for the same address.  The exception is a     *)
(* unix socket for statsd, which only the first accepts.                   *)
SinksAgree ==
  step = "rendered" =>
    \A i \in DOMAIN doc.sinks :
      doc.sinks[i].name \in {"statsd", "dogstatsd"} =>
        LET sink == doc.sinks[i].name IN
          \/ ParseSinkAddr(in[sink], sink) = doc.sinks[i].address
          \/ sink = "statsd" /\ doc.sinks[i].address = "pipe"

(* bootstrapConfig and startMetrics each work out the port of the merged   *)
(* metrics from MergePort: Envoy's cluster and the server agree on it.     *)
(* The exception is 0, for which only the second has a default.            *)
PortsAgree ==
  step = "rendered" =>
    \A i \in DOMAIN doc.clusters :
      doc.clusters[i].name = "prometheus_backend" =>
        doc.clusters[i].port = MergedPort \/ in.mergePort = "0"

(* generateListenerConfig: when certificates are given the Prometheus       *)
(* listener serves TLS (its comment says so), and every listener that does  *)
(* finds the secrets it names in the document.  (The other two listeners    *)
(* are given TLS as well, each with the same secrets once more.)            *)
TLSBacked ==
  step = "rendered" =>
    /\ \A i \in Generated :
         doc.listeners[i].tls => Range(Secrets) \subseteq Range(doc.secrets)
    /\ in.tls # "" /\ Central("prometheus") # "" =>
         \E i \in Generated : doc.listeners[i].name = "prometheus" /\ doc.listeners[i].tls
=============================================================================
