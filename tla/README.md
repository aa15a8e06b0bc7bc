# Verification of consul-dataplane

TLA+ models of consul-dataplane, the TLC runs that check them on small
instances, and TLAPS proofs of their safety properties for instances of any
size. Paths are relative to the repository (`src/` in `PROJECT.json`).

## The system

consul-dataplane is one Go process that runs beside a service. It finds a
Consul server, starts Envoy as a child process with a generated bootstrap
configuration, proxies Envoy's xDS stream to Consul, proxies DNS, serves merged
metrics, and offers an HTTP API with which an orchestrator delays the
application's start and asks for a graceful shutdown.

| Component | Source | State | Operations | Interacts with |
|---|---|---|---|---|
| `envoy.Proxy` | `pkg/envoy/proxy.go` | atomic state word, child process, `exitedCh` | Run, Drain, Quit, Kill, DumpConfig, Ready, Exited, the waiting goroutine | Envoy (admin API, signals), everything below that drives it |
| lifecycle manager | `pkg/consuldp/lifecycle.go` | HTTP server, `errorExitCh`, timers | start/stop of the server, graceful shutdown and startup | Proxy, signals, `Run`'s select |
| process | `pkg/consuldp/consul_dataplane.go`, `cmd/consul-dataplane/main.go` | phase of `Run`, the select, context, signal channel | Run, GracefulShutdown, main | all |
| metrics cache | `pkg/metrics-cache/metricscache.go` | `checkLock`, mutex, real sink, four slices | the four emitting methods, SetSink, replay | every goroutine that emits |
| metrics servers | `pkg/consuldp/metrics.go` | two HTTP servers, one error channel, fan-out sink | startMetrics, stopMetricsServers, merged handler | cache, Envoy, service |
| DNS proxy | `pkg/dns/dns.go` | sockets, `running`, context | Start, Stop, UDP and TCP loops, handlers | Consul (gRPC), clients |
| xDS server | `pkg/consuldp/xds.go` | gRPC server, `envoy_connected` gauge | setup, start, stop, director, stream wrapper | Envoy, Consul |
| bootstrap | `pkg/consuldp/bootstrap.go`, `internal/bootstrap` | lists that the steps append to | the steps of GenerateJSON | Consul, Proxy, metrics servers |
| Envoy's command line | `envoyProxyConfig`, `buildCommand` | the argument lists | add settings, take out the log level | process, Proxy |
| configuration | `cmd/consul-dataplane/config.go`, `flags.go`, `env.go`, `pkg/consuldp/config.go` | the layers | parse, merge, validate, read credentials, health check | process |

What is hard here: no lock is held across an operation of the proxy, and up to
four goroutines drive it; Envoy can crash, ignore a request or answer too late
at any point; a signal can come at any point of start-up; a select has several
ready cases; channels are closed by more than one goroutine; the metrics cache
drops its lock while it is being swapped; blocking calls without deadlines
decide whether things stop; the same setting is interpreted in two places
(Envoy's bootstrap document and the dataplane's own servers) that have to
agree. The `hazards` of `PROJECT.json` list these with the
line where each bites and the property that watches it.

## Modules

```
EnvoyLifecycle  abstract: one process, started once, moving forward
   ^ implemented by
Proxy  <- Lifecycle  <- Dataplane             (each EXTENDS the one before)
MetricsCache  Metrics  XDS  DNSServer  DNSConn        (run by MCServers)
Config  Bootstrap  EnvoyArgs                          (run by MCSetup)
ProxyProofs <- LifecycleProofs <- DataplaneProofs     (theorems about the above)
MetricsCacheProofs  MetricsProofs
ServersProofs    (XDS, DNSServer, DNSConn)
ConfigProofs     (Config, EnvoyArgs)
BootstrapProofs  (Bootstrap)
```

`MC*.tla` and `*.cfg` are the instances. Every operator that models code is
mapped to its lines in `PROJECT.json`. Operators named `Mutant...` are
plausible bugs; each property of a passing run is violated when the mutant
named for it in `PROJECT.json` takes the place of the original, which shows
that the property depends on that code.

**Proxy.** `state`, `proc` (Envoy), `waiter` (the goroutine of `Run` and, with
it, `exitedCh`), `call` (per calling goroutine: method, program counter, loaded
state, result), `listener` (receivers of `Exited()`). A method is several
steps: load the state, compare and swap (whose result the code ignores),
request or signal. `Plan` is the table of the methods' switch statements.
`AdminRequest` lets Envoy act on a request whose answer is lost. The context
kills Envoy through a goroutine of `os/exec`, so cancelling and killing are two
steps. The notes in the source that `Drain`, `Quit` and `Kill` may not overlap
`Run` are `Exclusive`.

**EnvoyLifecycle** says what all this amounts to: `state` and whether the
process is alive, with six actions. `Proxy` implements it with
`alive <- CASE proc = "none" -> "none" [] proc = "dead" -> "no" [] OTHER -> "yes"`.

**Lifecycle** adds the manager: `lc` (created, started, stopped), its server,
`errorExitCh`, and per request a graceful shutdown or startup with its timer.
`ManagerSpec` is the manager over a proxy that was just run.

**Dataplane** adds the process: `main` walks through the phases of `Run`, each
of which can fail; `sel` is the select goroutine; the xDS and metrics servers
are reduced to whether they serve, failed or stopped; `sig` is the one signal
that is read. `Alive` ends when main exits or a goroutine panics; Envoy, in its
own process group, goes on (`EnvoyStep`). The deferred cancel and the exit of
main are two steps with nothing waiting in between, as in the code.

**MetricsCache** splits an emission into load of `checkLock`, lock, read of
`realSink`, forward or append, and `SetSink` into lock, store, the two words of
the interface, and the replay of each slice. Where the code races, outcomes are
chosen: an unlocked append may be lost, a half-written interface makes the
reader panic. Shared memory is otherwise sequentially consistent.

**Metrics** chooses a configuration initially (central or not, backends,
service URL) and models `startMetrics` backend by backend under its mutex, the
two servers' goroutines, `stopMetricsServers`, and one scrape at a time of the
merged endpoint. Sources are assumed to return a non-empty body.

**DNSServer** numbers runs by the `Start` that began them, so that a run's
loops and sockets can be told from the next one's. Binding may fail at either
socket. **DNSConn** is one TCP connection. Its stream is made of pieces: a
length field is one piece, a body as many as the field says; a body piece that
is read as a length announces anything up to `MaxSize`. It is kept apart
because connections share nothing but the context.

**XDS** has the streams that Envoy opens. The director refuses a stream or
replaces its token; then a receiving and a sending goroutine each call gRPC and
set the `envoy_connected` gauge in a second step, as `RecvMsg` and `SendMsg` of
the stream wrapper do. `gauge` remembers who set it last.

**Config** follows one start of the program: the user gives up to `MaxGiven`
settings in any of the three layers (`given`), `flags` is what the flag package
and the environment make of them, `config` what the two merges and
`constructRuntimeConfig` make of that. Nil pointers, empty strings and texts that
do not parse are told apart. Then come validation, the credentials, or, with
`-check-proxy-health`, the probe. Options treated alike are represented by one.

**Bootstrap** chooses up to `MaxSettings` settings that differ from their
defaults and runs the steps of `GenerateJSON` in order. `doc` holds what the
lists of the template arguments name: clusters with ports, listeners with the
cluster they route to, secrets, sinks with addresses, tags. `ParseSinkAddr` and
`MergedPort` are what `metrics.go` makes of the same settings.

**EnvoyArgs** goes from up to `MaxExtra` extra arguments to the command line,
with the out-of-range index of `removeArgAndGetValue` as a panic.

## Runs

Passing runs:

| Run | Checks | Instance, distinct states |
|---|---|---|
| `proxy` | `ProxyInv`, `NotifiedAfterExit`, `KillIsFinal`, `ImplementsLifecycle`, `ListenersReleased` (fair) | 2 callers, 2 listeners; 204 k |
| `lifecycle` | `StartupGate`, `StartupAnswered`, `ShutdownCompletes` (fair) | one request of each kind; 31 k |
| `dataplane` | `DataplaneInv`, `GraceHonoured`, `ServerExitStopsEnvoy`, `NoOtherPanic`, `StatusTruthful` | a signal and one HTTP request; 3.1 M |
| `dataplane_live` | `ExitsWithEnvoy` (fair) | a signal; 159 k |
| `servers` | cache: `AtMostOnce`, `ReplayComplete`, `LockProtects`, `EverybodyReturns` (fair) | 2 emitters of 2 metrics, 2 setters |
| | metrics: `MergedStops`, `OneErrorIsReported`, `MergedBody` | all 32 configurations, 2 scrapes |
| | xDS: `OwnToken`, `ReceiverTruthful` | 2 streams |
| | DNS server: `OneRun`, `AnswersOwnQuestion`, `UDPStops` (fair) | 3 starts, 2 queries, 2 accepts |
| | DNS connection: `Pipelined`, `ConnEnds` (fair) | requests of 2, 0, 1 pieces; 72 k in all |
| `setup` | configuration: `Precedence`, `OneIdentity`, `ReadyToConnect`, `ProbesEnvoy` | up to 3 settings in 3 layers |
| | bootstrap: `RoutesResolve`, `ClusterNamesUnique`, `TagsOnce`, `SinksAgree`, `PortsAgree`, `TLSBacked` | up to 3 settings |
| | command line: `ArgsInBounds`, `LogLevelOnce` | up to 4 extra arguments; 435 k in all |

`MCServers` and `MCSetup` each hold modules that share no state: `part` names
the one that moves, while the others stay in their initial state, so that their
state spaces add up and do not multiply.

Deadlock is checked except where the modelled thing really ends: the lifecycle
manager; a connection, a stream, the metrics servers; the computations of
`setup`. In `servers` the liveness properties `EverybodyReturns`, `UDPStops`
and `ConnEnds` keep their parts from blocking.

Runs that show a disagreement between a comment or test and the code (the
`findings` of `PROJECT.json` quote both sides):

| Run | What happens |
|---|---|
| `manager_initialised` | a signal between creating and starting the lifecycle manager calls a nil logger |
| `no_orphan` | a metrics failure ends the program with Envoy untouched |
| `sigterm_terminates` | a quit request that fails after SIGTERM leaves everything running |
| `none_lost` | a metric emitted while `SetSink` runs is lost |
| `dns_frames` | after a cut body the next length is read from the middle of a request |
| `extra_args` | an Envoy setting the user gave as an extra argument is appended again with the dataplane's value |

More behaviours that a reader may not expect are in the models, and the
properties are stated so as to allow exactly them (see `hazards`):

- after a Quit that failed, a later Quit returns nil, so that Kill is not tried;
- a gauge forwarded during the replay is overwritten by an older value;
- the dataplane's metrics server can start after it should have been stopped,
  and two failing metrics servers close one channel twice;
- a source that fails late leaves a merged response a 200;
- `Stop` of the DNS server leaves the TCP loop in `Accept` until a client comes;
- a late `SendMsg` leaves `envoy_connected` at 1 after the stream has ended;
- a user's `self_admin` cluster suppresses the `prometheus_backend` cluster that
  the Prometheus listener routes to; merge port 0 and unix sockets for statsd
  mean different things to Envoy and to the dataplane;
- an unknown mode passes validation, an empty bearer token file is accepted, and
  the health check does not read the configuration file.

### Bounds

Two callers suffice for every pairwise race of the proxy; the proofs lift the
bound.
In `Dataplane` the callers are the ones the program has: main, the select, the
signal and one request; a second HTTP shutdown request behaves like the signal,
which is already there; `LifecycleProofs` and `DataplaneProofs` lift that bound
as well. Two metrics per emitter are needed for one to be cached and the next
forwarded. Three starts allow a failed bind between two runs. The
response lengths 0, 65535, 65536 and 65537 surround the 16-bit limit. Request
lengths 2, 0 and 1 give a body cut in the middle, an empty one and one that
ends where the next length begins. Two streams are needed for one to overwrite
the other's gauge. Three settings at a time let each pair interact in the
presence of a third (a flag, an environment variable and a file for one option;
a sink, its URL and central configuration); that no longer interaction breaks a
property is proved. Four extra arguments hold two keys with their values, or a key at the
end behind one. `MaxStarts`, `MaxAccepts`, `MaxRequests`, `MaxEmits`, `MaxSize`,
`MaxGiven`, `MaxSettings` and `MaxExtra` are the only bounds not found in the
code.

### Fairness

Weak fairness of each goroutine's steps: the Go scheduler is preemptive. Admin
requests end because the HTTP client has a ten second timeout, DNS queries
because of their one minute context, reads because of their deadlines, timers
because time passes. Envoy exits once it has accepted `quitquitquit` or was
killed. Callers of the cache's mutex get strong fairness: Go's mutex hands
itself to a waiter after a millisecond. Nothing is assumed about clients,
signals, the discovery of a server, a stalled reader, or Envoy answering.

## Proofs

`ProxyProofs` proves, for any sets `Callers` and `Listeners`:

- `ProxyInvariant`: `ProxySpec => []ProxyInv`;
- `ReceiversSeeTheExit`: `ProxySpec => []NotifiedAfterExit`;
- `KillReachesEnvoy`: `ProxySpec => []KillIsFinal`;
- `ProxyRefines`: `ProxySpec => ImplementsLifecycle`.

`ProxyInv` is inductive and has the type invariant and four parts.
`ProcessInv` ties the waiting goroutine to the process (it is past `Wait` only
when Envoy is dead) and the state to both. `ClaimInv` says that at most one
`Run` is between its claim and its start, and that it alone explains a Running
proxy without a process. `LoadedInv` says that a caller about to compare and
swap has loaded a state its method moves from. `NotifyInv` says that a released
listener implies that the channel was written. Neither `NotifiedAfterExit` nor
`KillIsFinal` is inductive: the first needs the order of the waiting goroutine,
the second that a proxy in state Exited has a dead process. `InvNext` has one
step per action and under it one per part that the action can disturb; the
refinement proof uses the invariant for the steps that move the state.
The constants need no assumption.

The other proof modules follow the same pattern: an inductive invariant that
contains or implies the properties, a lemma for the initial states, a lemma with
one step per action, and a theorem for each property.

| Module | Theorems (property) | What the invariant adds, and why |
|---|---|---|
| `LifecycleProofs` | `ApplicationWaits` (`StartupGate`) | `GateInv`: a request that was told yes makes no further call, so that the answer the reply rests on is still there; its timer is not armed again. Also lemmas on what a step of a method does to its caller's record. |
| | `GracePeriodKept` (`GraceHonoured`), `OnlyLoggerPanics` (`NoOtherPanic`) | `GraceInv`. `Excuse` (a timer fired, a server failed, the context is done) is shown to be stable, from `ServersInv`: servers start once, an idle shutdown's timer is off. `CallsInv`: whoever is inside Quit or Kill has an excuse. `ProcessThere`: past `proxy.Run` there is a process, so Kill finds one. |
| | `ProgramImplementsLifecycle` (`ImplementsLifecycle`) | The proxy inside the program: each of its steps is one of `ProxyRefines`, or one that drops a result (`Forgets`), which the abstraction does not see. |
| `DataplaneProofs` | `StartedInOrder` (`DataplaneInv`), `ExitStatusTruthful` (`StatusTruthful`), `ServerExitEndsEnvoy` (`ServerExitStopsEnvoy`) | `ProgramInv` joins the invariants of the proxy and of the grace period with `RunInv`. `PhaseInv` says what is there in each phase of `Run`. `RolesInv` says which goroutine can be in which method. `StatusInv` says what stands behind the value that `Run` returns, and why the context is done. `EndInv` follows the select through Quit and Kill: a Stopped proxy was stopped by a graceful shutdown or by the select itself, so the Quit of the select that returns nil has reached Envoy. |
| `MetricsCacheProofs` | `MutexProtects` (`LockProtects`) | `SetterInv`: the setter between Lock and Unlock is the one that holds `mu`, and the interface is half written only there and after `checkLock` was cleared. |
| | `NoMetricTwice` (`AtMostOnce`), `ReplaysAll` (`ReplayComplete`) | Both speak of `All`, what was delivered followed by what replay will still deliver. `FreshInv`: it has no metric twice and none that an emitter still has in hand. `OrderInv`: what was cached when `SetSink` got the mutex stays in it, in order. `OnceInv` and `ReplayInv` say where the one `SetSink` is. Every step leaves `All` alone or puts one new metric somewhere into it (`Put`); the lemmas on `Put` carry injectivity and order across that. |
| `MetricsProofs` | `MergedServerStops` (`MergedStops`), `SingleErrorsAreReported` (`OneErrorIsReported`) | `StartInv`: the stopping goroutine gets the mutex only when `startMetrics` has given it back, so no server comes after it; `ErrorInv`: who closes the channel has an error. |
| | `MergedInOrder` (`MergedBody`) | `ScrapeInv`: the body is the sources before the one the handler is at, and a status of 500 is possible only at the first. |
| `ServersProofs` | `OnlyOwnToken` (`OwnToken`), `StreamsTruthful` (`ReceiverTruthful`) | `GoroutineInv`: a stream has its goroutines exactly when it is proxied, and a receiver that saw an error saw the end. |
| | `OneRunAtATime` (`OneRun`), `AnswersMatch` (`AnswersOwnQuestion`) | `LoopInv`: the two loops of a run begin together and the run returns when both have ended; `BufferInv`: each packet has its own buffer. |
| | `PipelinedInOrder` (`Pipelined`) | `StreamInv`: the stream holds the pieces of the requests in order, none missing. `FrameInv`: as long as no body was cut short, the handler is in step with them, so that what it takes for a length is one, and what it has of a body are its first pieces. |
| `ConfigProofs` | `LayersOverride` (`Precedence`), `IdentityOfOneSection` (`OneIdentity`), `ConnectsWhenUsable` (`ReadyToConnect`), `HealthCheckAsksEnvoy` (`ProbesEnvoy`) | `FlagsInv`: what the flags hold after each step, up to the IDs that are read from files; that what comes after validation is not `Invalid`. |
| | `ArgsStayInBounds` (`ArgsInBounds`), `LevelGivenOnce` (`LogLevelOnce`) | `ArgsInv`: the arguments are the user's and three more, none of which is the key. So the first key is one of the user's and has a successor. That as many keys come out as go in is a bijection between their places (`KeysKept`). |
| `BootstrapProofs` | `ListenersRoute` (`RoutesResolve`), `NoClusterTwice` (`ClusterNamesUnique`), `NoTagTwice` (`TagsOnce`), `SinkURLsReadAlike` (`SinksAgree`), `MergedPortsAgree` (`PortsAgree`), `TLSHasSecrets` (`TLSBacked`) | `BootInv` says of each list what is in it after each step. `ClusterInv`: a name that a later step appends is not there yet. `ListenerInv`: what a listener refers to is there from the step on that adds the listener. `SinkInv` and `TagInv` likewise. |

They assume only what the modules' `ASSUME`s say: the goroutines are distinct
and play one role each, the bounds are numbers, the requests of a connection
have lengths. Every bound of a proved property is thereby lifted: any callers,
listeners, shutdown and startup requests, emitters, setters, numbers of metrics,
streams, queries, restarts, requests of a connection, settings and extra
arguments.

Every invariant and every refinement that a passing run checks is also a
theorem. Only model-checked is liveness under fairness, which is out of the
prover's reach: `ListenersReleased`, `StartupAnswered`, `ShutdownCompletes`,
`ExitsWithEnvoy`, `EverybodyReturns`, `UDPStops` and `ConnEnds`. What the
theorems take from the models they share with the runs: the values that a
setting or an argument can have are the representatives that the modules list.

## Not modelled, and why

- The text of the bootstrap template, and what it contains that no other step or
  component looks at: node metadata, access logs, TLS contexts towards Consul.
- Every single option of the configuration: options that take the same path are
  represented by one.
- The loading of certificates, and the discovery of servers
  (consul-server-connection-manager), gRPC, `net/http` and Envoy: external, only
  what the code sees of them is modelled.
- Renewal of the ACL token: the dataplane takes the one of its first connection,
  the rest is the library's.
- A failed `Accept` of the DNS proxy hands a nil connection to its handler. The
  panic is in the model; the properties hold up to it.
- Logging, version information, generated mocks: constants and output.
- The unsynchronised read of `cdp.lifecycleConfig` by the signal goroutine is
  modelled as sequentially consistent, as is shared memory in general where no
  race is named above.

## What could be added

The composition of `Metrics` with `MetricsCache`, whose only link is the one
call of `SetSink` at the end of `startMetrics` (both ends are modelled).
