----------------------------- MODULE Dataplane ------------------------------
(***************************************************************************)
(* The consul-dataplane process: main and run of cmd/consul-dataplane,     *)
(* ConsulDataplane.Run, its select over everything that can end the        *)
(* process, and GracefulShutdown, which SIGTERM or SIGINT starts.  The     *)
(* envoy.Proxy and the lifecycle manager are the modules it EXTENDS; the   *)
(* graceful_startup requests, which only read, are left to the latter.     *)
(***************************************************************************)
EXTENDS Lifecycle

CONSTANTS
  Main,        \* the goroutine of main and Run
  Select,      \* the goroutine Run leaves waiting for the first exit
  Sigterm      \* the goroutine that waits for a signal

ASSUME DataplaneAssumption ==
  /\ {Main, Select} \subseteq Callers \ Shutdowns
  /\ Main # Select
  /\ Sigterm \in Shutdowns
  /\ Listeners = {Select}
  /\ Startups = {}

VARIABLES
  main,        \* where Run is, then returning, cancelled, exited
  mode,        \* sidecar or dns-proxy
  status,      \* what Run returned: none, nil, or the reason of its error
  sel,         \* the select goroutine: off, wait, quit, kill, done
  cause,       \* the server whose exit the select goroutine handles
  xds,         \* the local xDS server: off, serving, failed, stopped
  metrics,     \* the metrics servers: off, serving, failed, stopped
  sig          \* the signal: none, pending in sigCh, handled

dpVars == <<main, mode, status, sel, cause, xds, metrics, sig>>

vars == <<proxyVars, lcVars, dpVars>>

(* The phases of Run that can fail and change nothing the others see. *)
Succ == [setup |-> "connect", params |-> "dns", dns |-> "bootstrap",
         bootstrap |-> "newProxy", newProxy |-> "runProxy"]

Phases == {"setup", "connect", "dnsOnly", "dnsWait", "xdsSetup", "params", "dns",
           "bootstrap", "newProxy", "runProxy", "running", "metrics", "newLifecycle",
           "startLifecycle", "spawnSelect", "wait", "returning", "cancelled", "exited"}

Servers == {"off", "serving", "failed", "stopped"}

DataplaneTypeOK ==
  /\ main \in Phases
  /\ mode \in {"sidecar", "dns-proxy"}
  /\ status \in {"none", "nil", "startup", "envoy", "xds", "metrics", "lifecycle"}
  /\ sel \in {"off", "wait", "quit", "kill", "done"}
  /\ cause \in {"none", "xds", "lifecycle"}
  /\ xds \in Servers
  /\ metrics \in Servers
  /\ sig \in {"none", "pending", "handled"}

Init ==
  /\ NewProxy
  /\ LifecycleInit
  /\ main = "setup"
  /\ mode \in {"sidecar", "dns-proxy"}
  /\ status = "none"
  /\ sel = "off"
  /\ cause = "none"
  /\ xds = "off"
  /\ metrics = "off"
  /\ sig = "none"

(* The Go program is there until main exits or a goroutine panics. *)
Alive == main # "exited" /\ panic = "no" /\ ~Panicked

-----------------------------------------------------------------------------
(* ConsulDataplane.Run, in order; a step that fails makes it return.        *)

Enter(phase) == main' = phase /\ UNCHANGED <<mode, status, sel, cause, sig>>
RunReturns(s) == main' = "returning" /\ status' = s

StartupFails ==
  /\ main \in DOMAIN Succ \cup {"connect", "dnsOnly", "xdsSetup", "metrics"}
  /\ RunReturns("startup")
  /\ UNCHANGED <<proxyVars, lcVars, mode, sel, cause, xds, metrics, sig>>

StartupAdvances ==
  /\ main \in DOMAIN Succ
  /\ Enter(Succ[main])
  /\ UNCHANGED <<proxyVars, lcVars, xds, metrics>>

(* watcher.State blocks until a server is found; it fails when ctx is done. *)
Connected ==
  /\ main = "connect"
  /\ Enter(IF mode = "dns-proxy" THEN "dnsOnly" ELSE "xdsSetup")
  /\ UNCHANGED <<proxyVars, lcVars, xds, metrics>>

(* dns-proxy mode: start the DNS server and wait for the context. *)
DNSProxyMode ==
  \/ /\ main = "dnsOnly"
     /\ Enter("dnsWait")
     /\ UNCHANGED <<proxyVars, lcVars, xds, metrics>>
  \/ /\ main = "dnsWait"
     /\ ctxDone
     /\ RunReturns("nil")
     /\ UNCHANGED <<proxyVars, lcVars, mode, sel, cause, xds, metrics, sig>>

SetupXDSServer ==
  /\ main = "xdsSetup"
  /\ xds' = "serving"
  /\ Enter("params")
  /\ UNCHANGED <<proxyVars, lcVars, metrics>>

RunProxy ==
  /\ main = "runProxy"
  /\ Begin(Main, "Run")
  /\ Enter("running")
  /\ UNCHANGED <<lcVars, xds, metrics>>

(* The error of proxy.Run is dropped. *)
MutantProxyRan ==
  /\ main = "running"
  /\ ~InCall(Main)
  /\ Enter("metrics")
  /\ UNCHANGED <<proxyVars, lcVars, xds, metrics>>

ProxyRan ==
  /\ main = "running"
  /\ ~InCall(Main)
  /\ IF call[Main].res = "ok"
     THEN Enter("metrics")
     ELSE RunReturns("startup") /\ UNCHANGED <<mode, sel, cause, sig>>
  /\ UNCHANGED <<proxyVars, lcVars, xds, metrics>>

(* startMetrics starts servers only under central configuration. *)
StartMetrics ==
  /\ main = "metrics"
  /\ metrics' \in {"off", "serving"}
  /\ Enter("newLifecycle")
  /\ UNCHANGED <<proxyVars, lcVars, xds>>

AssignLifecycle ==
  /\ main = "newLifecycle"
  /\ NewLifecycleConfig
  /\ Enter("startLifecycle")
  /\ UNCHANGED <<proxyVars, xds, metrics>>

StartLifecycle ==
  /\ main = "startLifecycle"
  /\ StartLifecycleManager
  /\ Enter("spawnSelect")
  /\ UNCHANGED <<proxyVars, xds, metrics>>

SpawnSelect ==
  /\ main = "spawnSelect"
  /\ main' = "wait"
  /\ sel' = "wait"
  /\ Listen(Select)
  /\ UNCHANGED <<lcVars, mode, status, cause, xds, metrics, sig>>

RunStep ==
  \/ StartupFails \/ StartupAdvances \/ Connected \/ DNSProxyMode \/ SetupXDSServer
  \/ RunProxy \/ ProxyRan \/ StartMetrics \/ AssignLifecycle \/ StartLifecycle \/ SpawnSelect

-----------------------------------------------------------------------------
(* The select: any one of the ready cases.  doneCh is unbuffered and main   *)
(* waits for it, so sending and returning are one step.                     *)

Done(s) == sel' = "done" /\ RunReturns(s) /\ UNCHANGED <<mode, cause, xds, metrics, sig>>

SelectCtxDone ==
  /\ sel = "wait"
  /\ ctxDone
  /\ Done("nil")
  /\ UNCHANGED <<proxyVars, lcVars>>

(* The error of the process is dropped. *)
MutantSelectProxyExited ==
  /\ sel = "wait"
  /\ Receive(Select)
  /\ Done("nil")
  /\ UNCHANGED lcVars

(* The error of the process is that of the value sent; a closed channel     *)
(* yields nil, but the select receives only once.                           *)
SelectProxyExited ==
  /\ sel = "wait"
  /\ Receive(Select)
  /\ Done(IF waitErr = "nil" THEN "nil" ELSE "envoy")
  /\ UNCHANGED lcVars

SelectMetricsExited ==
  /\ sel = "wait"
  /\ metrics = "failed"
  /\ Done("metrics")
  /\ UNCHANGED <<proxyVars, lcVars>>

(* The xDS or the lifecycle server exited: quit Envoy, kill it on error. *)
SelectServerExited(s) ==
  /\ sel = "wait"
  /\ IF s = "xds" THEN xds = "failed" ELSE lcExit = "closed"
  /\ sel' = "quit"
  /\ cause' = s
  /\ Begin(Select, "Quit")
  /\ UNCHANGED <<lcVars, main, mode, status, xds, metrics, sig>>

(* An error of Quit is only logged. *)
MutantSelectQuitReturned ==
  /\ sel = "quit"
  /\ ~InCall(Select)
  /\ Done(cause)
  /\ UNCHANGED <<proxyVars, lcVars>>

SelectQuitReturned ==
  /\ sel = "quit"
  /\ ~InCall(Select)
  /\ IF call[Select].res = "ok"
     THEN Done(cause) /\ UNCHANGED proxyVars
     ELSE /\ Begin(Select, "Kill")
          /\ sel' = "kill"
          /\ UNCHANGED <<main, mode, status, cause, xds, metrics, sig>>
  /\ UNCHANGED lcVars

SelectKillReturned ==
  /\ sel = "kill"
  /\ ~InCall(Select)
  /\ Done(cause)
  /\ UNCHANGED <<proxyVars, lcVars>>

SelectStep ==
  \/ SelectCtxDone \/ SelectProxyExited \/ SelectMetricsExited
  \/ \E s \in {"xds", "lifecycle"} : SelectServerExited(s)
  \/ SelectQuitReturned \/ SelectKillReturned

-----------------------------------------------------------------------------
(* The servers: they fail, or stop because the context is done.             *)

XdsFails == xds = "serving" /\ xds' = "failed" /\ UNCHANGED metrics
MetricsFail == metrics = "serving" /\ metrics' = "failed" /\ UNCHANGED xds
XdsStops == ctxDone /\ xds = "serving" /\ xds' = "stopped" /\ UNCHANGED metrics
MetricsStop == ctxDone /\ metrics = "serving" /\ metrics' = "stopped" /\ UNCHANGED xds

ServerStep ==
  /\ XdsFails \/ MetricsFail \/ XdsStops \/ MetricsStop
  /\ UNCHANGED <<proxyVars, lcVars, main, mode, status, sel, cause, sig>>

LifecycleServerStep ==
  /\ StartLifecycleServer \/ StopLifecycleServer
  /\ UNCHANGED <<proxyVars, dpVars>>

-----------------------------------------------------------------------------
(* Signals, main.                                                           *)

(* sigCh holds one signal, and its goroutine handles one signal only. *)
SignalArrives ==
  /\ sig = "none"
  /\ sig' = "pending"
  /\ UNCHANGED <<proxyVars, lcVars, main, mode, status, sel, cause, xds, metrics>>

(* GracefulShutdown: without a lifecycle manager, cancel the context. *)
GracefulShutdown ==
  /\ sig = "pending"
  /\ sig' = "handled"
  /\ IF lc = "nil"
     THEN /\ ctxDone' = TRUE
          /\ UNCHANGED <<state, proc, waitErr, waiter, call, listener, lcVars>>
     ELSE ShutdownBegin(Sigterm)
  /\ UNCHANGED <<main, mode, status, sel, cause, xds, metrics>>

(* The deferred watcher.Stop and cancel; then main returns or log.Fatal.    *)
(* The goroutine that would kill Envoy gets no time of its own.             *)
MainCancels ==
  /\ main = "returning"
  /\ main' = "cancelled"
  /\ ctxDone' = TRUE
  /\ UNCHANGED <<state, proc, waitErr, waiter, call, listener, lcVars>>
  /\ UNCHANGED <<mode, status, sel, cause, xds, metrics, sig>>

MainExits ==
  /\ main = "cancelled"
  /\ main' = "exited"
  /\ UNCHANGED <<proxyVars, lcVars, mode, status, sel, cause, xds, metrics, sig>>

MainStep == MainCancels \/ MainExits

-----------------------------------------------------------------------------

(* Envoy is in its own process group and outlives the program. *)
EnvoyStep == (ProcStops \/ ProcCrash) /\ UNCHANGED <<lcVars, dpVars>>

GoStep ==
  \/ RunStep \/ SelectStep \/ ServerStep \/ LifecycleServerStep
  \/ GracefulShutdown \/ MainStep
  \/ (\E c \in Callers : CallStep(c)) /\ UNCHANGED <<lcVars, dpVars>>
  \/ (WaiterStep \/ CtxKill) /\ UNCHANGED <<lcVars, dpVars>>
  \/ (\E g \in Shutdowns : ShutdownStep(g)) /\ UNCHANGED dpVars
  \/ (\E t \in Shutdowns : TimerFires(t)) /\ UNCHANGED <<proxyVars, dpVars>>
  \/ (\E g \in Shutdowns \ {Sigterm} : GracefulShutdownHandler(g)) /\ UNCHANGED dpVars

Next ==
  \/ Alive /\ (GoStep \/ SignalArrives)
  \/ EnvoyStep
  \/ ~Alive /\ UNCHANGED vars

Spec == Init /\ [][Next]_vars

(* Goroutines that can run do run, timers fire, requests to Envoy's admin   *)
(* API end, and Envoy exits once it was told to.  A dataplane that finds no *)
(* Consul server may wait for one for ever.                                 *)
Fairness ==
  /\ WF_vars(Alive /\ RunStep /\ (main # "connect" \/ ctxDone))
  /\ WF_vars(Alive /\ SelectStep)
  /\ WF_vars(Alive /\ MainStep)
  /\ WF_vars(Alive /\ GracefulShutdown)
  /\ WF_vars(Alive /\ WaiterStep /\ UNCHANGED <<lcVars, dpVars>>)
  /\ WF_vars(Alive /\ CtxKill /\ UNCHANGED <<lcVars, dpVars>>)
  /\ WF_vars(ProcStops /\ UNCHANGED <<lcVars, dpVars>>)
  /\ \A c \in Callers : WF_vars(Alive /\ CallStep(c) /\ UNCHANGED <<lcVars, dpVars>>)
  /\ \A g \in Shutdowns : WF_vars(Alive /\ ShutdownStep(g) /\ UNCHANGED dpVars)
  /\ \A t \in Shutdowns :
       WF_vars(Alive /\ TimerFires(t) /\ UNCHANGED <<proxyVars, dpVars>>)

FairSpec == Spec /\ Fairness

-----------------------------------------------------------------------------
(* Properties.                                                              *)

(* What Run has started, and in which order: Envoy only after the xDS       *)
(* server it will connect to, the lifecycle manager only for an Envoy that  *)
(* was started, the select only once all of it is there; nothing of this in *)
(* dns-proxy mode.                                                          *)
DataplaneInv ==
  /\ ProxyTypeOK /\ LifecycleTypeOK /\ DataplaneTypeOK
  /\ InCall(Main) => main = "running"
  /\ state # "Initial" => xds # "off"
  /\ lc # "nil" => proc # "none"
  /\ lcServer # "off" => lc \in {"started", "stopped"}
  /\ sel # "off" => lc \in {"started", "stopped"}
  /\ sel = "off" => ~InCall(Select)
  /\ mode = "dns-proxy" => xds = "off" /\ metrics = "off" /\ state = "Initial"
  /\ \A c \in Callers \ {Main} : InCall(c) => proc # "none"

(* Envoy is asked to quit, or killed, only after a graceful shutdown waited *)
(* out its grace period, or because a server of the dataplane failed, or    *)
(* because the context was cancelled: an error while dumping the config or  *)
(* draining never cuts the grace period short.                              *)
GraceHonoured ==
  proc \in {"quitting", "killed"} =>
    \/ \E g \in Shutdowns : timer[g] = "fired"
    \/ xds = "failed" \/ lcServer = "failed"
    \/ ctxDone

(* When Run gives up because the xDS or the lifecycle server exited, and no *)
(* graceful shutdown had got as far as quitting Envoy, Envoy is on its way  *)
(* out when the program ends: Quit reached it, or Kill did.                 *)
ServerExitStopsEnvoy ==
  /\ status \in {"xds", "lifecycle"}
  /\ \A g \in Shutdowns : shutdown[g] \notin {"quit", "done"}
  => proc \in {"quitting", "killed", "dead"}

(* errorExitCh is closed at most once, although two goroutines close it, and *)
(* Kill is never called on a command that was not started: the only panic   *)
(* left is the one of a logger that is not there yet.                       *)
NoOtherPanic == panic \in {"no", "logger"} /\ ~Panicked

(* The exit status tells the truth: 0 means that Envoy left with status 0   *)
(* or that a signal cancelled the context; anything else that something     *)
(* failed, or that the context was cancelled under Envoy.                   *)
StatusTruthful ==
  /\ status = "nil" => (proc = "dead" /\ waitErr = "nil") \/ (sig = "handled" /\ ctxDone)
  /\ status = "envoy" => proc = "dead" /\ waitErr = "err"
  /\ status = "lifecycle" => lcServer \in {"failed", "closed"}

(* Once Envoy is gone, or the context is done, the program ends, whichever  *)
(* way Envoy went and whatever state Drain and Quit left the proxy in.      *)
ExitsWithEnvoy == (proc = "dead" \/ (ctxDone /\ main # "exited")) ~> ~Alive

-----------------------------------------------------------------------------
(* What comments of the source say and the code does not do.                *)

(* "If proxy lifecycle manager has not been initialized, cancel parent      *)
(* context and proceed to exit rather than attempting graceful shutdown"    *)
(* (consul_dataplane.go:351-352): a signal never meets a half made manager. *)
ManagerInitialised == panic # "logger"

(* "The caller is responsible for terminating the Envoy process"            *)
(* (proxy.go:141): when the program, its only caller, ends, Envoy has been  *)
(* told to end or is gone.                                                  *)
NoOrphan == main = "exited" => proc # "up"

(* "ShutdownGracePeriodSeconds is the amount of time to wait after          *)
(* receiving a SIGTERM before terminating the proxy container."             *)
(* (config.go:305): a SIGTERM that was received ends the program.           *)
SigtermTerminates == sig = "handled" ~> ~Alive
=============================================================================
