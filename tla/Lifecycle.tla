----------------------------- MODULE Lifecycle ------------------------------
(***************************************************************************)
(* lifecycleConfig (pkg/consuldp/lifecycle.go): the HTTP server that lets  *)
(* an orchestrator ask for a graceful shutdown of Envoy and wait for its   *)
(* start, and the graceful shutdown itself, which SIGTERM also runs.  It   *)
(* drives the Proxy it EXTENDS; each of its goroutines is one of Callers.  *)
(***************************************************************************)
EXTENDS Proxy

CONSTANTS
  Shutdowns,   \* goroutines that run gracefulShutdown
  Startups,    \* goroutines that poll Ready for a graceful_startup request
  Flags        \* the lifecycle features switched on: dump, drain, startup

ASSUME LifecycleAssumption ==
  /\ Shutdowns \subseteq Callers
  /\ Startups \subseteq Callers \ Shutdowns
  /\ Flags \subseteq {"dump", "drain", "startup"}

VARIABLES
  lc,          \* nil; new: no logger yet; started: running; stopped
  lcServer,    \* lifecycleServer: off, starting, serving, failed, closed
  lcExit,      \* errorExitCh: open or closed
  shutdown,    \* per goroutine of gracefulShutdown: where it is
  timer,       \* per caller: the grace period, off, armed or fired
  startup,     \* per graceful_startup request: where it is
  panic        \* what ended the program early, if anything did

lcVars == <<lc, lcServer, lcExit, shutdown, timer, startup, panic>>

LifecycleTypeOK ==
  /\ lc \in {"nil", "new", "started", "stopped"}
  /\ lcServer \in {"off", "starting", "serving", "failed", "closed"}
  /\ lcExit \in {"open", "closed"}
  /\ shutdown \in [Shutdowns -> {"idle", "dump", "drain", "grace", "quit", "done"}]
  /\ timer \in [Shutdowns \cup Startups -> {"off", "armed", "fired"}]
  /\ startup \in [Startups -> {"idle", "poll", "ready", "replied"}]
  /\ panic \in {"no", "logger", "close"}

LifecycleInit ==
  /\ lc = "nil"
  /\ lcServer = "off"
  /\ lcExit = "open"
  /\ shutdown = [g \in Shutdowns |-> "idle"]
  /\ timer = [t \in Shutdowns \cup Startups |-> "off"]
  /\ startup = [r \in Startups |-> "idle"]
  /\ panic = "no"

-----------------------------------------------------------------------------
(* The server.                                                              *)

NewLifecycleConfig ==
  /\ lc = "nil"
  /\ lc' = "new"
  /\ UNCHANGED <<lcServer, lcExit, shutdown, timer, startup, panic>>

(* One critical section of mu; a manager that is running is left alone. *)
StartLifecycleManager ==
  /\ lc = "new"
  /\ lc' = "started"
  /\ lcServer' = "starting"
  /\ UNCHANGED <<lcExit, shutdown, timer, startup, panic>>

(* Closing a closed channel panics. *)
CloseErrorExit ==
  IF lcExit = "open"
  THEN lcExit' = "closed" /\ UNCHANGED panic
  ELSE panic' = "close" /\ UNCHANGED lcExit

(* ErrServerClosed is taken for a failure. *)
MutantStartLifecycleServer ==
  \/ /\ lcServer = "starting"
     /\ lcServer' = "serving"
     /\ UNCHANGED <<lc, lcExit, shutdown, timer, startup, panic>>
  \/ /\ lcServer \in {"starting", "serving", "closed"}
     /\ lcServer' = "failed"
     /\ CloseErrorExit
     /\ UNCHANGED <<lc, shutdown, timer, startup>>

(* ListenAndServe: it listens, or returns an error at once or later.  When  *)
(* Close came first it returns ErrServerClosed, which is not an error.      *)
StartLifecycleServer ==
  \/ /\ lcServer = "starting"
     /\ lcServer' = "serving"
     /\ UNCHANGED <<lc, lcExit, shutdown, timer, startup, panic>>
  \/ /\ lcServer \in {"starting", "serving"}
     /\ lcServer' = "failed"
     /\ CloseErrorExit
     /\ UNCHANGED <<lc, shutdown, timer, startup>>

(* Close has a listener to close, and can fail, only while serving. *)
StopLifecycleServer ==
  /\ ctxDone
  /\ lc = "started"
  /\ lc' = "stopped"
  /\ lcServer' = IF lcServer = "failed" THEN "failed" ELSE "closed"
  /\ \/ UNCHANGED <<lcExit, panic>>
     \/ lcServer = "serving" /\ CloseErrorExit
  /\ UNCHANGED <<shutdown, timer, startup>>

-----------------------------------------------------------------------------
(* gracefulShutdown.  The grace period runs from its first step; errors of  *)
(* DumpConfig, Drain and Quit are logged and nothing else.                  *)

(* The result of a call is logged, and that is all. *)
Forget(g) ==
  /\ call' = [call EXCEPT ![g] = NoCall]
  /\ UNCHANGED <<state, proc, waitErr, waiter, ctxDone, listener>>

(* The first statement uses the logger startLifecycleManager installs. *)
ShutdownBegin(g) ==
  /\ shutdown[g] = "idle"
  /\ IF lc = "new"
     THEN panic' = "logger" /\ UNCHANGED <<shutdown, timer, proxyVars>>
     ELSE /\ timer' = [timer EXCEPT ![g] = "armed"]
          /\ shutdown' = [shutdown EXCEPT ![g] = "dump"]
          /\ IF "dump" \in Flags THEN Begin(g, "DumpConfig") ELSE UNCHANGED proxyVars
          /\ UNCHANGED panic
  /\ UNCHANGED <<lc, lcServer, lcExit, startup>>

(* Back from DumpConfig, or it was not asked for. *)
ShutdownDrain(g) ==
  /\ shutdown[g] = "dump"
  /\ ~InCall(g)
  /\ IF "drain" \in Flags
     THEN Begin(g, "Drain") /\ shutdown' = [shutdown EXCEPT ![g] = "drain"]
     ELSE Forget(g) /\ shutdown' = [shutdown EXCEPT ![g] = "grace"]
  /\ UNCHANGED <<lc, lcServer, lcExit, timer, startup, panic>>

(* An error of Drain closes errorExitCh. *)
MutantShutdownDrained(g) ==
  /\ shutdown[g] = "drain"
  /\ ~InCall(g)
  /\ shutdown' = [shutdown EXCEPT ![g] = "grace"]
  /\ lcExit' = IF call[g].res = "err" THEN "closed" ELSE lcExit
  /\ Forget(g)
  /\ UNCHANGED <<lc, lcServer, timer, startup, panic>>

(* An error of Drain ends the goroutine. *)
MutantShutdownAborts(g) ==
  /\ shutdown[g] = "drain"
  /\ call[g].pc = "done" /\ call[g].res = "ok"
  /\ shutdown' = [shutdown EXCEPT ![g] = "grace"]
  /\ Forget(g)
  /\ UNCHANGED <<lc, lcServer, lcExit, timer, startup, panic>>

ShutdownDrained(g) ==
  /\ shutdown[g] = "drain"
  /\ ~InCall(g)
  /\ shutdown' = [shutdown EXCEPT ![g] = "grace"]
  /\ Forget(g)
  /\ UNCHANGED <<lc, lcServer, lcExit, timer, startup, panic>>

ShutdownQuit(g) ==
  /\ shutdown[g] = "grace"
  /\ timer[g] = "fired"
  /\ Begin(g, "Quit")
  /\ shutdown' = [shutdown EXCEPT ![g] = "quit"]
  /\ UNCHANGED <<lc, lcServer, lcExit, timer, startup, panic>>

ShutdownReturn(g) ==
  /\ shutdown[g] = "quit"
  /\ ~InCall(g)
  /\ shutdown' = [shutdown EXCEPT ![g] = "done"]
  /\ Forget(g)
  /\ UNCHANGED <<lc, lcServer, lcExit, timer, startup, panic>>

(* gracefulShutdownHandler answers at once and leaves a goroutine behind. *)
GracefulShutdownHandler(g) == lcServer = "serving" /\ ShutdownBegin(g)

TimerFires(t) ==
  /\ timer[t] = "armed"
  /\ timer' = [timer EXCEPT ![t] = "fired"]
  /\ UNCHANGED <<lc, lcServer, lcExit, shutdown, startup, panic>>

ShutdownStep(g) ==
  ShutdownDrain(g) \/ ShutdownDrained(g) \/ ShutdownQuit(g) \/ ShutdownReturn(g)

-----------------------------------------------------------------------------
(* gracefulStartup: a goroutine polls Ready until it is told yes or the     *)
(* period ends, and the handler answers 200 in either case.                 *)

StartupBegin(r) ==
  /\ lcServer = "serving"
  /\ startup[r] = "idle"
  /\ IF "startup" \in Flags
     THEN /\ startup' = [startup EXCEPT ![r] = "poll"]
          /\ timer' = [timer EXCEPT ![r] = "armed"]
          /\ Begin(r, "Ready")
     ELSE /\ startup' = [startup EXCEPT ![r] = "replied"]
          /\ UNCHANGED <<timer, proxyVars>>
  /\ UNCHANGED <<lc, lcServer, lcExit, shutdown, panic>>

(* No error is taken for ready. *)
MutantStartupPoll(r) ==
  /\ startup[r] = "poll"
  /\ call[r].pc = "done"
  /\ IF call[r].res # "err"
     THEN startup' = [startup EXCEPT ![r] = "ready"] /\ UNCHANGED proxyVars
     ELSE timer[r] = "armed" /\ Begin(r, "Ready") /\ UNCHANGED startup
  /\ UNCHANGED <<lc, lcServer, lcExit, shutdown, timer, panic>>

(* The loop tests the context before it asks again. *)
StartupPoll(r) ==
  /\ startup[r] = "poll"
  /\ call[r].pc = "done"
  /\ IF call[r].res = "ok"
     THEN startup' = [startup EXCEPT ![r] = "ready"] /\ UNCHANGED proxyVars
     ELSE timer[r] = "armed" /\ Begin(r, "Ready") /\ UNCHANGED startup
  /\ UNCHANGED <<lc, lcServer, lcExit, shutdown, timer, panic>>

(* The handler waits for Envoy, not for the context. *)
MutantStartupReply(r) ==
  /\ startup[r] = "ready"
  /\ startup' = [startup EXCEPT ![r] = "replied"]
  /\ UNCHANGED <<proxyVars, lc, lcServer, lcExit, shutdown, timer, panic>>

StartupReply(r) ==
  /\ startup[r] = "ready" \/ (startup[r] = "poll" /\ timer[r] = "fired")
  /\ startup' = [startup EXCEPT ![r] = "replied"]
  /\ UNCHANGED <<proxyVars, lc, lcServer, lcExit, shutdown, timer, panic>>

StartupStep(r) == StartupPoll(r) \/ StartupReply(r)

-----------------------------------------------------------------------------
(* The lifecycle manager by itself, over a proxy that has just been run.    *)

ManagerInit ==
  /\ state = "Running" /\ proc = "up" /\ waitErr = "nil" /\ waiter = "wait" /\ ctxDone = FALSE
  /\ call = [c \in Callers |-> NoCall]
  /\ listener = [l \in Listeners |-> "idle"]
  /\ lc = "started" /\ lcServer = "starting" /\ lcExit = "open" /\ panic = "no"
  /\ shutdown = [g \in Shutdowns |-> "idle"]
  /\ timer = [t \in Shutdowns \cup Startups |-> "off"]
  /\ startup = [r \in Startups |-> "idle"]

managerVars == <<proxyVars, lcVars>>

ManagerNext ==
  \/ (ProxyStep \/ CtxCancel) /\ UNCHANGED lcVars
  \/ (StartLifecycleServer \/ StopLifecycleServer) /\ UNCHANGED proxyVars
  \/ (\E t \in Shutdowns \cup Startups : TimerFires(t)) /\ UNCHANGED proxyVars
  \/ \E g \in Shutdowns : GracefulShutdownHandler(g) \/ ShutdownStep(g)
  \/ \E r \in Startups : StartupBegin(r) \/ StartupStep(r)

(* Goroutines run, timers fire, requests to the admin API end. *)
ManagerSpec ==
  /\ ManagerInit
  /\ [][ManagerNext]_managerVars
  /\ \A c \in Callers : WF_managerVars(CallStep(c) /\ UNCHANGED lcVars)
  /\ \A g \in Shutdowns : WF_managerVars(ShutdownStep(g))
  /\ \A r \in Startups : WF_managerVars(StartupPoll(r)) /\ WF_managerVars(StartupReply(r))
  /\ \A t \in Shutdowns \cup Startups : WF_managerVars(TimerFires(t) /\ UNCHANGED proxyVars)

(* graceful_startup is answered before its period is over only when Envoy   *)
(* said that it was ready: the application is not let loose early, also     *)
(* when Envoy is being drained or is dead and Ready answers without asking. *)
StartupGate ==
  \A r \in Startups : startup[r] = "replied" =>
    timer[r] = "fired" \/ call[r].res = "ok" \/ "startup" \notin Flags

(* A graceful_startup request is answered, ready or not. *)
StartupAnswered ==
  \A r \in Startups : startup[r] # "idle" ~> startup[r] = "replied"

(* A graceful shutdown that has begun comes to an end, with Quit called     *)
(* after the grace period, even if Envoy answers none of its requests.      *)
ShutdownCompletes ==
  \A g \in Shutdowns : shutdown[g] # "idle" ~> shutdown[g] = "done"
=============================================================================
