--------------------------- MODULE DataplaneProofs ---------------------------
(***************************************************************************)
(* Theorems about ConsulDataplane.Run in the whole process, for any        *)
(* goroutines that run gracefulShutdown and any switches: the parts are    *)
(* started in order, the exit status says what happened, and the exit of a *)
(* server ends Envoy.                                                      *)
(***************************************************************************)
EXTENDS LifecycleProofs

(* There is no arithmetic here: Zenon is the prover where a leaf names none. *)
USE Zenon

(* What Run has started, what its exit status says, and what becomes of     *)
(* Envoy when a server of the dataplane fails.                              *)

(* The phases of Run that follow setupXDSServer. *)
Sidecar == {"params", "dns", "bootstrap", "newProxy", "runProxy", "running", "wait"} \cup Late

TypesInv == LifecycleTypeOK /\ DataplaneTypeOK

(* What is there in which phase.  A phase is left for good, so that what    *)
(* an earlier one started is there in the later ones.                       *)
PhaseInv ==
  /\ main \in Sidecar => xds # "off"
  /\ state # "Initial" => xds # "off"
  /\ mode = "dns-proxy" => main \notin Sidecar \cup {"xdsSetup"} /\ xds = "off" /\ metrics = "off"
  /\ lc # "nil" => proc # "none"
  /\ main = "spawnSelect" \/ sel # "off" => lc \in {"started", "stopped"}
  /\ sel \in {"wait", "quit", "kill"} => main = "wait"
  /\ sel = "done" => main \in {"returning", "cancelled", "exited"}
  /\ \A g \in Shutdowns : shutdown[g] # "idle" => lc # "nil"

(* Who is inside which method of the proxy. *)
RolesInv ==
  /\ \A c \in Callers : InCall(c) =>
       \/ c = Main /\ call[c].op = "Run" /\ main = "running"
       \/ c \in Shutdowns /\ call[c].op = "DumpConfig" /\ shutdown[c] = "dump"
       \/ c \in Shutdowns /\ call[c].op = "Drain" /\ shutdown[c] = "drain"
       \/ c \in Shutdowns /\ call[c].op = "Quit" /\ shutdown[c] = "quit"
       \/ c = Select /\ sel \in {"quit", "kill"}
  /\ sel = "quit" => call[Select].op = "Quit" /\ call[Select].pc # "idle"
  /\ sel = "kill" => call[Select].op = "Kill" /\ call[Select].pc # "idle"

(* Why the context is done, and what stands behind the value Run returns.   *)
StatusInv ==
  /\ ctxDone => sig = "handled" \/ main \in {"cancelled", "exited"}
  /\ sel \in {"quit", "kill"} => cause # "none"
  /\ cause = "lifecycle" \/ status = "lifecycle" => lcServer \in {"failed", "closed"}
  /\ status = "nil" => \/ waiter \in {"close", "closed"} /\ waitErr = "nil"
                       \/ sig = "handled" /\ ctxDone
  /\ status = "envoy" => waiter \in {"close", "closed"} /\ waitErr = "err"

(* A graceful shutdown has called Quit; Envoy is on its way out. *)
Quitting == \E g \in Shutdowns : shutdown[g] \in {"quit", "done"}

(* The state is Stopped because a graceful shutdown, or the select itself,  *)
(* called Quit: when it was the select, Envoy has not been spared.          *)
EndInv ==
  /\ state = "Stopped" =>
       \/ Quitting
       \/ sel = "quit" /\ call[Select].pc \in {"http", "done"}
       \/ sel \in {"kill", "done"}
  /\ sel = "quit" /\ call[Select].pc = "done" /\ call[Select].res = "ok" => Quitting \/ Ending
  /\ sel = "kill" /\ call[Select].pc = "done" => Ending
  /\ status \in {"xds", "lifecycle"} => Quitting \/ Ending

RunInv == TypesInv /\ PhaseInv /\ RolesInv /\ StatusInv /\ EndInv

(* Nothing has been started when New returns. *)
LEMMA RunInvInit == Init => RunInv
<1> SUFFICES ASSUME Init PROVE RunInv
  OBVIOUS
<1> USE DEF Init, NewProxy, LifecycleInit
<1>1. TypesInv
  BY DEF TypesInv, LifecycleTypeOK, DataplaneTypeOK, Phases, Servers
<1>2. PhaseInv /\ StatusInv
  BY DEF PhaseInv, StatusInv, Sidecar, Late
<1>3. RolesInv /\ EndInv
  BY DEF RolesInv, EndInv, InCall, NoCall
<1>4. QED
  BY <1>1, <1>2, <1>3 DEF RunInv

ProgramInv == ProxyInv /\ GraceInv /\ RunInv

(* The steps of Run that start nothing the proxy or the manager sees. *)
LEMMA RunFrame ==
  ASSUME ProgramInv, UNCHANGED <<proxyVars, lcVars, mode, sel, cause, sig>>,
         main \notin {"wait", "cancelled", "exited", "returning"}, ~InCall(Main),
         main' \in Phases \ {"spawnSelect", "wait", "cancelled", "exited"},
         xds' \in Servers, xds # "off" => xds' # "off",
         metrics' \in Servers,
         main' \in Sidecar => xds' # "off",
         mode = "dns-proxy" => /\ main' \notin Sidecar \cup {"xdsSetup"}
                               /\ UNCHANGED <<xds, metrics>>,
         \/ UNCHANGED status
         \/ status' = "startup"
         \/ status' = "nil" /\ sig = "handled" /\ ctxDone
  PROVE  RunInv'
<1> USE DEF ProgramInv, RunInv, proxyVars, lcVars
<1>1. TypesInv'
  BY SMT DEF TypesInv, LifecycleTypeOK, DataplaneTypeOK
<1>2. PhaseInv'
  BY DEF PhaseInv
<1>3. RolesInv'
  BY DEF RolesInv, InCall
<1>4. StatusInv'
  BY DEF StatusInv
<1>5. EndInv'
  BY DEF EndInv, Quitting, Ending
<1>6. QED
  BY <1>1, <1>2, <1>3, <1>4, <1>5

(* ConsulDataplane.Run. *)
LEMMA RunStepKeeps ==
  ASSUME ProgramInv, RunStep
  PROVE  RunInv'
<1>0. TypesInv /\ PhaseInv /\ RolesInv /\ StatusInv
  BY DEF ProgramInv, RunInv
<1>1. InCall(Main) => main = "running"
  BY <1>0, DataplaneAssumption DEF RolesInv
<1>2. CASE StartupFails
  BY <1>0, <1>1, <1>2, RunFrame DEF StartupFails, RunReturns, Succ, TypesInv, DataplaneTypeOK, PhaseInv,
     Phases, Sidecar, Late
<1>3. CASE StartupAdvances
  <2>1. main' \in {"connect", "dns", "bootstrap", "newProxy", "runProxy"} /\ (main' = "connect" <=> main = "setup")
    BY <1>3, SMT DEF StartupAdvances, Enter, Succ
  <2>2. main \in {"setup", "params", "dns", "bootstrap", "newProxy"}
    BY <1>3 DEF StartupAdvances, Succ
  <2>3. UNCHANGED <<proxyVars, lcVars, mode, sel, cause, sig, status, xds, metrics>>
    BY <1>3 DEF StartupAdvances, Enter
  <2>4. QED
    BY <1>0, <1>1, <2>1, <2>2, <2>3, RunFrame DEF TypesInv, DataplaneTypeOK, PhaseInv, Phases, Sidecar, Late
<1>4. CASE Connected
  BY <1>0, <1>1, <1>4, RunFrame DEF Connected, Enter, TypesInv, DataplaneTypeOK, PhaseInv, Phases, Sidecar, Late
<1>5. CASE DNSProxyMode
  BY <1>0, <1>1, <1>5, RunFrame DEF DNSProxyMode, Enter, RunReturns, TypesInv, DataplaneTypeOK, PhaseInv,
     StatusInv, Phases, Sidecar, Late
<1>6. CASE SetupXDSServer
  BY <1>0, <1>1, <1>6, RunFrame DEF SetupXDSServer, Enter, TypesInv, DataplaneTypeOK, PhaseInv, Phases,
     Servers, Sidecar, Late
<1>7. CASE ProxyRan
  BY <1>0, <1>7, RunFrame DEF ProxyRan, Enter, RunReturns, TypesInv, DataplaneTypeOK, PhaseInv, Phases,
     Sidecar, Late
<1>8. CASE StartMetrics
  BY <1>0, <1>1, <1>8, RunFrame DEF StartMetrics, Enter, TypesInv, DataplaneTypeOK, PhaseInv, Phases,
     Servers, Sidecar, Late
<1> USE DEF ProgramInv, RunInv
<1>9. CASE RunProxy
  <2>1. /\ Begin(Main, "Run") /\ main = "runProxy" /\ main' = "running"
        /\ UNCHANGED <<lcVars, mode, status, sel, cause, xds, metrics, sig>>
    BY <1>9 DEF RunProxy, Enter
  <2>2. UNCHANGED <<state, proc, waitErr, waiter, ctxDone, listener>>
    BY <2>1 DEF Begin
  <2>3. /\ call'[Main].op = "Run"
        /\ \A d \in Callers \ {Main} : call'[d] = call[d]
    BY <2>1, BeginEffect, DataplaneAssumption DEF Ops, GraceInv
  <2>4. TypesInv' /\ PhaseInv' /\ StatusInv'
    BY <2>1, <2>2, SMT DEF TypesInv, LifecycleTypeOK, DataplaneTypeOK, Phases, PhaseInv, StatusInv, Sidecar, Late, lcVars
  <2>5. RolesInv' /\ EndInv'
    BY <2>1, <2>2, <2>3, DataplaneAssumption DEF RolesInv, EndInv, Quitting, Ending, InCall, lcVars
  <2>6. QED
    BY <2>4, <2>5
<1>10. CASE AssignLifecycle \/ StartLifecycle
  <2>1. UNCHANGED <<proxyVars, mode, status, sel, cause, xds, metrics, sig, lcExit, shutdown, timer, startup, panic>>
    BY <1>10 DEF AssignLifecycle, NewLifecycleConfig, StartLifecycle, StartLifecycleManager, Enter
  <2>2. \/ main = "newLifecycle" /\ main' = "startLifecycle" /\ lc = "nil" /\ lc' = "new" /\ UNCHANGED lcServer
        \/ /\ main = "startLifecycle" /\ main' = "spawnSelect" /\ lc = "new" /\ lc' = "started"
           /\ lcServer' = "starting"
    BY <1>10 DEF AssignLifecycle, NewLifecycleConfig, StartLifecycle, StartLifecycleManager, Enter
  <2>3. proc # "none" /\ lcServer = "off"
    BY <2>2 DEF GraceInv, ProcessThere, ServersInv, Late
  <2>4. TypesInv'
    BY <2>1, <2>2, SMT DEF TypesInv, LifecycleTypeOK, DataplaneTypeOK, Phases
  <2>5. PhaseInv'
    BY <2>1, <2>2, <2>3 DEF PhaseInv, Sidecar, Late, proxyVars
  <2>6. StatusInv'
    BY <2>1, <2>2, <2>3 DEF StatusInv, proxyVars
  <2>7. RolesInv' /\ EndInv'
    BY <1>1, <2>1, <2>2 DEF RolesInv, EndInv, Quitting, Ending, InCall, proxyVars
  <2>8. QED
    BY <2>4, <2>5, <2>6, <2>7
<1>11. CASE SpawnSelect
  <2>1. /\ main = "spawnSelect" /\ main' = "wait" /\ sel' = "wait"
        /\ UNCHANGED <<lcVars, mode, status, cause, xds, metrics, sig>>
        /\ UNCHANGED <<state, proc, waitErr, waiter, call, ctxDone>>
    BY <1>11 DEF SpawnSelect, Listen
  <2>2. sel = "off"
    BY <2>1 DEF PhaseInv, TypesInv, DataplaneTypeOK
  <2>3. TypesInv' /\ PhaseInv' /\ StatusInv'
    BY <2>1, SMT DEF TypesInv, LifecycleTypeOK, DataplaneTypeOK, Phases, PhaseInv, StatusInv, Sidecar, Late, lcVars
  <2>4. RolesInv' /\ EndInv'
    BY <1>1, <2>1, <2>2 DEF RolesInv, EndInv, Quitting, Ending, InCall, lcVars
  <2>5. QED
    BY <2>3, <2>4
<1>12. QED
  BY <1>2, <1>3, <1>4, <1>5, <1>6, <1>7, <1>8, <1>9, <1>10, <1>11 DEF RunStep

(* The goroutine of the select. *)
LEMMA SelectStepKeeps ==
  ASSUME ProgramInv, SelectStep
  PROVE  RunInv'
<1> USE DEF ProgramInv, RunInv
<1>1. UNCHANGED <<lcVars, mode, xds, metrics, sig, state, proc, waitErr, ctxDone>>
  BY DEF SelectStep, SelectCtxDone, SelectProxyExited, SelectMetricsExited, SelectServerExited,
     SelectQuitReturned, SelectKillReturned, Receive, Begin, Done, proxyVars
<1>2. main = "wait" /\ sel # "off" /\ lc \in {"started", "stopped"}
  BY DEF SelectStep, SelectCtxDone, SelectProxyExited, SelectMetricsExited, SelectServerExited,
     SelectQuitReturned, SelectKillReturned, PhaseInv
<1>3. ASSUME sel' = "done", main' = "returning", UNCHANGED <<call, cause>>,
             waiter' = waiter \/ waiter' \in {"close", "closed"}, ~InCall(Select),
             \/ status' = "nil" /\ sig = "handled" /\ ctxDone
             \/ status' = "nil" /\ waiter' \in {"close", "closed"} /\ waitErr = "nil"
             \/ status' = "envoy" /\ waiter' \in {"close", "closed"} /\ waitErr = "err"
             \/ status' = "metrics"
             \/ status' = cause /\ cause # "none" /\ (Quitting \/ Ending)
      PROVE  RunInv'
  <2>1. TypesInv'
    BY <1>1, <1>3, SMT DEF TypesInv, LifecycleTypeOK, DataplaneTypeOK, Phases, lcVars
  <2>2. PhaseInv'
    BY <1>1, <1>2, <1>3 DEF PhaseInv, Sidecar, Late, lcVars
  <2>3. RolesInv'
    BY <1>1, <1>2, <1>3 DEF RolesInv, InCall, lcVars
  <2>4. StatusInv'
    BY <1>1, <1>2, <1>3 DEF StatusInv, TypesInv, DataplaneTypeOK, lcVars
  <2>5. EndInv'
    BY <1>1, <1>3 DEF EndInv, Quitting, Ending, TypesInv, DataplaneTypeOK, lcVars
  <2>6. QED
    BY <2>1, <2>2, <2>3, <2>4, <2>5
<1>4. ~InCall(Select) \/ sel \in {"quit", "kill"}
  BY DataplaneAssumption DEF RolesInv
<1>5. CASE SelectCtxDone
  BY <1>2, <1>3, <1>4, <1>5 DEF SelectCtxDone, Done, RunReturns, StatusInv, proxyVars
<1>6. CASE SelectProxyExited
  <2>1. waiter' \in {"close", "closed"} /\ UNCHANGED call
    BY <1>6 DEF SelectProxyExited, Receive
  <2>2. waitErr \in {"nil", "err"}
    BY DEF ProxyInv, ProxyTypeOK
  <2>3. QED
    BY <1>3, <1>4, <1>6, <2>1, <2>2 DEF SelectProxyExited, Done, RunReturns
<1>7. CASE SelectMetricsExited
  BY <1>3, <1>4, <1>7 DEF SelectMetricsExited, Done, RunReturns, proxyVars
<1>8. CASE SelectKillReturned
  <2>1. call[Select].pc = "done"
    BY <1>8 DEF SelectKillReturned, RolesInv, InCall
  <2>2. QED
    BY <1>3, <1>8, <2>1 DEF SelectKillReturned, Done, RunReturns, EndInv, StatusInv, proxyVars
<1>9. CASE SelectQuitReturned /\ call[Select].res = "ok"
  <2>1. call[Select].pc = "done"
    BY <1>9 DEF SelectQuitReturned, RolesInv, InCall
  <2>2. QED
    BY <1>3, <1>9, <2>1 DEF SelectQuitReturned, Done, RunReturns, EndInv, StatusInv, proxyVars
<1>10. ASSUME NEW op \in {"Quit", "Kill"}, Begin(Select, op),
              op = "Quit" => sel = "wait" /\ sel' = "quit",
              op = "Kill" => sel = "quit" /\ sel' = "kill" /\ call[Select].pc = "done",
              cause' \in {"xds", "lifecycle"},
              cause' = "lifecycle" => lcServer \in {"failed", "closed"},
              UNCHANGED <<main, status, waiter>>
       PROVE  RunInv'
  <2>1. /\ call'[Select].op = op
        /\ \A d \in Callers \ {Select} : call'[d] = call[d]
    BY <1>10, BeginEffect, DataplaneAssumption DEF Ops, GraceInv
  <2>2. call'[Select].pc = "begin"
    BY <1>10, DataplaneAssumption DEF Begin, GraceInv, CallTypes, Call
  <2>3. TypesInv'
    BY <1>1, <1>10, SMT DEF TypesInv, LifecycleTypeOK, DataplaneTypeOK, lcVars
  <2>4. PhaseInv'
    BY <1>1, <1>2, <1>10 DEF PhaseInv, lcVars
  <2>5. RolesInv'
    BY <1>1, <1>2, <1>10, <2>1, <2>2 DEF RolesInv, InCall, lcVars
  <2>6. StatusInv'
    BY <1>1, <1>10 DEF StatusInv, lcVars
  <2>7. EndInv'
    BY <1>1, <1>10, <2>1, <2>2 DEF EndInv, Quitting, Ending, lcVars
  <2>8. QED
    BY <2>3, <2>4, <2>5, <2>6, <2>7
<1>11. ASSUME NEW s \in {"xds", "lifecycle"}, SelectServerExited(s)
       PROVE  RunInv'
  <2>1. s = "lifecycle" => lcServer \in {"failed", "closed"}
    BY <1>11 DEF SelectServerExited, GraceInv, ServersInv
  <2>2. QED
    BY <1>10, <1>11, <2>1 DEF SelectServerExited, Begin
<1>12. CASE SelectQuitReturned /\ call[Select].res # "ok"
  <2>1. call[Select].pc = "done"
    BY <1>12 DEF SelectQuitReturned, RolesInv, InCall
  <2>2. cause \in {"xds", "lifecycle"} /\ (cause = "lifecycle" => lcServer \in {"failed", "closed"})
    BY <1>12 DEF SelectQuitReturned, StatusInv, TypesInv, DataplaneTypeOK
  <2>3. QED
    BY <1>10, <1>12, <2>1, <2>2 DEF SelectQuitReturned, Begin
<1>13. QED
  BY <1>5, <1>6, <1>7, <1>8, <1>9, <1>11, <1>12 DEF SelectStep

(* The servers, the signal and main. *)
LEMMA ServersKeep ==
  ASSUME ProgramInv, ServerStep \/ LifecycleServerStep \/ MainStep \/ SignalArrives
  PROVE  RunInv'
<1> USE DEF ProgramInv, RunInv
<1>1. /\ UNCHANGED <<state, proc, waitErr, waiter, call, shutdown, timer, startup, mode, status, sel, cause>>
      /\ ctxDone' = ctxDone \/ main' \in {"cancelled", "exited"}
      /\ ctxDone' = ctxDone \/ ctxDone' = TRUE
  BY DEF ServerStep, LifecycleServerStep, StartLifecycleServer, StopLifecycleServer, MainStep, MainCancels,
     MainExits, SignalArrives, proxyVars, lcVars, dpVars
<1>2. /\ main' = main \/ (main \in {"returning", "cancelled"} /\ main' \in {"cancelled", "exited"})
      /\ sig' = sig \/ (sig = "none" /\ sig' = "pending")
      /\ xds' = xds \/ (xds # "off" /\ xds' \in {"failed", "stopped"})
      /\ metrics' = metrics \/ (metrics # "off" /\ metrics' \in {"failed", "stopped"})
  BY DEF ServerStep, XdsFails, MetricsFail, XdsStops, MetricsStop, LifecycleServerStep, MainStep, MainCancels,
     MainExits, SignalArrives, dpVars
<1>3. /\ lc' = lc \/ (lc = "started" /\ lc' = "stopped")
      /\ lcServer' \in {lcServer, "serving", "failed", "closed"}
      /\ lcServer \in {"failed", "closed"} => lcServer' \in {"failed", "closed"}
      /\ lcExit' \in {lcExit, "closed"} /\ panic' \in {panic, "close"}
  BY DEF ServerStep, LifecycleServerStep, StartLifecycleServer, StopLifecycleServer, CloseErrorExit, MainStep,
     MainCancels, MainExits, SignalArrives, lcVars
<1>4. TypesInv'
  BY <1>1, <1>2, <1>3, SMT DEF TypesInv, LifecycleTypeOK, DataplaneTypeOK, Phases, Servers
<1>5. PhaseInv'
  BY <1>1, <1>2, <1>3 DEF PhaseInv, Sidecar, Late
<1>6. RolesInv'
  BY <1>1, <1>2 DEF RolesInv, InCall
<1>7. StatusInv'
  BY <1>1, <1>2, <1>3, SMT DEF StatusInv
<1>8. EndInv'
  BY <1>1 DEF EndInv, Quitting, Ending
<1>9. QED
  BY <1>4, <1>5, <1>6, <1>7, <1>8

(* A graceful shutdown changes its own record and its own call only, and    *)
(* does not go back behind Quit.                                            *)
LEMMA ShutdownFrame ==
  ASSUME ProgramInv, NEW g \in Shutdowns, UNCHANGED <<main, mode, status, sel, cause, xds, metrics>>,
         UNCHANGED <<lc, lcServer, lcExit, startup, state, proc, waitErr, waiter, ctxDone>>,
         sig' \in {"none", "pending", "handled"}, sig = "handled" => sig' = "handled",
         timer' \in [Shutdowns \cup Startups -> {"off", "armed", "fired"}],
         panic' \in {"no", "logger", "close"},
         NEW p \in {"idle", "dump", "drain", "grace", "quit", "done"},
         shutdown' = [shutdown EXCEPT ![g] = p], p # "idle" => lc # "nil",
         shutdown[g] \in {"quit", "done"} => p \in {"quit", "done"},
         \A d \in Callers \ {g} : call'[d] = call[d],
         call'[g].pc \notin {"idle", "done"} =>
           \/ call'[g].op = "DumpConfig" /\ p = "dump"
           \/ call'[g].op = "Drain" /\ p = "drain"
           \/ call'[g].op = "Quit" /\ p = "quit"
  PROVE  RunInv'
<1> USE DEF ProgramInv, RunInv
<1>1. shutdown \in [Shutdowns -> {"idle", "dump", "drain", "grace", "quit", "done"}]
  BY DEF TypesInv, LifecycleTypeOK
<1>2. shutdown'[g] = p /\ \A h \in Shutdowns \ {g} : shutdown'[h] = shutdown[h]
  BY <1>1
<1>3. g # Select /\ g # Main
  BY DataplaneAssumption
<1>4. TypesInv'
  BY <1>1, SMT DEF TypesInv, LifecycleTypeOK, DataplaneTypeOK
<1>5. PhaseInv'
  BY <1>2 DEF PhaseInv
<1>6. RolesInv'
  BY <1>2, <1>3, DataplaneAssumption, SMT DEF RolesInv, InCall
<1>7. StatusInv'
  BY DEF StatusInv
<1>8. Quitting => Quitting'
  BY <1>2 DEF Quitting
<1>9. EndInv'
  BY <1>3, <1>8, DataplaneAssumption DEF EndInv, Ending
<1>10. QED
  BY <1>4, <1>5, <1>6, <1>7, <1>9

(* gracefulShutdown begins, by HTTP or by a signal. *)
LEMMA ShutdownBeginKeeps ==
  ASSUME ProgramInv, NEW g \in Shutdowns, ShutdownBegin(g), lc # "nil",
         UNCHANGED <<main, mode, status, sel, cause, xds, metrics>>,
         sig' \in {"none", "pending", "handled"}, sig = "handled" => sig' = "handled"
  PROVE  RunInv'
<1> USE DEF ProgramInv, RunInv
<1>1. g \in Callers
  BY LifecycleAssumption
<1>2. /\ shutdown \in [Shutdowns -> {"idle", "dump", "drain", "grace", "quit", "done"}]
      /\ timer \in [Shutdowns \cup Startups -> {"off", "armed", "fired"}]
      /\ panic \in {"no", "logger", "close"}
  BY DEF TypesInv, LifecycleTypeOK
<1>3. UNCHANGED <<lc, lcServer, lcExit, startup, state, proc, waitErr, waiter, ctxDone>>
  BY DEF ShutdownBegin, Begin, proxyVars
<1>4. shutdown[g] = "idle" /\ ~InCall(g)
  <2>1. shutdown[g] = "idle" /\ g # Select /\ g # Main
    BY DataplaneAssumption DEF ShutdownBegin
  <2>2. QED
    BY <1>1, <2>1 DEF RolesInv
<1>5. CASE lc = "new"
  <2>1. panic' = "logger" /\ UNCHANGED <<shutdown, timer, proxyVars>>
    BY <1>5 DEF ShutdownBegin
  <2>2. shutdown' = [shutdown EXCEPT ![g] = "idle"]
    BY <1>2, <1>4, <2>1
  <2>3. QED
    BY <1>2, <1>3, <1>4, <2>1, <2>2, ShutdownFrame, ZenonT(30) DEF InCall, proxyVars
<1>6. CASE lc # "new"
  <2>1. /\ timer' = [timer EXCEPT ![g] = "armed"] /\ UNCHANGED panic
        /\ shutdown' = [shutdown EXCEPT ![g] = "dump"]
        /\ Begin(g, "DumpConfig") \/ UNCHANGED proxyVars
    BY <1>6 DEF ShutdownBegin
  <2>2. timer' \in [Shutdowns \cup Startups -> {"off", "armed", "fired"}]
    BY <1>2, <2>1
  <2>3. CASE Begin(g, "DumpConfig")
    <3>1. call'[g].op = "DumpConfig" /\ \A d \in Callers \ {g} : call'[d] = call[d]
      BY <1>1, <2>3, BeginEffect DEF GraceInv, Ops
    <3>2. QED
      BY <1>2, <1>3, <1>4, <2>1, <2>2, <3>1, ShutdownFrame, ZenonT(30)
  <2>4. CASE UNCHANGED proxyVars
    BY <1>2, <1>3, <1>4, <2>1, <2>2, <2>4, ShutdownFrame, ZenonT(30) DEF InCall, proxyVars
  <2>5. QED
    BY <2>1, <2>3, <2>4
<1>7. QED
  BY <1>5, <1>6

(* GracefulShutdown without a manager cancels the context. *)
LEMMA SignalKeeps ==
  ASSUME ProgramInv, GracefulShutdown
  PROVE  RunInv'
<1> USE DEF ProgramInv, RunInv
<1>1. CASE lc = "nil"
  <2>1. /\ ctxDone' = TRUE /\ sig' = "handled"
        /\ UNCHANGED <<state, proc, waitErr, waiter, call, lcVars, main, mode, status, sel, cause, xds, metrics>>
    BY <1>1 DEF GracefulShutdown
  <2>2. TypesInv' /\ PhaseInv' /\ StatusInv'
    BY <2>1, SMT DEF TypesInv, LifecycleTypeOK, DataplaneTypeOK, PhaseInv, StatusInv, lcVars
  <2>3. RolesInv' /\ EndInv'
    BY <2>1 DEF RolesInv, EndInv, Quitting, Ending, InCall, lcVars
  <2>4. QED
    BY <2>2, <2>3
<1>2. CASE lc # "nil"
  BY <1>2, ShutdownBeginKeeps, DataplaneAssumption DEF GracefulShutdown
<1>3. QED
  BY <1>1, <1>2

(* The steps of a graceful shutdown that is under way, and its timer. *)
LEMMA ShutdownKeeps ==
  ASSUME ProgramInv, NEW g \in Shutdowns, UNCHANGED dpVars,
         ShutdownStep(g) \/ (TimerFires(g) /\ UNCHANGED proxyVars)
  PROVE  RunInv'
<1> USE DEF ProgramInv, RunInv
<1>1. g \in Callers /\ g # Select /\ g # Main
  BY LifecycleAssumption, DataplaneAssumption
<1>2. /\ shutdown \in [Shutdowns -> {"idle", "dump", "drain", "grace", "quit", "done"}]
      /\ timer \in [Shutdowns \cup Startups -> {"off", "armed", "fired"}]
      /\ panic \in {"no", "logger", "close"} /\ sig \in {"none", "pending", "handled"}
  BY DEF TypesInv, LifecycleTypeOK, DataplaneTypeOK
<1>3. UNCHANGED <<main, mode, status, sel, cause, xds, metrics, sig>>
  BY DEF dpVars
<1>4. UNCHANGED <<lc, lcServer, lcExit, startup, panic, state, proc, waitErr, waiter, ctxDone>>
  BY DEF ShutdownStep, ShutdownDrain, ShutdownDrained, ShutdownQuit, ShutdownReturn, TimerFires, Begin, Forget,
     proxyVars
<1>5. ASSUME Forget(g), UNCHANGED timer, shutdown[g] # "idle",
             NEW p \in {"grace", "done"}, shutdown' = [shutdown EXCEPT ![g] = p],
             shutdown[g] \in {"quit", "done"} => p = "done"
      PROVE  RunInv'
  <2>1. call'[g].pc = "idle" /\ \A d \in Callers \ {g} : call'[d] = call[d]
    BY <1>1, <1>5, ForgetEffect, SMT DEF GraceInv, NoCall
  <2>2. QED
    BY <1>2, <1>3, <1>4, <1>5, <2>1, ShutdownFrame, ZenonT(30) DEF PhaseInv
<1>6. ASSUME NEW op \in {"Drain", "Quit"}, Begin(g, op), UNCHANGED timer, shutdown[g] \in {"dump", "grace"},
             NEW p \in {"drain", "quit"}, shutdown' = [shutdown EXCEPT ![g] = p],
             op = "Drain" <=> p = "drain"
      PROVE  RunInv'
  <2>1. call'[g].op = op /\ \A d \in Callers \ {g} : call'[d] = call[d]
    BY <1>1, <1>6, BeginEffect DEF GraceInv, Ops
  <2>2. QED
    BY <1>2, <1>3, <1>4, <1>6, <2>1, ShutdownFrame, ZenonT(30) DEF PhaseInv
<1>7. CASE ShutdownStep(g)
  BY <1>5, <1>6, <1>7 DEF ShutdownStep, ShutdownDrain, ShutdownDrained, ShutdownQuit, ShutdownReturn
<1>8. CASE TimerFires(g) /\ UNCHANGED proxyVars
  <2>1. timer' \in [Shutdowns \cup Startups -> {"off", "armed", "fired"}] /\ UNCHANGED <<shutdown, call>>
    BY <1>2, <1>8 DEF TimerFires, proxyVars
  <2>2. TypesInv' /\ PhaseInv' /\ StatusInv'
    BY <1>3, <1>4, <2>1, SMT DEF TypesInv, LifecycleTypeOK, DataplaneTypeOK, PhaseInv, StatusInv
  <2>3. RolesInv' /\ EndInv'
    BY <1>3, <1>4, <2>1 DEF RolesInv, EndInv, Quitting, Ending, InCall
  <2>4. QED
    BY <2>2, <2>3
<1>9. QED
  BY <1>7, <1>8

(* A step inside a method of the proxy. *)
LEMMA CallStepKeeps ==
  ASSUME ProgramInv, NEW c \in Callers, CallStep(c), UNCHANGED <<lcVars, dpVars>>
  PROVE  RunInv'
<1> USE DEF ProgramInv, RunInv
<1>1. CallTypes
  BY DEF GraceInv
<1>2. InCall(c) /\ call'[c].op = call[c].op /\ \A d \in Callers \ {c} : call'[d] = call[d]
  BY <1>1, CallStepEffect
<1>3. proc # "none" => proc' # "none"
  BY <1>1, CallStepEffect
<1>4. call[c].op = "Run" => main = "running"
  BY <1>2 DEF RolesInv
<1>5. TypesInv'
  BY SMT DEF TypesInv, LifecycleTypeOK, DataplaneTypeOK, lcVars, dpVars
<1>6. PhaseInv'
  <2>1. state' # "Initial" => xds # "off"
    BY <1>4, CallStepState DEF PhaseInv, Sidecar
  <2>2. QED
    BY <1>3, <2>1 DEF PhaseInv, lcVars, dpVars
<1>7. RolesInv'
  <2>1. call'[c].pc # "idle"
    BY CallStepState
  <2>2. QED
    BY <1>2, <2>1, DataplaneAssumption, SMT DEF RolesInv, InCall, lcVars, dpVars
<1>8. StatusInv'
  <2>1. UNCHANGED <<waitErr, ctxDone>> /\ (waiter \in {"close", "closed"} => UNCHANGED waiter)
    BY CallStepState
  <2>2. QED
    BY <2>1 DEF StatusInv, lcVars, dpVars
<1>9. Ending => Ending'
  BY CallStepState
<1>10. Quitting' <=> Quitting
  BY DEF Quitting, lcVars
<1>11. CASE c = Select
  <2>1. (call[Select].op = "Quit" /\ sel = "quit") \/ (call[Select].op = "Kill" /\ sel = "kill")
    BY <1>2, <1>11, DataplaneAssumption DEF RolesInv
  <2>2. proc # "none"
    BY <2>1 DEF GraceInv, ProcessThere
  <2>3. UNCHANGED <<sel, status>>
    BY DEF dpVars
  <2>4. state' = "Stopped" => \/ Quitting
                              \/ sel = "quit" /\ call'[Select].pc \in {"http", "done"}
                              \/ sel = "kill"
    BY <1>2, <1>11, <2>1, CallStepState DEF EndInv, InCall
  <2>5. sel = "quit" /\ call'[Select].pc = "done" /\ call'[Select].res = "ok" => Quitting \/ Ending'
    BY <1>11, <2>1, CallStepState DEF EndInv
  <2>6. sel = "kill" /\ call'[Select].pc = "done" => Ending'
    BY <1>11, <2>1, <2>2, CallStepState
  <2>7. EndInv'
    BY <1>9, <1>10, <2>3, <2>4, <2>5, <2>6 DEF EndInv
  <2>8. QED
    BY <1>5, <1>6, <1>7, <1>8, <2>7
<1>12. CASE c # Select
  <2>1. call'[Select] = call[Select] /\ UNCHANGED <<sel, status>>
    BY <1>2, <1>12, DataplaneAssumption DEF dpVars
  <2>2. call[c].op = "Quit" => Quitting
    BY <1>2, <1>12 DEF RolesInv, Quitting
  <2>3. state' = "Stopped" => state = "Stopped" \/ Quitting
    BY <2>2, CallStepState
  <2>4. EndInv'
    BY <1>9, <1>10, <2>1, <2>3 DEF EndInv
  <2>5. QED
    BY <1>5, <1>6, <1>7, <1>8, <2>4
<1>13. QED
  BY <1>11, <1>12

(* Envoy and the goroutine that waits for it. *)
LEMMA OtherStepKeeps ==
  ASSUME ProgramInv, WaiterStep \/ CtxKill \/ ProcStops \/ ProcCrash, UNCHANGED <<lcVars, dpVars>>
  PROVE  RunInv'
<1> USE DEF ProgramInv, RunInv
<1>1. /\ UNCHANGED <<call, ctxDone>>
      /\ proc # "none" /\ proc' # "none"
      /\ state' = state \/ (state = "Running" /\ state' = "Exited")
      /\ Ending => Ending'
      /\ waiter \in {"close", "closed"} => waiter' \in {"close", "closed"} /\ UNCHANGED waitErr
  BY OtherStepState
<1>2. TypesInv' /\ PhaseInv' /\ StatusInv'
  BY <1>1, SMT DEF TypesInv, LifecycleTypeOK, DataplaneTypeOK, PhaseInv, StatusInv, lcVars, dpVars
<1>3. RolesInv' /\ EndInv'
  BY <1>1 DEF RolesInv, EndInv, Quitting, InCall, lcVars, dpVars
<1>4. QED
  BY <1>2, <1>3

(* Every step of the program and of Envoy preserves the invariant. *)
LEMMA ProgramInvNext == ProgramInv /\ [Next]_vars => ProgramInv'
<1> SUFFICES ASSUME ProgramInv, [Next]_vars
             PROVE  ProgramInv'
  OBVIOUS
<1>1. ASSUME NEW g \in Shutdowns, GracefulShutdownHandler(g), UNCHANGED dpVars
      PROVE  RunInv'
  <2>1. lc # "nil" /\ ShutdownBegin(g)
    BY <1>1 DEF GracefulShutdownHandler, ProgramInv, GraceInv, ServersInv
  <2>2. QED
    BY <1>1, <2>1, ShutdownBeginKeeps DEF dpVars, ProgramInv, RunInv, TypesInv, DataplaneTypeOK
<1>2. CASE UNCHANGED vars
  <2>1. TypesInv' /\ PhaseInv' /\ StatusInv'
    BY <1>2, SMT DEF ProgramInv, RunInv, TypesInv, LifecycleTypeOK, DataplaneTypeOK, PhaseInv, StatusInv, vars,
       proxyVars, lcVars, dpVars
  <2>2. RolesInv' /\ EndInv'
    BY <1>2 DEF ProgramInv, RunInv, RolesInv, EndInv, Quitting, Ending, InCall, vars, proxyVars, lcVars, dpVars
  <2>3. RunInv'
    BY <2>1, <2>2 DEF RunInv
  <2>4. QED
    BY <2>3, ProcessKeepsProxyInv, GraceInvNext DEF ProgramInv
<1>3. CASE GoStep
  <2>1. RunInv'
    BY <1>1, <1>3, RunStepKeeps, SelectStepKeeps, ServersKeep, SignalKeeps, ShutdownKeeps, CallStepKeeps,
       OtherStepKeeps DEF GoStep
  <2>2. QED
    BY <2>1, ProcessKeepsProxyInv, GraceInvNext DEF ProgramInv
<1>4. CASE EnvoyStep \/ SignalArrives
  <2>1. RunInv'
    BY <1>4, OtherStepKeeps, ServersKeep DEF EnvoyStep
  <2>2. QED
    BY <2>1, ProcessKeepsProxyInv, GraceInvNext DEF ProgramInv
<1>5. QED
  BY <1>2, <1>3, <1>4 DEF Next

(* The invariant holds of every behaviour of the process. *)
LEMMA ProgramInvariant == Spec => []ProgramInv
<1>1. Init => ProgramInv
  BY InvInit, GraceInvInit, RunInvInit DEF Init, ProgramInv
<1>2. QED
  BY <1>1, ProgramInvNext, PTL DEF Spec

(* What Run has started, and in which order, for any number of goroutines   *)
(* that run gracefulShutdown: Envoy after the xDS server, the manager and   *)
(* the select for an Envoy that was started, nothing in dns-proxy mode, and *)
(* nobody but Run inside a method of the proxy before Envoy is there.       *)
THEOREM StartedInOrder == Spec => []DataplaneInv
<1>1. ASSUME ProgramInv PROVE DataplaneInv
  <2> USE <1>1 DEF ProgramInv, RunInv
  <2>1. ProxyTypeOK /\ LifecycleTypeOK /\ DataplaneTypeOK
    BY DEF ProxyInv, TypesInv
  <2>2. InCall(Main) => main = "running"
    BY DataplaneAssumption DEF RolesInv
  <2>3. lcServer # "off" => lc \in {"started", "stopped"}
    BY <2>1 DEF LifecycleTypeOK, GraceInv, ServersInv
  <2>4. sel = "off" => ~InCall(Select)
    BY DataplaneAssumption DEF RolesInv
  <2>5. \A c \in Callers \ {Main} : InCall(c) => proc # "none"
    BY DEF RolesInv, PhaseInv, GraceInv, ProcessThere
  <2>6. QED
    BY <2>1, <2>2, <2>3, <2>4, <2>5 DEF PhaseInv, DataplaneInv
<1>2. QED
  BY <1>1, ProgramInvariant, PTL

(* The value Run returns, which becomes the exit status: nil only for an    *)
(* Envoy that left with status 0 or a context that a signal cancelled, the  *)
(* error of Envoy only for an Envoy that failed, and the lifecycle          *)
(* server's only when that server is gone.                                  *)
THEOREM ExitStatusTruthful == Spec => []StatusTruthful
<1>1. ProgramInv => StatusTruthful
  BY DEF ProgramInv, RunInv, StatusInv, StatusTruthful, ProxyInv, ProcessInv
<1>2. QED
  BY <1>1, ProgramInvariant, PTL

(* The select that gives up because a server exited leaves no Envoy behind  *)
(* that nobody told to stop: its Quit reached Envoy or its Kill did, unless *)
(* a graceful shutdown had taken the state to Stopped first.                *)
THEOREM ServerExitEndsEnvoy == Spec => []ServerExitStopsEnvoy
<1>1. ProgramInv => ServerExitStopsEnvoy
  BY DEF ProgramInv, RunInv, EndInv, Quitting, Ending, ServerExitStopsEnvoy
<1>2. QED
  BY <1>1, ProgramInvariant, PTL
=============================================================================
