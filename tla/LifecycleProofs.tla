-------------------------- MODULE LifecycleProofs ---------------------------
(***************************************************************************)
(* What the steps of the proxy's methods do to the records of its callers, *)
(* and how Envoy's life goes, for any goroutines and switches: the gate of *)
(* graceful_startup, and in the whole process (proxy, lifecycle manager,   *)
(* Run, select and signals together) the grace period, that nothing but    *)
(* the missing logger panics, and that the proxy in the program is a life  *)
(* cycle.                                                                  *)
(***************************************************************************)
EXTENDS Dataplane, ProxyProofs

(* There is no arithmetic here: Zenon is the prover where a leaf names none. *)
USE Zenon

-----------------------------------------------------------------------------
(* What the steps of the methods do.                                        *)

CallTypes ==
  /\ state \in States
  /\ call \in [Callers -> Call]

(* The switch statements of the proxy's methods answer or go on; they never *)
(* panic by themselves.                                                     *)
LEMMA PlanAnswers ==
  ASSUME NEW op \in Ops \ {"Run"}, NEW s \in States
  PROVE  Plan(op, s) \in {"ok", "no", "err", "cas", "http", "signal"}
  BY DEF Plan, Ops, States

(* Goto and Return touch the record of their caller only. *)
LEMMA CallUpdates ==
  ASSUME call \in [Callers -> Call], NEW c \in Callers, NEW s \in States,
         NEW pc \in {"start", "cas", "http", "signal"}, NEW r \in Results,
         Goto(c, pc, s) \/ Return(c, r)
  PROVE  /\ call' \in [Callers -> Call]
         /\ call'[c].op = call[c].op
         /\ \A d \in Callers \ {c} : call'[d] = call[d]
         /\ Goto(c, pc, s) => call'[c].res = call[c].res
         /\ Return(c, r) => call'[c].res = r /\ call'[c].pc = "done"
  BY SMT DEF Goto, Return, Call, States

(* A step of a method in progress: it stays the same method, it ends Envoy  *)
(* only as Quit or Kill, and it panics only as Kill without a process.      *)
LEMMA CallStepEffect ==
  ASSUME CallTypes, NEW c \in Callers, CallStep(c)
  PROVE  /\ CallTypes'
         /\ InCall(c)
         /\ call'[c].op = call[c].op
         /\ \A d \in Callers \ {c} : call'[d] = call[d]
         /\ proc' # proc => \/ call[c].op = "Run" /\ proc' = "up"
                            \/ call[c].op \in {"Quit", "Kill"} /\ proc' \in {"quitting", "killed"}
         /\ call[c].op = "Run" /\ call'[c].res = "ok" => proc' = "up" \/ call[c].res = "ok"
         /\ call'[c].res = "panic" => call[c].res = "panic" \/ (call[c].op = "Kill" /\ proc = "none")
         /\ UNCHANGED ctxDone
<1> USE DEF CallTypes, At, InCall
<1>1. CASE RunClaim(c)
  BY <1>1, SMT DEF RunClaim, TransitionState, Goto, Return, Call, States, Results
<1>2. CASE RunStart(c)
  BY <1>2, SMT DEF RunStart, Return, Call, States, Results
<1>3. CASE Load(c)
  <2> DEFINE plan == Plan(call[c].op, state)
  <2>1. plan \in {"ok", "no", "err", "cas", "http", "signal"}
    BY <1>3, PlanAnswers DEF Load
  <2>2. At(c, Ops \ {"Run"}, "begin") /\ UNCHANGED <<state, proc, ctxDone>>
    BY <1>3 DEF Load
  <2>3. CASE plan \in {"ok", "no", "err"}
    <3>1. Return(c, plan)
      BY <1>3, <2>3 DEF Load, Results
    <3> HIDE DEF plan
    <3>2. QED
      BY <2>2, <2>3, <3>1, CallUpdates DEF Results, States
  <2>4. CASE plan \in {"cas", "http", "signal"}
    <3>1. PICK s \in States : Goto(c, plan, s)
      BY <1>3, <2>4 DEF Load, Results, States
    <3> HIDE DEF plan
    <3>2. QED
      BY <2>2, <2>4, <3>1, CallUpdates DEF Results, States
  <2>5. QED
    BY <2>1, <2>3, <2>4
<1>4. CASE MoveState(c)
  <2>1. state' \in States
    BY <1>4 DEF MoveState, TransitionState, States
  <2>2. Goto(c, "http", "Initial") /\ UNCHANGED <<proc, ctxDone>> /\ At(c, {"Drain", "Quit"}, "cas")
    BY <1>4 DEF MoveState
  <2>3. QED
    BY <2>1, <2>2, CallUpdates DEF Results, States
<1>5. CASE AdminRequest(c)
  BY <1>5, SMT DEF AdminRequest, Return, Call, States, Results
<1>6. CASE SignalKill(c)
  <2>1. KillResult \in {"panic", "err", "ok"} /\ (KillResult = "panic" => proc = "none")
    BY DEF KillResult
  <2>2. QED
    BY <1>6, <2>1, CallUpdates DEF SignalKill, States, Results
<1>7. QED
  BY <1>1, <1>2, <1>3, <1>4, <1>5, <1>6 DEF CallStep

(* A call that begins has no result yet; the others are left alone. *)
LEMMA BeginEffect ==
  ASSUME CallTypes, NEW c \in Callers, NEW op \in Ops, Begin(c, op)
  PROVE  /\ CallTypes'
         /\ call'[c].op = op /\ call'[c].res = "none"
         /\ \A d \in Callers \ {c} : call'[d] = call[d]
         /\ UNCHANGED <<proc, ctxDone>>
  BY DEF CallTypes, Begin, Call, States, Results

(* gracefulShutdown drops the result of its own call. *)
LEMMA ForgetEffect ==
  ASSUME CallTypes, NEW c \in Callers, Forget(c)
  PROVE  /\ CallTypes'
         /\ call'[c] = NoCall
         /\ \A d \in Callers \ {c} : call'[d] = call[d]
         /\ UNCHANGED <<proc, ctxDone>>
  BY DEF CallTypes, Forget, NoCall, Call, Ops, States, Results

(* Envoy has been told to end, or is gone. *)
Ending == proc \in {"quitting", "killed", "dead"}

(* A step of a method, as the state and the process show it: the state      *)
(* leaves Initial by Run and becomes Stopped by Quit, Quit returns nil only *)
(* when Envoy has accepted it, is dead, or somebody else had called it, and *)
(* Kill returns only when Envoy is killed or dead.                          *)
LEMMA CallStepState ==
  ASSUME ProxyInv, NEW c \in Callers, CallStep(c)
  PROVE  /\ state' # "Initial" => state # "Initial" \/ call[c].op = "Run"
         /\ state' = "Stopped" => state = "Stopped" \/ (call[c].op = "Quit" /\ call'[c].pc = "http")
         /\ call'[c].pc # "idle"
         /\ call[c].pc = "http" => call'[c].pc = "done"
         /\ call[c].op = "Quit" /\ call'[c].pc = "done" /\ call'[c].res = "ok" =>
              Ending' \/ (call[c].pc = "begin" /\ state = "Stopped")
         /\ call[c].op = "Kill" /\ call'[c].pc = "done" /\ proc # "none" => Ending'
         /\ Ending => Ending'
         /\ UNCHANGED <<waitErr, ctxDone>>
         /\ waiter \in {"close", "closed"} => UNCHANGED waiter
<1> USE DEF ProxyInv, At, Ending
<1>1. CASE RunClaim(c)
  BY <1>1, SMT DEF RunClaim, TransitionState, Goto, Return, ProxyTypeOK, Call, States
<1>2. CASE RunStart(c)
  BY <1>2, SMT DEF RunStart, Return, ProxyTypeOK, Call, ClaimInv, ProcessInv
<1>3. CASE Load(c)
  <2> DEFINE plan == Plan(call[c].op, state)
  <2>1. UNCHANGED <<state, proc, waitErr, waiter, ctxDone>> /\ call[c].op \in Ops \ {"Run"} /\ call[c].pc = "begin"
    BY <1>3 DEF Load
  <2>2. /\ plan \in {"ok", "no", "err", "cas", "http", "signal"}
        /\ call[c].op = "Quit" /\ plan = "ok" => state \in {"Stopped", "Exited"}
        /\ call[c].op = "Kill" /\ plan \in Results => state \in {"Initial", "Exited"}
    BY <2>1 DEF Plan, Ops, States, Results, ProxyTypeOK
  <2>3. /\ plan \in Results => call'[c].pc = "done" /\ call'[c].res = plan
        /\ plan \notin Results => call'[c].pc = plan
    BY <1>3, SMT DEF Load, Goto, Return, ProxyTypeOK, Call
  <2> HIDE DEF plan
  <2>4. QED
    BY <2>1, <2>2, <2>3 DEF Results, ProcessInv
<1>4. CASE MoveState(c)
  <2>1. call'[c].pc = "http" /\ UNCHANGED <<proc, waitErr, waiter, ctxDone>> /\ call[c].pc = "cas"
    BY <1>4 DEF MoveState, Goto, ProxyTypeOK, Call
  <2>2. call[c].seen # "Initial" /\ call[c].op \in {"Drain", "Quit"}
    BY <1>4 DEF MoveState, LoadedInv
  <2>3. /\ state' = "Stopped" => state = "Stopped" \/ call[c].op = "Quit"
        /\ state' # "Initial" => state # "Initial"
    BY <1>4, <2>2 DEF MoveState, TransitionState
  <2>4. QED
    BY <2>1, <2>2, <2>3
<1>5. CASE AdminRequest(c)
  BY <1>5, SMT DEF AdminRequest, Return, ProxyTypeOK, Call
<1>6. CASE SignalKill(c)
  BY <1>6 DEF SignalKill, Return, ProxyTypeOK, Call, Procs
<1>7. QED
  BY <1>1, <1>2, <1>3, <1>4, <1>5, <1>6 DEF CallStep

(* Envoy and the goroutine that waits for it. *)
LEMMA OtherStepState ==
  ASSUME ProxyInv, WaiterStep \/ CtxKill \/ ProcStops \/ ProcCrash
  PROVE  /\ UNCHANGED <<call, ctxDone, listener>>
         /\ proc # "none" /\ proc' # "none"
         /\ state' = state \/ (state = "Running" /\ state' = "Exited")
         /\ Ending => Ending'
         /\ waiter \in {"close", "closed"} => waiter' \in {"close", "closed"} /\ UNCHANGED waitErr
  BY DEF WaiterStep, WaitReturns, MarkExited, CloseExited, TransitionState, CtxKill, ProcStops, ProcCrash,
     ProcExit, ProxyInv, ProxyTypeOK, Waiters, ProcessInv, Ending

-----------------------------------------------------------------------------
(* The gate of graceful_startup.                                            *)

StartupTypes ==
  /\ startup \in [Startups -> {"idle", "poll", "ready", "replied"}]
  /\ timer \in [Shutdowns \cup Startups -> {"off", "armed", "fired"}]

(* A request that Envoy's answer lets through makes no further call, so     *)
(* that the answer is still there when the handler replies; its timer is    *)
(* armed when it begins and nobody arms it again.                           *)
GateInv ==
  \A r \in Startups :
    /\ startup[r] = "ready" => call[r].res = "ok" /\ ~InCall(r)
    /\ startup[r] = "replied" =>
         timer[r] = "fired" \/ (call[r].res = "ok" /\ ~InCall(r)) \/ "startup" \notin Flags

StartupInv == CallTypes /\ StartupTypes /\ GateInv

(* The invariant holds when the manager has just been started. *)
LEMMA StartupInvInit == ManagerInit => StartupInv
<1> SUFFICES ASSUME ManagerInit PROVE StartupInv
  OBVIOUS
<1>1. CallTypes
  BY DEF ManagerInit, CallTypes, NoCall, Call, Ops, States, Results
<1>2. StartupTypes /\ GateInv
  BY DEF ManagerInit, StartupTypes, GateInv
<1>3. QED
  BY <1>1, <1>2 DEF StartupInv

(* Every step of the manager, of the proxy and of Envoy preserves it. *)
LEMMA StartupInvNext == StartupInv /\ [ManagerNext]_managerVars => StartupInv'
<1> SUFFICES ASSUME StartupInv, [ManagerNext]_managerVars
             PROVE  StartupInv'
  OBVIOUS
<1> USE DEF StartupInv
<1>1. ASSUME CallTypes', StartupTypes', UNCHANGED startup,
             \A r \in Startups : /\ call'[r] = call[r] \/ InCall(r)
                                 /\ timer[r] = "fired" => timer'[r] = "fired"
      PROVE  StartupInv'
  BY <1>1 DEF GateInv, InCall
<1>2. ASSUME NEW c \in Callers, CallStep(c), UNCHANGED lcVars
      PROVE  StartupInv'
  <2>1. CallTypes' /\ InCall(c) /\ \A d \in Callers \ {c} : call'[d] = call[d]
    BY <1>2, CallStepEffect
  <2>2. \A r \in Startups : call'[r] = call[r] \/ InCall(r)
    BY <2>1, LifecycleAssumption
  <2>3. QED
    BY <1>1, <1>2, <2>1, <2>2 DEF lcVars, StartupTypes
<1>3. CASE (WaiterStep \/ ProcStops \/ ProcCrash \/ CtxKill \/ CtxCancel) /\ UNCHANGED lcVars
  <2>1. UNCHANGED call /\ state' \in States
    BY <1>3 DEF WaiterStep, WaitReturns, MarkExited, CloseExited, TransitionState, ProcStops, ProcCrash, ProcExit,
       CtxKill, CtxCancel, CallTypes, States
  <2>2. QED
    BY <1>1, <1>3, <2>1 DEF lcVars, CallTypes, StartupTypes
<1>4. CASE UNCHANGED <<proxyVars, startup, timer>>
  BY <1>1, <1>4 DEF proxyVars, CallTypes, StartupTypes
<1>5. ASSUME NEW t \in Shutdowns \cup Startups, TimerFires(t), UNCHANGED proxyVars
      PROVE  StartupInv'
  <2>1. StartupTypes' /\ \A r \in Startups : timer[r] = "fired" => timer'[r] = "fired"
    BY <1>5 DEF TimerFires, StartupTypes
  <2>2. QED
    BY <1>1, <1>5, <2>1 DEF TimerFires, proxyVars, CallTypes
<1>6. ASSUME NEW g \in Shutdowns, NEW op \in Ops, Begin(g, op) \/ Forget(g) \/ UNCHANGED proxyVars,
             timer' = timer \/ timer' = [timer EXCEPT ![g] = "armed"], UNCHANGED startup
      PROVE  StartupInv'
  <2>1. g \in Callers /\ g \notin Startups
    BY LifecycleAssumption
  <2>2. CallTypes' /\ \A d \in Callers \ {g} : call'[d] = call[d]
    BY <1>6, <2>1, BeginEffect, ForgetEffect DEF proxyVars, CallTypes
  <2>3. StartupTypes' /\ \A r \in Startups : timer'[r] = timer[r]
    BY <1>6, <2>1 DEF StartupTypes
  <2>4. QED
    BY <1>1, <1>6, <2>1, <2>2, <2>3, LifecycleAssumption
<1>7. ASSUME NEW g \in Shutdowns, GracefulShutdownHandler(g) \/ ShutdownStep(g)
      PROVE  StartupInv'
  <2>1. \/ \E op \in Ops : Begin(g, op)
        \/ Forget(g) \/ UNCHANGED proxyVars
    BY <1>7 DEF GracefulShutdownHandler, ShutdownBegin, ShutdownStep, ShutdownDrain, ShutdownDrained, ShutdownQuit,
       ShutdownReturn, Ops
  <2>2. UNCHANGED startup /\ (timer' = timer \/ timer' = [timer EXCEPT ![g] = "armed"])
    BY <1>7 DEF GracefulShutdownHandler, ShutdownBegin, ShutdownStep, ShutdownDrain, ShutdownDrained, ShutdownQuit,
       ShutdownReturn
  <2>3. QED
    BY <1>6, <2>1, <2>2 DEF Ops
<1>8. ASSUME NEW r \in Startups, StartupBegin(r)
      PROVE  StartupInv'
  <2>1. CASE "startup" \in Flags
    <3>1. /\ startup' = [startup EXCEPT ![r] = "poll"]
          /\ timer' = [timer EXCEPT ![r] = "armed"]
          /\ Begin(r, "Ready")
      BY <1>8, <2>1 DEF StartupBegin
    <3>2. CallTypes' /\ \A d \in Callers \ {r} : call'[d] = call[d]
      BY <3>1, BeginEffect, LifecycleAssumption DEF Ops
    <3>3. QED
      BY <3>1, <3>2, LifecycleAssumption DEF StartupTypes, GateInv, InCall
  <2>2. CASE "startup" \notin Flags
    BY <1>8, <2>2 DEF StartupBegin, proxyVars, CallTypes, StartupTypes, GateInv, InCall
  <2>3. QED
    BY <2>1, <2>2
<1>9. ASSUME NEW r \in Startups, StartupPoll(r)
      PROVE  StartupInv'
  <2>1. CASE call[r].res = "ok"
    BY <1>9, <2>1 DEF StartupPoll, proxyVars, CallTypes, StartupTypes, GateInv, InCall
  <2>2. CASE call[r].res # "ok"
    <3>1. Begin(r, "Ready") /\ startup[r] = "poll" /\ UNCHANGED <<startup, timer>>
      BY <1>9, <2>2 DEF StartupPoll
    <3>2. CallTypes' /\ \A d \in Callers \ {r} : call'[d] = call[d]
      BY <3>1, BeginEffect, LifecycleAssumption DEF Ops
    <3>3. QED
      BY <3>1, <3>2, LifecycleAssumption DEF StartupTypes, GateInv, InCall
  <2>3. QED
    BY <2>1, <2>2
<1>10. ASSUME NEW r \in Startups, StartupReply(r)
       PROVE  StartupInv'
  BY <1>10 DEF StartupReply, proxyVars, CallTypes, StartupTypes, GateInv, InCall
<1>11. CASE (StartLifecycleServer \/ StopLifecycleServer) /\ UNCHANGED proxyVars
  BY <1>4, <1>11 DEF StartLifecycleServer, StopLifecycleServer
<1>12. CASE UNCHANGED managerVars
  BY <1>4, <1>12 DEF managerVars, lcVars
<1>13. QED
  <2> HIDE DEF StartupInv
  <2>1. QED
    BY <1>2, <1>3, <1>5, <1>7, <1>8, <1>9, <1>10, <1>11, <1>12 DEF ManagerNext, ProxyStep, StartupStep

(* A graceful_startup request is let through early only by Envoy's own      *)
(* word (lifecycle.go, gracefulStartup), for any number of requests and     *)
(* graceful shutdowns at the same time.                                     *)
THEOREM ApplicationWaits == ManagerSpec => []StartupGate
<1>1. StartupInv => StartupGate
  BY DEF StartupInv, GateInv, StartupGate
<1>2. QED
  BY StartupInvInit, StartupInvNext, <1>1, PTL DEF ManagerSpec

-----------------------------------------------------------------------------
(* Graceful shutdown in the whole process.                                  *)

(* The goroutines of gracefulShutdown and their timers. *)
ShutdownTypes ==
  /\ shutdown \in [Shutdowns -> {"idle", "dump", "drain", "grace", "quit", "done"}]
  /\ timer \in [Shutdowns -> {"off", "armed", "fired"}]

(* What entitles somebody to end Envoy; once there it stays. *)
Excuse ==
  \/ \E g \in Shutdowns : timer[g] = "fired"
  \/ xds = "failed" \/ lcServer = "failed"
  \/ ctxDone

(* The phases of Run before the xDS server is there, and with Envoy there. *)
Early == {"setup", "connect", "xdsSetup"}
Late  == {"metrics", "newLifecycle", "startLifecycle", "spawnSelect"}

(* Servers are started once, and errorExitCh is closed by whoever ends the  *)
(* lifecycle server.                                                        *)
ServersInv ==
  /\ main \in Early => xds = "off"
  /\ lc \in {"nil", "new"} => lcServer = "off"
  /\ lcExit \in {"open", "closed"}
  /\ lcExit = "closed" => lcServer = "failed" \/ (lcServer = "closed" /\ ctxDone)
  /\ panic \in {"no", "logger"}
  /\ \A g \in Shutdowns : shutdown[g] = "idle" => timer[g] = "off"

(* Past proxy.Run there is a process. *)
ProcessThere ==
  /\ main = "running" => call[Main].op = "Run" /\ (call[Main].res = "ok" => proc # "none")
  /\ main \in Late => proc # "none"
  /\ sel # "off" => proc # "none"

(* Who is about to end Envoy has an excuse, and who kills it a process. *)
CallOK(c) ==
  /\ InCall(c) /\ call[c].op \in {"Quit", "Kill"} => Excuse
  /\ InCall(c) /\ call[c].op = "Kill" => proc # "none"
  /\ call[c].res # "panic"

CallsInv ==
  /\ \A c \in Callers : CallOK(c)
  /\ sel = "quit" \/ proc \in {"quitting", "killed"} => Excuse

GraceInv == CallTypes /\ ShutdownTypes /\ ServersInv /\ ProcessThere /\ CallsInv

(* The program as New leaves it satisfies the invariant. *)
LEMMA GraceInvInit == Init => GraceInv
<1> SUFFICES ASSUME Init PROVE GraceInv
  OBVIOUS
<1> USE DEF Init, NewProxy, LifecycleInit
<1>1. CallTypes
  BY DEF CallTypes, NoCall, Call, Ops, States, Results
<1>2. ShutdownTypes
  BY DataplaneAssumption DEF ShutdownTypes
<1>3. ServersInv /\ ProcessThere
  BY DEF ServersInv, ProcessThere, Early, Late
<1>4. CallsInv
  BY DEF CallsInv, CallOK, InCall, NoCall
<1>5. QED
  BY <1>1, <1>2, <1>3, <1>4 DEF GraceInv

(* The servers, the timers and the excuse: most steps leave them alone. *)
LEMMA ServersNext ==
  ASSUME ShutdownTypes, ServersInv, [Next]_vars
  PROVE  ShutdownTypes' /\ ServersInv' /\ (Excuse => Excuse')
<1> DEFINE Goal == ShutdownTypes' /\ ServersInv' /\ (Excuse => Excuse')
<1> SUFFICES Goal
  OBVIOUS
<1>1. ASSUME UNCHANGED <<lcVars, xds, ctxDone>>, main' \in Early => main \in Early
      PROVE  Goal
  BY <1>1 DEF lcVars, ShutdownTypes, ServersInv, Excuse
<1>2. ASSUME UNCHANGED <<lcVars, xds, main>>, ctxDone'
      PROVE  Goal
  BY <1>2 DEF lcVars, ShutdownTypes, ServersInv, Excuse
<1>3. CASE RunStep
  <2>1. CASE StartupFails \/ StartupAdvances \/ Connected \/ DNSProxyMode \/ ProxyRan
    <3>1. main' \in Early => main \in Early
      BY <2>1, SMT DEF StartupFails, StartupAdvances, Connected, DNSProxyMode, ProxyRan, RunReturns, Enter, Succ, Early
    <3>2. UNCHANGED <<proxyVars, lcVars, xds>>
      BY <2>1 DEF StartupFails, StartupAdvances, Connected, DNSProxyMode, ProxyRan
    <3>3. QED
      BY <3>1, <3>2, <1>1 DEF proxyVars
  <2>2. CASE SetupXDSServer
    BY <2>2 DEF SetupXDSServer, Enter, proxyVars, lcVars, ShutdownTypes, ServersInv, Excuse, Early
  <2>3. CASE RunProxy \/ StartMetrics \/ SpawnSelect
    BY <2>3, <1>1 DEF RunProxy, Begin, StartMetrics, SpawnSelect, Listen, Enter, proxyVars, Early
  <2>4. CASE AssignLifecycle
    BY <2>4 DEF AssignLifecycle, NewLifecycleConfig, Enter, proxyVars, ShutdownTypes, ServersInv, Excuse, Early
  <2>5. CASE StartLifecycle
    BY <2>5 DEF StartLifecycle, StartLifecycleManager, Enter, proxyVars, ShutdownTypes, ServersInv, Excuse, Early
  <2>6. QED
    BY <1>3, <2>1, <2>2, <2>3, <2>4, <2>5 DEF RunStep
<1>4. CASE SelectStep
  <2>1. UNCHANGED <<lcVars, xds, ctxDone>>
    BY <1>4 DEF SelectStep, SelectCtxDone, SelectProxyExited, SelectMetricsExited, SelectServerExited,
       SelectQuitReturned, SelectKillReturned, Receive, Begin, Done, proxyVars
  <2>2. main' = main \/ main' = "returning"
    BY <1>4 DEF SelectStep, SelectCtxDone, SelectProxyExited, SelectMetricsExited, SelectServerExited,
       SelectQuitReturned, SelectKillReturned, Done, RunReturns
  <2>3. QED
    BY <2>1, <2>2, <1>1 DEF Early
<1>5. CASE ServerStep
  BY <1>5 DEF ServerStep, XdsFails, MetricsFail, XdsStops, MetricsStop, proxyVars, lcVars, ShutdownTypes,
     ServersInv, Excuse
<1>6. CASE LifecycleServerStep
  <2>1. UNCHANGED <<proxyVars, dpVars, shutdown, timer>>
    BY <1>6 DEF LifecycleServerStep, StartLifecycleServer, StopLifecycleServer
  <2>2. ServersInv' /\ (lcServer = "failed" => lcServer' = "failed")
    BY <1>6, <2>1, SMT DEF LifecycleServerStep, StartLifecycleServer, StopLifecycleServer, CloseErrorExit,
       ServersInv, proxyVars, dpVars
  <2>3. QED
    BY <2>1, <2>2 DEF ShutdownTypes, Excuse, proxyVars, dpVars
<1>7. ASSUME NEW g \in Shutdowns, ShutdownBegin(g), UNCHANGED <<main, xds>>
      PROVE  Goal
  <2>1. UNCHANGED <<lc, lcServer, lcExit, ctxDone>>
    BY <1>7 DEF ShutdownBegin, Begin, proxyVars
  <2>2. \/ panic' = "logger" /\ UNCHANGED <<shutdown, timer>>
        \/ /\ shutdown[g] = "idle" /\ UNCHANGED panic
           /\ timer' = [timer EXCEPT ![g] = "armed"]
           /\ shutdown' = [shutdown EXCEPT ![g] = "dump"]
    BY <1>7 DEF ShutdownBegin
  <2>3. ShutdownTypes' /\ ServersInv'
    BY <1>7, <2>1, <2>2 DEF ShutdownTypes, ServersInv
  <2>4. Excuse => Excuse'
    BY <1>7, <2>1, <2>2 DEF ShutdownTypes, ServersInv, Excuse
  <2>5. QED
    BY <2>3, <2>4
<1>8. CASE GracefulShutdown
  BY <1>8, <1>2, <1>7, DataplaneAssumption DEF GracefulShutdown
<1>9. CASE MainStep \/ SignalArrives
  BY <1>9, <1>1 DEF MainStep, MainCancels, MainExits, SignalArrives, proxyVars, lcVars, ShutdownTypes,
     ServersInv, Excuse, Early
<1>10. CASE UNCHANGED <<lcVars, dpVars, ctxDone>>
  BY <1>10, <1>1 DEF dpVars
<1>11. ASSUME NEW g \in Shutdowns, ShutdownStep(g), UNCHANGED dpVars
       PROVE  Goal
  <2>1. UNCHANGED <<lc, lcServer, lcExit, timer, panic, ctxDone, main, xds>>
    BY <1>11 DEF ShutdownStep, ShutdownDrain, ShutdownDrained, ShutdownQuit, ShutdownReturn, Begin, Forget, dpVars
  <2>2. \E p \in {"drain", "grace", "quit", "done"} : shutdown' = [shutdown EXCEPT ![g] = p]
    BY <1>11 DEF ShutdownStep, ShutdownDrain, ShutdownDrained, ShutdownQuit, ShutdownReturn
  <2>3. ShutdownTypes' /\ \A h \in Shutdowns : shutdown'[h] = "idle" => shutdown[h] = "idle"
    BY <2>1, <2>2 DEF ShutdownTypes
  <2>4. QED
    BY <2>1, <2>3 DEF ServersInv, Excuse
<1>12. ASSUME NEW t \in Shutdowns, TimerFires(t), UNCHANGED <<proxyVars, dpVars>>
       PROVE  Goal
  BY <1>12 DEF TimerFires, proxyVars, dpVars, ShutdownTypes, ServersInv, Excuse
<1>13. ASSUME NEW c \in Callers, CallStep(c)
       PROVE  UNCHANGED ctxDone
  BY <1>13 DEF CallStep, RunClaim, RunStart, Load, MoveState, AdminRequest, SignalKill
<1>14. ASSUME WaiterStep \/ CtxKill \/ ProcStops \/ ProcCrash
       PROVE  UNCHANGED ctxDone
  BY <1>14 DEF WaiterStep, WaitReturns, MarkExited, CloseExited, CtxKill, ProcStops, ProcCrash, ProcExit
<1>15. CASE UNCHANGED vars
  BY <1>15, <1>10 DEF vars, proxyVars
<1>16. QED
  <2> HIDE DEF Goal
  <2>1. CASE GoStep
    BY <2>1, <1>3, <1>4, <1>5, <1>6, <1>7, <1>8, <1>9, <1>10, <1>11, <1>12, <1>13, <1>14
       DEF GoStep, GracefulShutdownHandler, dpVars
  <2>2. CASE EnvoyStep
    BY <2>2, <1>10, <1>14 DEF EnvoyStep
  <2>3. QED
    BY <2>1, <2>2, <1>9, <1>15 DEF Next

(* The calls and the process, given that an excuse stays. *)
LEMMA CallsNext ==
  ASSUME GraceInv, [Next]_vars, Excuse => Excuse'
  PROVE  CallTypes' /\ ProcessThere' /\ CallsInv'
<1> DEFINE Goal == CallTypes' /\ ProcessThere' /\ CallsInv'
<1> SUFFICES Goal
  OBVIOUS
<1> USE DEF GraceInv
<1>1. ASSUME UNCHANGED <<state, call, proc>>,
             main' = "running" => main = "running",
             main' \in Late \/ sel' # "off" => proc # "none",
             sel' = "quit" => sel = "quit"
      PROVE  Goal
  BY <1>1 DEF CallTypes, ProcessThere, CallsInv, CallOK, InCall
<1>2. ASSUME state' \in States, UNCHANGED <<call, main, sel>>,
             proc # "none" => proc' # "none",
             proc' \in {"quitting", "killed"} => proc' = proc \/ Excuse'
      PROVE  Goal
  BY <1>2 DEF CallTypes, ProcessThere, CallsInv, CallOK, InCall
<1>3. ASSUME NEW c \in Callers \ {Main}, CallTypes', UNCHANGED <<proc, main>>,
             \A d \in Callers \ {c} : call'[d] = call[d],
             CallOK(c)',
             sel' # "off" => sel # "off",
             sel' = "quit" => Excuse'
      PROVE  Goal
  <2>1. \A d \in Callers : CallOK(d)'
    BY <1>3 DEF CallsInv, CallOK, InCall
  <2>2. ProcessThere'
    BY <1>3, DataplaneAssumption DEF ProcessThere
  <2>3. QED
    BY <1>3, <2>1, <2>2 DEF CallsInv
<1>4. CASE RunStep
  <2>1. CASE StartupFails \/ StartupAdvances \/ Connected \/ DNSProxyMode \/ SetupXDSServer
    <3>1. main' \notin Late \cup {"running"}
      <4>1. CASE StartupAdvances
        BY <4>1, SMT DEF StartupAdvances, Enter, Succ, Late
      <4>2. CASE StartupFails \/ Connected \/ DNSProxyMode \/ SetupXDSServer
        BY <4>2 DEF StartupFails, Connected, DNSProxyMode, SetupXDSServer, RunReturns, Enter, Late
      <4>3. QED
        BY <2>1, <4>1, <4>2
    <3>2. UNCHANGED <<proxyVars, sel>>
      BY <2>1 DEF StartupFails, StartupAdvances, Connected, DNSProxyMode, SetupXDSServer, RunReturns, Enter
    <3>3. QED
      BY <3>1, <3>2, <1>1 DEF proxyVars, ProcessThere
  <2>2. CASE RunProxy
    <3>1. Begin(Main, "Run") /\ main' = "running" /\ UNCHANGED sel
      BY <2>2 DEF RunProxy, Enter
    <3>2. CallTypes' /\ call'[Main].op = "Run" /\ call'[Main].res = "none" /\ UNCHANGED proc
      BY <3>1, BeginEffect, DataplaneAssumption DEF Ops
    <3>3. \A d \in Callers \ {Main} : call'[d] = call[d]
      BY <3>1, BeginEffect, DataplaneAssumption DEF Ops
    <3>4. QED
      BY <3>1, <3>2, <3>3 DEF ProcessThere, CallsInv, CallOK, InCall, Late
  <2>3. CASE ProxyRan
    <3>1. UNCHANGED <<proxyVars, sel>> /\ main = "running"
      BY <2>3 DEF ProxyRan, Enter, RunReturns
    <3>2. main' # "running" /\ (main' \in Late => call[Main].res = "ok")
      BY <2>3 DEF ProxyRan, Enter, RunReturns, Late
    <3>3. QED
      BY <3>1, <3>2, <1>1 DEF proxyVars, ProcessThere
  <2>4. CASE StartMetrics \/ AssignLifecycle \/ StartLifecycle \/ SpawnSelect
    <3>1. /\ UNCHANGED <<state, call, proc>> /\ main \in Late
          /\ main' # "running" /\ (sel' # "quit" \/ UNCHANGED sel)
      BY <2>4 DEF StartMetrics, AssignLifecycle, StartLifecycle, SpawnSelect, Enter, Listen, proxyVars, Late
    <3>2. QED
      BY <3>1, <1>1 DEF ProcessThere
  <2>5. QED
    BY <1>4, <2>1, <2>2, <2>3, <2>4 DEF RunStep
<1>5. CASE SelectStep
  <2>1. CASE SelectCtxDone \/ SelectProxyExited \/ SelectMetricsExited \/ SelectKillReturned
    <3>1. UNCHANGED <<state, call, proc>> /\ sel # "off" /\ sel' = "done" /\ main' = "returning"
      BY <2>1 DEF SelectCtxDone, SelectProxyExited, SelectMetricsExited, SelectKillReturned, Receive,
         Done, RunReturns, proxyVars
    <3>2. QED
      BY <3>1, <1>1 DEF ProcessThere, Late
  <2>2. ASSUME NEW s \in {"xds", "lifecycle"}, SelectServerExited(s)
        PROVE  Goal
    <3>1. /\ Begin(Select, "Quit") /\ UNCHANGED <<lcVars, xds, main>>
          /\ sel # "off" /\ (xds = "failed" \/ lcExit = "closed")
      BY <2>2 DEF SelectServerExited
    <3>2. Excuse
      BY <3>1 DEF ServersInv, Excuse
    <3>3. CallTypes' /\ CallOK(Select)' /\ UNCHANGED proc
      BY <3>1, <3>2, BeginEffect, DataplaneAssumption DEF Ops, CallOK
    <3>4. \A d \in Callers \ {Select} : call'[d] = call[d]
      BY <3>1, BeginEffect, DataplaneAssumption DEF Ops
    <3>5. QED
      BY <3>1, <3>2, <3>3, <3>4, <1>3, DataplaneAssumption
  <2>3. CASE SelectQuitReturned /\ call[Select].res = "ok"
    <3>1. UNCHANGED proxyVars /\ sel = "quit" /\ sel' = "done" /\ main' = "returning"
      BY <2>3 DEF SelectQuitReturned, Done, RunReturns
    <3>2. QED
      BY <3>1, <1>1 DEF proxyVars, ProcessThere, Late
  <2>4. CASE SelectQuitReturned /\ call[Select].res # "ok"
    <3>1. Begin(Select, "Kill") /\ sel = "quit" /\ sel' = "kill" /\ UNCHANGED main
      BY <2>4 DEF SelectQuitReturned
    <3>2. Excuse /\ proc # "none"
      BY <3>1 DEF CallsInv, ProcessThere
    <3>3. CallTypes' /\ CallOK(Select)' /\ UNCHANGED proc
      BY <3>1, <3>2, BeginEffect, DataplaneAssumption DEF Ops, CallOK
    <3>4. \A d \in Callers \ {Select} : call'[d] = call[d]
      BY <3>1, BeginEffect, DataplaneAssumption DEF Ops
    <3>5. QED
      BY <3>1, <3>3, <3>4, <1>3, DataplaneAssumption
  <2>5. QED
    BY <1>5, <2>1, <2>2, <2>3, <2>4 DEF SelectStep
<1>6. CASE ServerStep \/ LifecycleServerStep \/ MainStep \/ SignalArrives
  <2>1. UNCHANGED <<state, call, proc, sel>> /\ (main' = main \/ main' \in {"cancelled", "exited"})
    BY <1>6 DEF ServerStep, LifecycleServerStep, MainStep, MainCancels, MainExits, SignalArrives, proxyVars, dpVars
  <2>2. QED
    BY <2>1, <1>1 DEF ProcessThere, Late
<1>7. ASSUME NEW g \in Shutdowns, NEW op \in {"DumpConfig", "Drain"}, Begin(g, op), UNCHANGED <<main, sel>>
      PROVE  Goal
  <2>1. g \in Callers \ {Main}
    BY LifecycleAssumption, DataplaneAssumption
  <2>2. CallTypes' /\ CallOK(g)' /\ UNCHANGED proc
    BY <1>7, <2>1, BeginEffect DEF Ops, CallOK
  <2>3. \A d \in Callers \ {g} : call'[d] = call[d]
    BY <1>7, <2>1, BeginEffect DEF Ops
  <2>4. QED
    BY <1>7, <2>1, <2>2, <2>3, <1>3 DEF CallsInv
<1>8. ASSUME NEW g \in Shutdowns, Forget(g), UNCHANGED <<main, sel>>
      PROVE  Goal
  <2>1. g \in Callers \ {Main}
    BY LifecycleAssumption, DataplaneAssumption
  <2>2. CallTypes' /\ call'[g] = NoCall /\ UNCHANGED proc
    BY <1>8, <2>1, ForgetEffect
  <2>3. CallOK(g)'
    BY <2>2, SMT DEF CallOK, InCall, NoCall
  <2>4. \A d \in Callers \ {g} : call'[d] = call[d]
    BY <1>8, <2>1, ForgetEffect
  <2>5. QED
    BY <1>8, <2>1, <2>2, <2>3, <2>4, <1>3 DEF CallsInv
<1>9. ASSUME UNCHANGED <<state, call, proc, main, sel>>
      PROVE  Goal
  BY <1>9, <1>1 DEF ProcessThere
<1>10. ASSUME NEW g \in Shutdowns, ShutdownBegin(g), UNCHANGED <<main, sel>>
       PROVE  Goal
  <2>1. Begin(g, "DumpConfig") \/ UNCHANGED proxyVars
    BY <1>10 DEF ShutdownBegin
  <2>2. QED
    BY <1>10, <2>1, <1>7, <1>9 DEF proxyVars
<1>11. CASE GracefulShutdown
  BY <1>11, <1>9, <1>10, DataplaneAssumption DEF GracefulShutdown
<1>12. ASSUME NEW g \in Shutdowns, ShutdownStep(g), UNCHANGED dpVars
       PROVE  Goal
  <2>1. CASE ShutdownDrain(g)
    BY <1>12, <2>1, <1>7, <1>8 DEF ShutdownDrain, dpVars
  <2>2. CASE ShutdownDrained(g) \/ ShutdownReturn(g)
    BY <1>12, <2>2, <1>8 DEF ShutdownDrained, ShutdownReturn, dpVars
  <2>3. CASE ShutdownQuit(g)
    <3>1. g \in Callers \ {Main}
      BY LifecycleAssumption, DataplaneAssumption
    <3>2. Begin(g, "Quit") /\ Excuse
      BY <2>3 DEF ShutdownQuit, Excuse
    <3>3. CallTypes' /\ CallOK(g)' /\ UNCHANGED proc
      BY <3>1, <3>2, BeginEffect DEF Ops, CallOK
    <3>4. \A d \in Callers \ {g} : call'[d] = call[d]
      BY <3>1, <3>2, BeginEffect DEF Ops
    <3>5. QED
      BY <1>12, <3>1, <3>2, <3>3, <3>4, <1>3 DEF CallsInv, dpVars
  <2>4. QED
    BY <1>12, <2>1, <2>2, <2>3 DEF ShutdownStep
<1>13. ASSUME NEW c \in Callers, CallStep(c), UNCHANGED <<lcVars, dpVars>>
       PROVE  Goal
  <2>1. CallTypes' /\ UNCHANGED <<main, sel>>
    BY <1>13, CallStepEffect DEF dpVars
  <2>2. proc # "none" => proc' # "none"
    BY <1>13, CallStepEffect
  <2>3. ProcessThere'
    <3>1. CASE c = Main
      BY <1>13, <2>1, <2>2, <3>1, CallStepEffect DEF ProcessThere
    <3>2. CASE c # Main
      BY <1>13, <2>1, <2>2, <3>2, CallStepEffect, DataplaneAssumption DEF ProcessThere
    <3>3. QED
      BY <3>1, <3>2
  <2>4. \A d \in Callers : CallOK(d)'
    BY <1>13, <2>2, CallStepEffect DEF CallsInv, CallOK, InCall
  <2>5. proc' \in {"quitting", "killed"} => Excuse'
    BY <1>13, CallStepEffect DEF CallsInv, CallOK
  <2>6. QED
    BY <2>1, <2>3, <2>4, <2>5 DEF CallsInv
<1>14. CASE (WaiterStep \/ CtxKill \/ ProcStops \/ ProcCrash) /\ UNCHANGED <<lcVars, dpVars>>
  <2>1. UNCHANGED <<call, main, sel>>
    BY <1>14 DEF WaiterStep, WaitReturns, MarkExited, CloseExited, CtxKill, ProcStops, ProcCrash, ProcExit, dpVars
  <2>2. state' \in States
    BY <1>14 DEF WaiterStep, WaitReturns, MarkExited, CloseExited, TransitionState, CtxKill, ProcStops, ProcCrash,
       ProcExit, CallTypes, States
  <2>3. proc' = proc \/ proc' = "dead" \/ (proc' = "killed" /\ Excuse)
    BY <1>14 DEF WaiterStep, WaitReturns, MarkExited, CloseExited, CtxKill, ProcStops, ProcCrash, ProcExit, Excuse
  <2>4. QED
    BY <2>1, <2>2, <2>3, <1>2
<1>15. QED
  <2> HIDE DEF Goal
  <2>1. CASE GoStep
    BY <2>1, <1>4, <1>5, <1>6, <1>9, <1>10, <1>11, <1>12, <1>13, <1>14
       DEF GoStep, GracefulShutdownHandler, proxyVars, dpVars
  <2>2. CASE EnvoyStep
    BY <2>2, <1>14 DEF EnvoyStep
  <2>3. CASE UNCHANGED vars
    BY <2>3, <1>9 DEF vars, proxyVars, dpVars
  <2>4. QED
    BY <2>1, <2>2, <2>3, <1>6 DEF Next

(* Every step of the program and of Envoy preserves the invariant. *)
LEMMA GraceInvNext == GraceInv /\ [Next]_vars => GraceInv'
  BY ServersNext, CallsNext DEF GraceInv

(* Whatever fails while a graceful shutdown runs, Envoy is not asked to     *)
(* quit nor killed before the grace period is over, unless a server of the  *)
(* dataplane failed or the context was cancelled (lifecycle.go:166-211).    *)
THEOREM GracePeriodKept == Spec => []GraceHonoured
<1>1. GraceInv => GraceHonoured
  BY DEF GraceInv, CallsInv, GraceHonoured, Excuse
<1>2. QED
  BY GraceInvInit, GraceInvNext, <1>1, PTL DEF Spec

(* errorExitCh is never closed twice by the lifecycle server and the        *)
(* goroutine that stops it, and Kill always finds a process.                *)
THEOREM OnlyLoggerPanics == Spec => []NoOtherPanic
<1>1. GraceInv => NoOtherPanic
  BY DEF GraceInv, ServersInv, CallsInv, CallOK, NoOtherPanic, Panicked
<1>2. QED
  BY GraceInvInit, GraceInvNext, <1>1, PTL DEF Spec

-----------------------------------------------------------------------------
(* The proxy inside the process.                                            *)

(* gracefulShutdown drops the result of a call that has returned. *)
Forgets == \E g \in Shutdowns : ~InCall(g) /\ Forget(g)

(* To the proxy a step of the process is one of its own steps, none at all, *)
(* or a result that is dropped: Run, the select, the graceful shutdowns and *)
(* the signal only call its methods and cancel its context.                 *)
LEMMA ProxyPart ==
  ASSUME ProxyInv, [Next]_vars
  PROVE  ProxyAction \/ Forgets
<1>1. ctxDone \in BOOLEAN
  BY DEF ProxyInv, ProxyTypeOK
<1>2. ASSUME ctxDone' = TRUE, UNCHANGED <<state, proc, waitErr, waiter, call, listener>>
      PROVE  ProxyAction
  BY <1>1, <1>2, Zenon DEF ProxyAction, CtxCancel, proxyVars
<1>3. ASSUME NEW g \in Shutdowns, ShutdownBegin(g)
      PROVE  ProxyAction
  BY <1>3, LifecycleAssumption DEF ShutdownBegin, ProxyAction, Ops
<1>4. ASSUME NEW g \in Shutdowns, ShutdownStep(g)
      PROVE  ProxyAction \/ Forgets
  <2>1. (\E op \in Ops : Begin(g, op)) \/ (~InCall(g) /\ Forget(g))
    BY <1>4 DEF ShutdownStep, ShutdownDrain, ShutdownDrained, ShutdownQuit, ShutdownReturn, Ops
  <2>2. QED
    BY <2>1, LifecycleAssumption DEF ProxyAction, Forgets
<1>5. CASE RunStep
  <2>1. UNCHANGED proxyVars \/ Begin(Main, "Run") \/ Listen(Select)
    BY <1>5 DEF RunStep, StartupFails, StartupAdvances, Connected, DNSProxyMode, SetupXDSServer, RunProxy,
       ProxyRan, StartMetrics, AssignLifecycle, StartLifecycle, SpawnSelect
  <2>2. QED
    BY <2>1, DataplaneAssumption DEF ProxyAction, Ops
<1>6. CASE SelectStep
  <2>1. UNCHANGED proxyVars \/ Receive(Select) \/ Begin(Select, "Quit") \/ Begin(Select, "Kill")
    BY <1>6 DEF SelectStep, SelectCtxDone, SelectProxyExited, SelectMetricsExited, SelectServerExited,
       SelectQuitReturned, SelectKillReturned
  <2>2. QED
    BY <2>1, DataplaneAssumption DEF ProxyAction, Ops
<1>7. CASE GracefulShutdown
  BY <1>2, <1>3, <1>7, DataplaneAssumption, ZenonT(30) DEF GracefulShutdown
<1>8. CASE MainStep
  BY <1>2, <1>8, ZenonT(30) DEF MainStep, MainCancels, MainExits, ProxyAction
<1>9. CASE ServerStep \/ LifecycleServerStep \/ SignalArrives \/ UNCHANGED vars
  BY <1>9 DEF ServerStep, LifecycleServerStep, SignalArrives, vars, ProxyAction
<1>10. QED
  BY <1>3, <1>4, <1>5, <1>6, <1>7, <1>8, <1>9
     DEF Next, GoStep, EnvoyStep, GracefulShutdownHandler, ProxyAction, ProxyStep

(* Dropping a result leaves the invariant alone. *)
LEMMA InvForgets == ProxyInv /\ Forgets => ProxyInv' /\ UNCHANGED <<state, proc>>
<1> SUFFICES ASSUME ProxyInv, NEW g \in Callers, Forget(g)
             PROVE  ProxyInv' /\ UNCHANGED <<state, proc>>
  BY LifecycleAssumption DEF Forgets
<1>1. UNCHANGED <<state, proc, waitErr, waiter, ctxDone, listener>>
  BY DEF Forget
<1>2. call' \in [Callers -> Call] /\ call'[g] = NoCall /\ \A d \in Callers \ {g} : call'[d] = call[d]
  BY ForgetEffect DEF CallTypes, ProxyInv, ProxyTypeOK
<1>3. ProxyTypeOK' /\ ProcessInv' /\ NotifyInv'
  BY <1>1, <1>2 DEF ProxyInv, ProxyTypeOK, ProcessInv, NotifyInv
<1>4. ClaimInv' /\ LoadedInv' /\ KillIsFinal'
  BY <1>1, <1>2, SMT DEF ProxyInv, ClaimInv, LoadedInv, KillIsFinal, At, InCall, NoCall
<1>5. QED
  BY <1>1, <1>3, <1>4 DEF ProxyInv

(* The invariant of the proxy is one of the process. *)
LEMMA ProcessKeepsProxyInv == ProxyInv /\ [Next]_vars => ProxyInv'
  BY ProxyPart, InvAction, InvForgets

(* The whole program implements the life cycle of Envoy: whatever Run, the  *)
(* select over the servers, graceful shutdowns asked for by HTTP, signals   *)
(* and the deferred cancel do, in any order, Envoy is started once, the     *)
(* state of its proxy only moves forward, and Exited means that it is gone. *)
THEOREM ProgramImplementsLifecycle == Spec => ImplementsLifecycle
<1>1. Init => ProxyInv /\ EL!AInit
  BY InvInit DEF Init, NewProxy, EL!AInit
<1>2. ProxyInv /\ [Next]_vars => [EL!ANext]_(EL!avars)
  BY ProxyPart, RefinesAction, InvForgets DEF EL!avars
<1>3. QED
  BY <1>1, <1>2, ProcessKeepsProxyInv, PTL DEF Spec, ImplementsLifecycle, EL!ASpec
=============================================================================
