---------------------------- MODULE ProxyProofs -----------------------------
(***************************************************************************)
(* Theorems about envoy.Proxy for any set of callers and listeners.  All   *)
(* of them rest on ProxyInv, which is inductive.                           *)
(***************************************************************************)
EXTENDS Proxy, TLAPS

(* What a method goes on to do fits the method and the state it has loaded  *)
(* (the switch statements of Drain, Quit, Kill, DumpConfig and Ready).      *)
LEMMA PlanFits ==
  ASSUME NEW op \in Ops \ {"Run"}, NEW s \in States
  PROVE  /\ Plan(op, s) \in Results \cup {"cas", "http", "signal"}
         /\ Plan(op, s) = "cas" => \/ op = "Drain" /\ s = "Running"
                                   \/ op = "Quit" /\ s \in {"Running", "Draining"}
         /\ op = "Kill" /\ Plan(op, s) = "ok" => s = "Exited"
  BY DEF Plan, Ops, States, Results

(* The bookkeeping of a call that goes on, or returns, keeps its type. *)
LEMMA CallTyped ==
  ASSUME call \in [Callers -> Call], NEW c \in Callers,
         NEW r \in Results, NEW s \in States,
         NEW pc \in {"idle", "begin", "start", "cas", "http", "signal", "done"}
  PROVE  /\ Goto(c, pc, s) => call' \in [Callers -> Call]
         /\ Return(c, r) => call' \in [Callers -> Call]
  BY DEF Call, Goto, Return, States

(* The invariant holds of a new proxy. *)
LEMMA InvInit == NewProxy => ProxyInv
<1> SUFFICES ASSUME NewProxy PROVE ProxyInv
  OBVIOUS
<1>1. ProxyTypeOK
  BY Zenon DEF NewProxy, NoCall, ProxyTypeOK, States, Procs, Waiters, Call, Ops, Results
<1>2. \A c \in Callers : call[c].pc = "idle" /\ call[c].res = "none"
  BY DEF NewProxy, NoCall
<1>3. \A l \in Listeners : listener[l] = "idle"
  BY DEF NewProxy
<1>4. QED
  BY <1>1, <1>2, <1>3 DEF NewProxy, ProxyInv, ProcessInv, ClaimInv, LoadedInv, NotifyInv,
     KillIsFinal, At, InCall

(* A step of a caller, of the waiting goroutine, of Envoy or of a listener, *)
(* whether or not the program is still there.                               *)
ProxyAction ==
  \/ \E c \in Callers, op \in Ops : Begin(c, op)
  \/ ProxyStep
  \/ CtxCancel
  \/ \E l \in Listeners : Listen(l) \/ Receive(l)
  \/ UNCHANGED proxyVars

(* Every such step preserves the invariant. *)
LEMMA InvAction == ProxyInv /\ ProxyAction => ProxyInv'
<1> SUFFICES ASSUME ProxyInv, ProxyAction
             PROVE  ProxyInv'
  OBVIOUS
<1> USE DEF ProxyInv, ProxyTypeOK, States, Procs, Waiters, Results, Call
<1>1. ASSUME NEW c \in Callers, NEW op \in Ops, Begin(c, op)
      PROVE  ProxyInv'
  <2> USE <1>1 DEF Begin
  <2>1. ProxyTypeOK'
    OBVIOUS
  <2>2. ClaimInv'
    BY DEF ClaimInv, Exclusive, At, InCall, HandsOn
  <2>3. ProcessInv' /\ LoadedInv' /\ NotifyInv' /\ KillIsFinal'
    BY DEF ProcessInv, LoadedInv, NotifyInv, KillIsFinal, At
  <2>4. QED
    BY <2>1, <2>2, <2>3
<1>2. ASSUME NEW c \in Callers, RunClaim(c)
      PROVE  ProxyInv'
  <2> USE <1>2 DEF RunClaim, TransitionState, Goto, Return
  <2>1. ProxyTypeOK'
    BY DEF Ops, At
  <2>2. ProcessInv'
    BY DEF ProcessInv, ClaimInv, At
  <2>3. ClaimInv'
    BY DEF ClaimInv, ProcessInv, At, InCall, HandsOn
  <2>4. LoadedInv'
    BY DEF LoadedInv, At
  <2>5. NotifyInv'
    BY DEF NotifyInv, ProcessInv, ClaimInv, At
  <2>6. KillIsFinal'
    BY DEF KillIsFinal, ProcessInv, ClaimInv, At
  <2>7. QED
    BY <2>1, <2>2, <2>3, <2>4, <2>5, <2>6
<1>3. ASSUME NEW c \in Callers, RunStart(c)
      PROVE  ProxyInv'
  <2> USE <1>3 DEF RunStart, Return
  <2>1. ProxyTypeOK'
    BY DEF Ops, At
  <2>2. ProcessInv'
    BY DEF ProcessInv, ClaimInv, At
  <2>3. ClaimInv'
    BY DEF ClaimInv, ProcessInv, At, InCall, HandsOn
  <2>4. LoadedInv'
    BY DEF LoadedInv, At
  <2>5. NotifyInv'
    BY DEF NotifyInv, ProcessInv, ClaimInv, At
  <2>6. KillIsFinal'
    BY DEF KillIsFinal, ProcessInv, ClaimInv, At
  <2>7. QED
    BY <2>1, <2>2, <2>3, <2>4, <2>5, <2>6
<1>4. ASSUME NEW c \in Callers, Load(c)
      PROVE  ProxyInv'
  <2> USE <1>4 DEF Load, Goto, Return
  <2>1. ProxyTypeOK'
    BY PlanFits DEF Ops, At
  <2>2. ProcessInv'
    BY DEF ProcessInv, ClaimInv, At
  <2>3. ClaimInv'
    <3>1. /\ UNCHANGED <<state, proc>>
          /\ call[c].op # "Run" /\ InCall(c) /\ call'[c].op = call[c].op
          /\ \A d \in Callers \ {c} : call'[d] = call[d]
      BY DEF At, InCall
    <3>2. QED
      BY <3>1 DEF ClaimInv, At, InCall
  <2>4. LoadedInv'
    BY PlanFits DEF LoadedInv, At
  <2>5. NotifyInv'
    BY DEF NotifyInv, ProcessInv, ClaimInv, At
  <2>6. KillIsFinal'
    BY PlanFits DEF KillIsFinal, ProcessInv, ClaimInv, At
  <2>7. QED
    BY <2>1, <2>2, <2>3, <2>4, <2>5, <2>6
<1>5. ASSUME NEW c \in Callers, MoveState(c)
      PROVE  ProxyInv'
  <2> USE <1>5 DEF MoveState, TransitionState, Goto
  <2>1. ProxyTypeOK'
    <3>1. state' \in {state, "Draining", "Stopped"}
      BY Zenon
    <3>2. call' \in [Callers -> Call]
      BY CallTyped, Zenon
    <3>3. QED
      BY <3>1, <3>2
  <2>2. ProcessInv'
    BY DEF ProcessInv, ClaimInv, At
  <2>3. ClaimInv'
    BY DEF ClaimInv, ProcessInv, At, InCall, HandsOn
  <2>4. LoadedInv'
    BY DEF LoadedInv, At
  <2>5. NotifyInv'
    BY DEF NotifyInv, ProcessInv, ClaimInv, At
  <2>6. KillIsFinal'
    BY DEF KillIsFinal, ProcessInv, ClaimInv, At
  <2>7. QED
    BY <2>1, <2>2, <2>3, <2>4, <2>5, <2>6
<1>6. ASSUME NEW c \in Callers, AdminRequest(c)
      PROVE  ProxyInv'
  <2> USE <1>6 DEF AdminRequest, Return
  <2>1. ProxyTypeOK'
    BY DEF Ops, At
  <2>2. ProcessInv'
    BY DEF ProcessInv, ClaimInv, At
  <2>3. ClaimInv'
    <3>1. /\ UNCHANGED <<state, proc>> \/ (state' = state /\ proc # "none")
          /\ call[c].op # "Run" /\ InCall(c) /\ call'[c].op = call[c].op
          /\ \A d \in Callers \ {c} : call'[d] = call[d]
      BY DEF At, InCall
    <3>2. QED
      BY <3>1 DEF ClaimInv, At, InCall
  <2>4. LoadedInv'
    BY DEF LoadedInv, At
  <2>5. NotifyInv'
    BY DEF NotifyInv, ProcessInv, ClaimInv, At
  <2>6. KillIsFinal'
    BY DEF KillIsFinal, ProcessInv, ClaimInv, At
  <2>7. QED
    BY <2>1, <2>2, <2>3, <2>4, <2>5, <2>6
<1>7. ASSUME NEW c \in Callers, SignalKill(c)
      PROVE  ProxyInv'
  <2> USE <1>7 DEF SignalKill, Return
  <2> KillResult \in Results
    BY DEF KillResult
  <2>1. ProxyTypeOK'
    <3>1. call' \in [Callers -> Call]
      BY CallTyped, Zenon
    <3>2. QED
      BY <3>1
  <2>2. ProcessInv'
    BY DEF ProcessInv, ClaimInv, At
  <2>3. ClaimInv'
    BY DEF ClaimInv, ProcessInv, At, InCall, HandsOn
  <2>4. LoadedInv'
    BY DEF LoadedInv, At
  <2>5. NotifyInv'
    BY DEF NotifyInv, ProcessInv, ClaimInv, At
  <2>6. KillIsFinal'
    BY DEF KillIsFinal, KillResult, ProcessInv, ClaimInv, At
  <2>7. QED
    BY <2>1, <2>2, <2>3, <2>4, <2>5, <2>6
<1>8. CASE WaiterStep \/ ProcStops \/ ProcCrash \/ CtxKill \/ CtxCancel
  <2>1. ProxyTypeOK'
    <3>1. CASE WaiterStep
      BY <3>1 DEF WaiterStep, WaitReturns, MarkExited, CloseExited, TransitionState
    <3>2. CASE ProcStops \/ ProcCrash
      BY <3>2 DEF ProcStops, ProcCrash, ProcExit
    <3>3. CASE CtxKill
      BY <3>3 DEF CtxKill
    <3>4. CASE CtxCancel
      BY <3>4, Zenon DEF CtxCancel
    <3>5. QED
      BY <1>8, <3>1, <3>2, <3>3, <3>4
  <2> USE <1>8 DEF WaiterStep, WaitReturns, MarkExited, CloseExited, TransitionState,
                   ProcStops, ProcCrash, ProcExit, CtxKill, CtxCancel
  <2>2. ProcessInv'
    BY DEF ProcessInv
  <2>3. ClaimInv'
    BY DEF ClaimInv, ProcessInv, At, InCall
  <2>4. LoadedInv' /\ NotifyInv' /\ KillIsFinal'
    BY DEF LoadedInv, NotifyInv, KillIsFinal, At
  <2>5. QED
    BY <2>1, <2>2, <2>3, <2>4
<1>9. CASE \E l \in Listeners : Listen(l) \/ Receive(l)
  BY <1>9 DEF Listen, Receive, ProcessInv, ClaimInv, LoadedInv, NotifyInv, KillIsFinal, At, InCall
<1>10. CASE UNCHANGED proxyVars
  BY <1>10 DEF proxyVars, ProcessInv, ClaimInv, LoadedInv, NotifyInv, KillIsFinal, At, InCall
<1>11. QED
  BY <1>1, <1>2, <1>3, <1>4, <1>5, <1>6, <1>7, <1>8, <1>9, <1>10
     DEF ProxyAction, ProxyStep, CallStep

(* So the proxy with its own Next does. *)
LEMMA InvNext == ProxyInv /\ [ProxyNext]_proxyVars => ProxyInv'
  BY InvAction DEF ProxyNext, ProxyAction

(* Proxy.state and what goes with it keep their types, the Envoy process is *)
(* started once, and the waiting goroutine exists exactly with it.          *)
THEOREM ProxyInvariant == ProxySpec => []ProxyInv
  BY InvInit, InvNext, PTL DEF ProxySpec

(* A receiver on Exited() finds the process dead and the proxy no longer    *)
(* Running, for any number of callers and receivers.                        *)
THEOREM ReceiversSeeTheExit == ProxySpec => []NotifiedAfterExit
<1>1. ProxyInv => NotifiedAfterExit
  BY DEF ProxyInv, ProcessInv, NotifyInv, NotifiedAfterExit
<1>2. QED
  BY <1>1, ProxyInvariant, PTL

(* Kill that returned nil has signalled the process, or found it dead,      *)
(* whatever concurrent calls of Drain and Quit did to the state.            *)
THEOREM KillReachesEnvoy == ProxySpec => []KillIsFinal
<1>1. ProxyInv => KillIsFinal
  BY DEF ProxyInv
<1>2. QED
  BY <1>1, ProxyInvariant, PTL

(* A step of the proxy is one step of the life cycle, or none. *)
LEMMA RefinesAction == ProxyInv /\ ProxyAction => [EL!ANext]_(EL!avars)
<1> SUFFICES ASSUME ProxyInv, ProxyAction
             PROVE  [EL!ANext]_(EL!avars)
  OBVIOUS
<1> USE DEF EL!ANext, EL!avars
<1>1. CASE state' = state /\ proc' = proc
  BY <1>1
<1>2. ASSUME NEW c \in Callers, RunClaim(c)
      PROVE  [EL!ANext]_(EL!avars)
  BY <1>2 DEF RunClaim, TransitionState, EL!ARun
<1>3. ASSUME NEW c \in Callers, RunStart(c)
      PROVE  [EL!ANext]_(EL!avars)
  BY <1>3 DEF RunStart, EL!ASpawn, ProxyInv, ClaimInv, At
<1>4. ASSUME NEW c \in Callers, MoveState(c)
      PROVE  [EL!ANext]_(EL!avars)
  BY <1>4 DEF MoveState, TransitionState, At, ProxyInv, LoadedInv, EL!ADrain, EL!AQuit
<1>5. ASSUME NEW c \in Callers, AdminRequest(c) \/ SignalKill(c)
      PROVE  [EL!ANext]_(EL!avars)
  BY <1>5 DEF AdminRequest, SignalKill
<1>6. CASE ProcStops \/ ProcCrash \/ CtxKill
  BY <1>6 DEF ProcStops, ProcCrash, ProcExit, CtxKill, EL!ADie
<1>7. CASE MarkExited
  BY <1>7 DEF MarkExited, TransitionState, EL!AExit, ProxyInv, ProcessInv
<1>8. QED
  BY <1>1, <1>2, <1>3, <1>4, <1>5, <1>6, <1>7
     DEF ProxyAction, ProxyStep, CallStep, WaiterStep, Begin, Load, WaitReturns, CloseExited,
         CtxCancel, Listen, Receive, proxyVars

(* Proxy implements EnvoyLifecycle: each atomic step of a method, of the    *)
(* waiting goroutine or of the process is one step of the life cycle, or    *)
(* none.                                                                    *)
THEOREM ProxyRefines == ProxySpec => ImplementsLifecycle
<1>1. NewProxy => EL!AInit
  BY DEF NewProxy, EL!AInit
<1>2. ProxyInv /\ [ProxyNext]_proxyVars => [EL!ANext]_(EL!avars)
  BY RefinesAction DEF ProxyNext, ProxyAction
<1>3. QED
  BY <1>1, <1>2, ProxyInvariant, PTL DEF ProxySpec, ImplementsLifecycle, EL!ASpec
=============================================================================
