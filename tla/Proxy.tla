------------------------------- MODULE Proxy --------------------------------
(***************************************************************************)
(* envoy.Proxy (pkg/envoy/proxy.go): the manager of the Envoy child        *)
(* process.  Its state word is read and moved with atomic operations and   *)
(* no lock is held across an operation, so an operation of one caller      *)
(* (load the state, move it, talk to Envoy) interleaves with those of the  *)
(* others, with the goroutine that waits for the process, and with the     *)
(* process itself.                                                         *)
(***************************************************************************)
EXTENDS Naturals

CONSTANTS
  Callers,    \* goroutines that call the proxy's methods
  Listeners   \* goroutines that receive from the Exited channel

VARIABLES
  state,      \* Proxy.state
  proc,       \* the Envoy process: none, up, quitting, killed, dead
  waitErr,    \* what cmd.Wait reports for the process: nil or err
  waiter,     \* the goroutine of Run that reaps the process, and exitedCh
  call,       \* per caller: the method in progress, or its result; seen is the
              \* state it has loaded and will compare with
  ctxDone,    \* the context given to Run is done
  listener    \* per listener: not yet, blocked in, or back from the receive

proxyVars == <<state, proc, waitErr, waiter, call, ctxDone, listener>>

States == {"Initial", "Running", "Draining", "Stopped", "Exited"}
Ops    == {"Run", "Drain", "Quit", "Kill", "DumpConfig", "Ready"}
Procs  == {"none", "up", "quitting", "killed", "dead"}

(* send: blocked in "exitedCh <- err"; close: about to close exitedCh. *)
Waiters == {"off", "wait", "cas", "send", "close", "closed"}

(* no is Ready's (false, nil); panic a nil dereference. *)
Results == {"none", "ok", "no", "err", "panic"}

Call == [op : Ops, pc : {"idle", "begin", "start", "cas", "http", "signal", "done"},
         seen : States, res : Results]

ProxyTypeOK ==
  /\ state \in States
  /\ proc \in Procs
  /\ waitErr \in {"nil", "err"}
  /\ waiter \in Waiters
  /\ call \in [Callers -> Call]
  /\ ctxDone \in BOOLEAN
  /\ listener \in [Listeners -> {"idle", "blocked", "released"}]

NoCall == [op |-> "Run", pc |-> "idle", seen |-> "Initial", res |-> "none"]

NewProxy ==
  /\ state = "Initial"
  /\ proc = "none"
  /\ waitErr = "nil"
  /\ waiter = "off"
  /\ call = [c \in Callers |-> NoCall]
  /\ ctxDone = FALSE
  /\ listener = [l \in Listeners |-> "idle"]

-----------------------------------------------------------------------------
(* Calls.  The methods that reach for the process may not overlap Run: the  *)
(* source leaves that to its callers.                                       *)

InCall(c) == call[c].pc \notin {"idle", "done"}

HandsOn == {"Drain", "Quit", "Kill"}

Exclusive(op) ==
  \A c \in Callers : InCall(c) =>
    /\ op = "Run" => call[c].op \notin HandsOn
    /\ op \in HandsOn => call[c].op # "Run"

Begin(c, op) ==
  /\ ~InCall(c)
  /\ Exclusive(op)
  /\ call' = [call EXCEPT ![c] = [op |-> op, pc |-> "begin", seen |-> "Initial", res |-> "none"]]
  /\ UNCHANGED <<state, proc, waitErr, waiter, ctxDone, listener>>

At(c, ops, pc) == call[c].op \in ops /\ call[c].pc = pc

Goto(c, pc, seen) == call' = [call EXCEPT ![c].pc = pc, ![c].seen = seen]
Return(c, r) == call' = [call EXCEPT ![c].pc = "done", ![c].seen = "Initial", ![c].res = r]

(* transitionState: compare and swap of the state word. *)
TransitionState(before, after) ==
  state' = IF state = before THEN after ELSE state

-----------------------------------------------------------------------------
(* Run: claim the proxy, then start the command.                            *)

RunClaim(c) ==
  /\ At(c, {"Run"}, "begin")
  /\ TransitionState("Initial", "Running")
  /\ IF state = "Initial" THEN Goto(c, "start", "Initial") ELSE Return(c, "err")
  /\ UNCHANGED <<proc, waitErr, waiter, ctxDone, listener>>

(* cmd.Start refuses a context that is already done, and may fail. *)
RunStart(c) ==
  /\ At(c, {"Run"}, "start")
  /\ \/ /\ ~ctxDone
        /\ proc' = "up"
        /\ waiter' = "wait"
        /\ Return(c, "ok")
     \/ /\ Return(c, "err")
        /\ UNCHANGED <<proc, waiter>>
  /\ UNCHANGED <<state, waitErr, ctxDone, listener>>

-----------------------------------------------------------------------------
(* The other methods switch on the state they load.                         *)

(* Kill with the cases of Quit. *)
MutantPlan(op, s) ==
  CASE op = "Drain" -> IF s = "Running" THEN "cas" ELSE "ok"
    [] op = "Quit"  -> IF s \in {"Running", "Draining"} THEN "cas" ELSE "ok"
    [] op = "Kill"  -> IF s \in {"Running", "Draining"} THEN "signal" ELSE "ok"
    [] OTHER        -> IF s = "Running" THEN "http" ELSE "err"

(* What the method does in each state: move on to a step, or return. *)
Plan(op, s) ==
  CASE op = "Drain" ->
         CASE s = "Running" -> "cas"
           [] s = "Initial" -> "err"
           [] OTHER         -> "ok"
    [] op = "Quit" ->
         CASE s \in {"Running", "Draining"} -> "cas"
           [] s = "Initial"                 -> "err"
           [] OTHER                         -> "ok"
    [] op = "Kill" ->
         CASE s = "Exited"  -> "ok"
           [] s = "Initial" -> "err"
           [] OTHER         -> "signal"
    [] op = "DumpConfig" ->
         IF s \in {"Running", "Draining"} THEN "http" ELSE "err"
    [] OTHER ->
         IF s \in {"Running", "Initial"} THEN "http" ELSE "no"

Load(c) ==
  /\ At(c, Ops \ {"Run"}, "begin")
  /\ LET plan == Plan(call[c].op, state)
     IN IF plan \in Results
        THEN Return(c, plan)
        ELSE Goto(c, plan, IF plan = "cas" THEN state ELSE "Initial")
  /\ UNCHANGED <<state, proc, waitErr, waiter, ctxDone, listener>>

(* A plain store in place of the compare and swap. *)
MutantMoveState(c) ==
  /\ At(c, {"Drain", "Quit"}, "cas")
  /\ state' = IF call[c].op = "Drain" THEN "Draining" ELSE "Stopped"
  /\ Goto(c, "http", "Initial")
  /\ UNCHANGED <<proc, waitErr, waiter, ctxDone, listener>>

(* The result of the compare and swap is ignored: the request follows anyway. *)
MoveState(c) ==
  /\ At(c, {"Drain", "Quit"}, "cas")
  /\ TransitionState(call[c].seen, IF call[c].op = "Drain" THEN "Draining" ELSE "Stopped")
  /\ Goto(c, "http", "Initial")
  /\ UNCHANGED <<proc, waitErr, waiter, ctxDone, listener>>

(* The request to Envoy's admin API.  Envoy may serve it and the answer may *)
(* still be lost (the client gives up after ten seconds).  Only the error   *)
(* of the request is looked at, except by Ready.                            *)
AdminRequest(c) ==
  /\ At(c, {"Drain", "Quit", "DumpConfig", "Ready"}, "http")
  /\ \/ /\ proc \in {"up", "quitting"}
        /\ proc' = IF call[c].op = "Quit" THEN "quitting" ELSE proc
        /\ \E r \in {"ok", "err"} \cup (IF call[c].op = "Ready" THEN {"no"} ELSE {}) : Return(c, r)
     \/ Return(c, "err") /\ UNCHANGED proc
  /\ UNCHANGED <<state, waitErr, waiter, ctxDone, listener>>

(* cmd.Process is nil when cmd.Start failed.  Killing a reaped process is an *)
(* error, killing one that is already dead is not.                          *)
KillResult ==
  CASE proc = "none"                    -> "panic"
    [] proc = "dead" /\ waiter # "wait" -> "err"
    [] OTHER                            -> "ok"

SignalKill(c) ==
  /\ At(c, {"Kill"}, "signal")
  /\ proc' = IF proc \in {"up", "quitting"} THEN "killed" ELSE proc
  /\ Return(c, KillResult)
  /\ UNCHANGED <<state, waitErr, waiter, ctxDone, listener>>

-----------------------------------------------------------------------------
(* The process, and the goroutine of exec.CommandContext that kills it.     *)

(* Envoy exits with status 0 after quitquitquit, with a signal when killed, *)
(* and with any status when it stops of its own accord.                     *)
ProcExit(from, err) ==
  /\ proc = from
  /\ proc' = "dead"
  /\ waitErr' = err
  /\ UNCHANGED <<state, waiter, call, ctxDone, listener>>

ProcStops == ProcExit("quitting", "nil") \/ ProcExit("killed", "err")
ProcCrash == ProcExit("up", "nil") \/ ProcExit("up", "err") \/ ProcExit("quitting", "err")

CtxCancel ==
  /\ ~ctxDone
  /\ ctxDone' = TRUE
  /\ UNCHANGED <<state, proc, waitErr, waiter, call, listener>>

CtxKill ==
  /\ ctxDone
  /\ proc \in {"up", "quitting"}
  /\ proc' = "killed"
  /\ UNCHANGED <<state, waitErr, waiter, call, ctxDone, listener>>

-----------------------------------------------------------------------------
(* The goroutine that Run leaves behind.                                    *)

(* The process is not waited for. *)
MutantWaitReturns ==
  /\ waiter = "wait"
  /\ waiter' = "cas"
  /\ UNCHANGED <<state, proc, waitErr, call, ctxDone, listener>>

(* Wait reports the context's error if the kill reached a dying process. *)
WaitReturns ==
  /\ waiter = "wait"
  /\ proc = "dead"
  /\ waiter' = "cas"
  /\ waitErr' \in IF ctxDone THEN {waitErr, "err"} ELSE {waitErr}
  /\ UNCHANGED <<state, proc, call, ctxDone, listener>>

(* The notification goes out before the state is moved. *)
MutantMarkExited ==
  /\ waiter = "cas"
  /\ waiter' = "send"
  /\ UNCHANGED <<state, proc, waitErr, call, ctxDone, listener>>

(* Only a proxy that was still Running is reported as exited. *)
MutantMarkExitedSilent ==
  /\ waiter = "cas"
  /\ TransitionState("Running", "Exited")
  /\ waiter' = IF state = "Running" THEN "send" ELSE "off"
  /\ UNCHANGED <<proc, waitErr, call, ctxDone, listener>>

MarkExited ==
  /\ waiter = "cas"
  /\ TransitionState("Running", "Exited")
  /\ waiter' = "send"
  /\ UNCHANGED <<proc, waitErr, call, ctxDone, listener>>

CloseExited ==
  /\ waiter = "close"
  /\ waiter' = "closed"
  /\ UNCHANGED <<state, proc, waitErr, call, ctxDone, listener>>

Listen(l) ==
  /\ listener[l] = "idle"
  /\ listener' = [listener EXCEPT ![l] = "blocked"]
  /\ UNCHANGED <<state, proc, waitErr, waiter, call, ctxDone>>

(* exitedCh is unbuffered: the send and one receive happen together. *)
Receive(l) ==
  /\ listener[l] = "blocked"
  /\ waiter \in {"send", "closed"}
  /\ waiter' = IF waiter = "send" THEN "close" ELSE waiter
  /\ listener' = [listener EXCEPT ![l] = "released"]
  /\ UNCHANGED <<state, proc, waitErr, call, ctxDone>>

-----------------------------------------------------------------------------

CallStep(c) == RunClaim(c) \/ RunStart(c) \/ Load(c) \/ MoveState(c) \/ AdminRequest(c) \/ SignalKill(c)

WaiterStep == WaitReturns \/ MarkExited \/ CloseExited

(* A nil dereference ends the program (Envoy, in its own process group, not). *)
Panicked == \E c \in Callers : call[c].res = "panic"

ProxyStep ==
  \/ \E c \in Callers : CallStep(c)
  \/ WaiterStep \/ ProcStops \/ ProcCrash \/ CtxKill

ProxyNext ==
  \/ /\ ~Panicked
     /\ \/ \E c \in Callers, op \in Ops : Begin(c, op)
        \/ ProxyStep
        \/ CtxCancel
        \/ \E l \in Listeners : Listen(l) \/ Receive(l)
  \/ Panicked /\ UNCHANGED proxyVars

ProxySpec == NewProxy /\ [][ProxyNext]_proxyVars

(* Goroutines that can run do run, a call to the admin API ends (the client *)
(* has a timeout), and Envoy exits once it has accepted quitquitquit or has *)
(* been killed.  Nobody has to call a method, and Envoy need not crash.     *)
ProxyFairness ==
  /\ \A c \in Callers : WF_proxyVars(~Panicked /\ CallStep(c))
  /\ WF_proxyVars(~Panicked /\ WaiterStep)
  /\ WF_proxyVars(~Panicked /\ ProcStops)
  /\ WF_proxyVars(~Panicked /\ CtxKill)
  /\ \A l \in Listeners : WF_proxyVars(~Panicked /\ Receive(l))

ProxyFairSpec == ProxySpec /\ ProxyFairness

-----------------------------------------------------------------------------
(* Properties.                                                              *)

(* Proxy.Run, Drain, Quit, Kill and the waiting goroutine, interleaved in   *)
(* any way, implement the abstract life cycle: Envoy is started once and    *)
(* only while the proxy is Running, the state only moves forward, and       *)
(* Exited is reached only from Running and only when the process is gone.   *)
EL == INSTANCE EnvoyLifecycle WITH
        alive <- CASE proc = "none" -> "none"
                   [] proc = "dead" -> "no"
                   [] OTHER         -> "yes"

ImplementsLifecycle == EL!ASpec

(* A goroutine that receives from Exited() never finds the proxy still      *)
(* Running: the state is moved before the notification, so Ready, Drain and *)
(* Quit no longer talk to the dead process on its behalf.                   *)
NotifiedAfterExit ==
  \A l \in Listeners : listener[l] = "released" => proc = "dead" /\ state # "Running"

(* When Kill returns nil the process has been sent the signal or is already *)
(* gone, also when an earlier Quit or Drain failed half way.                *)
KillIsFinal ==
  \A c \in Callers : At(c, {"Kill"}, "done") /\ call[c].res = "ok" => proc \in {"killed", "dead"}

(* The waiting goroutine exists with the process, and passes the point of   *)
(* Wait only when it is dead.                                               *)
ProcessInv ==
  /\ proc = "none" <=> waiter = "off"
  /\ waiter \in {"cas", "send", "close", "closed"} => proc = "dead"
  /\ waiter \in {"send", "close", "closed"} => state # "Running"
  /\ state = "Initial" => proc = "none"
  /\ state = "Exited" => proc = "dead"

(* The process is started by the one caller that claimed the state, while   *)
(* no method that touches the process is in progress.                       *)
ClaimInv ==
  /\ \A c \in Callers : At(c, {"Run"}, "start") => state = "Running" /\ proc = "none"
  /\ \A c, d \in Callers : At(c, {"Run"}, "start") /\ At(d, {"Run"}, "start") => c = d
  /\ \A c, d \in Callers : InCall(c) /\ call[c].op = "Run" /\ InCall(d) => call[d].op \notin HandsOn

(* A caller about to compare and swap has loaded a state its move is for. *)
LoadedInv ==
  \A c \in Callers : call[c].pc = "cas" =>
    \/ call[c].op = "Drain" /\ call[c].seen = "Running"
    \/ call[c].op = "Quit" /\ call[c].seen \in {"Running", "Draining"}

(* Nobody has received from Exited() before the goroutine has sent. *)
NotifyInv ==
  \A l \in Listeners : listener[l] = "released" => waiter \in {"close", "closed"}

(* The inductive invariant of Proxy: its types, and the five facts above.   *)
ProxyInv ==
  ProxyTypeOK /\ ProcessInv /\ ClaimInv /\ LoadedInv /\ NotifyInv /\ KillIsFinal

(* Every goroutine that waits on Exited() is released once Envoy is gone,   *)
(* however many they are and whatever Drain and Quit did to the state.      *)
ListenersReleased ==
  \A l \in Listeners :
    (listener[l] = "blocked" /\ proc = "dead") ~> (listener[l] = "released" \/ Panicked)
=============================================================================
