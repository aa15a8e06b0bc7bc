---------------------------- MODULE MetricsCache ----------------------------
(***************************************************************************)
(* metricscache.Sink (pkg/metrics-cache): keeps the metrics emitted during *)
(* start-up until SetSink installs the real sink, replays them there, and  *)
(* forwards from then on.  Emitters skip the mutex once checkLock is off,  *)
(* and SetSink turns it off before it has set the real sink, so that their *)
(* reads of realSink and their appends race with it.                       *)
(***************************************************************************)
EXTENDS Naturals, Sequences, Functions

CONSTANTS
  Emitters,    \* goroutines that emit metrics
  KindOf,      \* the kind of metric each of them emits
  Setters,     \* goroutines that call SetSink
  MaxEmits,    \* how many metrics an emitter emits (a bound of the model)
  Nobody       \* mu is not held

ReplayOrder == <<"samples", "gauges", "counters", "keys">>
Kinds == {"samples", "gauges", "counters", "keys"}

ASSUME MetricsCacheAssumption ==
  /\ KindOf \in [Emitters -> Kinds]
  /\ MaxEmits \in Nat
  /\ Nobody \notin Emitters \cup Setters
  /\ Emitters \cap Setters = {}

VARIABLES
  checkLock,   \* the atomic flag: emitters must take mu
  mu,          \* who holds the mutex
  realSink,    \* nil, torn (one word of the interface written), set
  cache,       \* the four slices of cached metrics
  delivered,   \* the metrics the real sink was given, in order
  emitter,     \* per emitter: its step, and how many metrics it has emitted
  setter,      \* per caller of SetSink: its step
  once,        \* the sync.Once: no, running, done
  replayed,    \* the kind being replayed, and what is left of its slice
  early        \* history: what was cached when SetSink got the mutex

cacheVars == <<checkLock, mu, realSink, cache, delivered, emitter, setter, once, replayed, early>>

(* A metric is named by its emitter and its number among that emitter's. *)
AllMetrics == Emitters \X (1..MaxEmits)

TypeOK ==
  /\ checkLock \in BOOLEAN
  /\ mu \in Emitters \cup Setters \cup {Nobody}
  /\ realSink \in {"nil", "torn", "set"}
  /\ cache \in [Kinds -> Seq(AllMetrics)]
  /\ delivered \in Seq(AllMetrics)
  /\ emitter \in [Emitters -> [pc : {"idle", "lock", "check", "append", "forward", "panic"},
                               n : 0..MaxEmits]]
  /\ setter \in [Setters -> {"idle", "lock", "store", "assign", "replay", "done"}]
  /\ once \in {"no", "running", "done"}
  /\ replayed \in [kind : 1..5, left : Seq(AllMetrics), on : BOOLEAN]
  /\ early \in Seq(AllMetrics)

CacheInit ==
  /\ checkLock = TRUE
  /\ mu = Nobody
  /\ realSink = "nil"
  /\ cache = [k \in Kinds |-> <<>>]
  /\ delivered = <<>>
  /\ emitter = [e \in Emitters |-> [pc |-> "idle", n |-> 0]]
  /\ setter = [s \in Setters |-> "idle"]
  /\ once = "no"
  /\ replayed = [kind |-> 1, left |-> <<>>, on |-> FALSE]
  /\ early = <<>>

-----------------------------------------------------------------------------
(* SetGaugeWithLabels, EmitKey, IncrCounterWithLabels, AddSampleWithLabels: *)
(* the same steps, each on its own slice.                                   *)

Step(e, pc) == emitter' = [emitter EXCEPT ![e].pc = pc]
Unlock(g) == mu' = IF mu = g THEN Nobody ELSE mu
Metric(e) == <<e, emitter[e].n>>

EmitLoad(e) ==
  /\ emitter[e].pc = "idle"
  /\ emitter[e].n < MaxEmits
  /\ emitter' = [emitter EXCEPT ![e] = [pc |-> IF checkLock THEN "lock" ELSE "check", n |-> @.n + 1]]
  /\ UNCHANGED <<checkLock, mu, realSink, cache, delivered, setter, once, replayed, early>>

EmitLock(e) ==
  /\ emitter[e].pc = "lock"
  /\ mu = Nobody
  /\ mu' = e
  /\ Step(e, "check")
  /\ UNCHANGED <<checkLock, realSink, cache, delivered, setter, once, replayed, early>>

(* A half written interface passes for one and has no receiver. *)
EmitCheck(e) ==
  /\ emitter[e].pc = "check"
  /\ Step(e, CASE realSink = "nil" -> "append" [] realSink = "set" -> "forward" [] OTHER -> "panic")
  /\ UNCHANGED <<checkLock, mu, realSink, cache, delivered, setter, once, replayed, early>>

(* Mutant: the return after forwarding is missing. *)
MutantEmitForward(e) ==
  /\ emitter[e].pc = "forward"
  /\ delivered' = Append(delivered, Metric(e))
  /\ cache' = [cache EXCEPT ![KindOf[e]] = Append(@, Metric(e))]
  /\ Unlock(e)
  /\ Step(e, "idle")
  /\ UNCHANGED <<checkLock, realSink, setter, once, replayed, early>>

EmitForward(e) ==
  /\ emitter[e].pc = "forward"
  /\ delivered' = Append(delivered, Metric(e))
  /\ Unlock(e)
  /\ Step(e, "idle")
  /\ UNCHANGED <<checkLock, realSink, cache, setter, once, replayed, early>>

(* Mutant: the caching path returns with mu held. *)
MutantEmitAppend(e) ==
  /\ emitter[e].pc = "append"
  /\ cache' = [cache EXCEPT ![KindOf[e]] = Append(@, Metric(e))]
  /\ Step(e, "idle")
  /\ UNCHANGED <<checkLock, mu, realSink, delivered, setter, once, replayed, early>>

(* Mutant: the caching path takes mu again, which its holder waits for. *)
MutantEmitAppendLocks(e) ==
  /\ emitter[e].pc = "append" /\ mu = Nobody
  /\ cache' = [cache EXCEPT ![KindOf[e]] = Append(@, Metric(e))]
  /\ Step(e, "idle")
  /\ UNCHANGED <<checkLock, mu, realSink, delivered, setter, once, replayed, early>>

(* An append that races with another write of the slice may be lost. *)
EmitAppend(e) ==
  /\ emitter[e].pc = "append"
  /\ LET appended == [cache EXCEPT ![KindOf[e]] = Append(@, Metric(e))]
     IN cache' \in IF mu = e THEN {appended} ELSE {appended, cache}
  /\ Unlock(e)
  /\ Step(e, "idle")
  /\ UNCHANGED <<checkLock, realSink, delivered, setter, once, replayed, early>>

Emit(e) == EmitLoad(e) \/ EmitLock(e) \/ EmitCheck(e) \/ EmitForward(e) \/ EmitAppend(e)

-----------------------------------------------------------------------------
(* SetSink and replay.                                                      *)

(* once.Do: the first caller runs the function, the others wait for it. *)
SetSink(s) ==
  /\ setter[s] = "idle"
  /\ \/ once = "no" /\ once' = "running" /\ setter' = [setter EXCEPT ![s] = "lock"]
     \/ once = "done" /\ setter' = [setter EXCEPT ![s] = "done"] /\ UNCHANGED once
  /\ UNCHANGED <<checkLock, mu, realSink, cache, delivered, emitter, replayed, early>>

(* The four slices, one after the other. *)
Join(samples, gauges, counters, keys) == samples \o (gauges \o (counters \o keys))

SetLock(s) ==
  /\ setter[s] = "lock"
  /\ mu = Nobody
  /\ mu' = s
  /\ setter' = [setter EXCEPT ![s] = "store"]
  /\ early' = Join(cache["samples"], cache["gauges"], cache["counters"], cache["keys"])
  /\ UNCHANGED <<checkLock, realSink, cache, delivered, emitter, once, replayed>>

SetStore(s) ==
  /\ setter[s] = "store"
  /\ checkLock' = FALSE
  /\ setter' = [setter EXCEPT ![s] = "assign"]
  /\ UNCHANGED <<mu, realSink, cache, delivered, emitter, once, replayed, early>>

(* The interface is two words, written one after the other. *)
SetAssign(s) ==
  /\ setter[s] = "assign"
  /\ realSink' = IF realSink = "nil" THEN "torn" ELSE "set"
  /\ setter' = [setter EXCEPT ![s] = IF realSink = "nil" THEN "assign" ELSE "replay"]
  /\ UNCHANGED <<checkLock, mu, cache, delivered, emitter, once, replayed, early>>

(* Each slice is read when its loop begins, gone through, and emptied. *)
ReplayBegin(s) ==
  /\ setter[s] = "replay"
  /\ ~replayed.on
  /\ replayed.kind <= Len(ReplayOrder)
  /\ replayed' = [replayed EXCEPT !.on = TRUE, !.left = cache[ReplayOrder[replayed.kind]]]
  /\ UNCHANGED <<checkLock, mu, realSink, cache, delivered, emitter, setter, once, early>>

ReplayOne(s) ==
  /\ setter[s] = "replay"
  /\ replayed.left # <<>>
  /\ delivered' = Append(delivered, Head(replayed.left))
  /\ replayed' = [replayed EXCEPT !.left = Tail(@)]
  /\ UNCHANGED <<checkLock, mu, realSink, cache, emitter, setter, once, early>>

(* Mutant: the whole store is emptied after the first slice. *)
MutantReplayEmpty(s) ==
  /\ setter[s] = "replay"
  /\ replayed.on
  /\ replayed.left = <<>>
  /\ cache' = [k \in Kinds |-> <<>>]
  /\ replayed' = [replayed EXCEPT !.on = FALSE, !.kind = @ + 1]
  /\ UNCHANGED <<checkLock, mu, realSink, delivered, emitter, setter, once, early>>

ReplayEmpty(s) ==
  /\ setter[s] = "replay"
  /\ replayed.on
  /\ replayed.left = <<>>
  /\ cache' = [cache EXCEPT ![ReplayOrder[replayed.kind]] = <<>>]
  /\ replayed' = [replayed EXCEPT !.on = FALSE, !.kind = @ + 1]
  /\ UNCHANGED <<checkLock, mu, realSink, delivered, emitter, setter, once, early>>

SetUnlock(s) ==
  /\ setter[s] = "replay"
  /\ replayed.kind > Len(ReplayOrder)
  /\ mu' = Nobody
  /\ once' = "done"
  /\ setter' = [setter EXCEPT ![s] = "done"]
  /\ UNCHANGED <<checkLock, realSink, cache, delivered, emitter, replayed, early>>

Set(s) ==
  \/ SetSink(s) \/ SetLock(s) \/ SetStore(s) \/ SetAssign(s)
  \/ ReplayBegin(s) \/ ReplayOne(s) \/ ReplayEmpty(s) \/ SetUnlock(s)

-----------------------------------------------------------------------------

Panicked == \E e \in Emitters : emitter[e].pc = "panic"

Finished ==
  /\ \A e \in Emitters : emitter[e].pc = "idle" /\ emitter[e].n = MaxEmits
  /\ \A s \in Setters : setter[s] = "done"

CacheNext ==
  \/ ~Panicked /\ \E e \in Emitters : Emit(e)
  \/ ~Panicked /\ \E s \in Setters : Set(s)
  \/ (Panicked \/ Finished) /\ UNCHANGED cacheVars

CacheSpec == CacheInit /\ [][CacheNext]_cacheVars

(* Goroutines that can run do run. *)
CacheFairSpec ==
  /\ CacheSpec
  /\ \A e \in Emitters : SF_cacheVars(~Panicked /\ Emit(e))
  /\ \A s \in Setters : SF_cacheVars(~Panicked /\ Set(s))

-----------------------------------------------------------------------------
(* Properties.                                                              *)

(* What replay has still to go through: the rest of the slice it is at, and *)
(* the slices it has not read yet.                                          *)
Unread(i) ==
  IF replayed.kind < i \/ (replayed.kind = i /\ ~replayed.on)
  THEN cache[ReplayOrder[i]]
  ELSE <<>>

Pending == replayed.left \o Join(Unread(1), Unread(2), Unread(3), Unread(4))

(* The real sink is given no metric twice: what it has and what replay will *)
(* still hand it are all different, and none of them is the metric that an  *)
(* emitter is about to cache or forward.  Only the one caller that won the  *)
(* Once replays, and it holds the mutex while it does.                      *)
AtMostOnce ==
  /\ TypeOK
  /\ IsInjective(delivered \o Pending)
  /\ \A m \in Range(delivered \o Pending), e \in Emitters :
       m[1] = e => m[2] \leq emitter[e].n /\ (emitter[e].pc # "idle" => m[2] # emitter[e].n)
  /\ \A s \in Setters : setter[s] \in {"store", "assign", "replay"} <=> mu = s
  /\ \A s, t \in Setters : setter[s] = "lock" \/ mu = s => setter[t] = "idle" \/ s = t

(* All of s is in t, in the order it has in s. *)
InOrder(s, t) ==
  /\ Range(s) \subseteq Range(t)
  /\ \A i, j \in DOMAIN s, p, q \in DOMAIN t :
       s[i] = t[p] /\ s[j] = t[q] /\ i < j => p < q

(* Everything that was cached when SetSink took the mutex has been handed   *)
(* to the real sink when SetSink returns, each slice in its order, whatever *)
(* emitters forwarded in between (metricscache.go:125, "It will also replay *)
(* all the cached metrics").  That none was handed over twice is AtMostOnce.*)
ReplayComplete == once = "done" => InOrder(early, delivered)

(* The mutex protects who takes it: an emitter that holds it finds no real  *)
(* sink or a whole one, never the half written interface, so that the panic *)
(* of EmitCheck is left to those that SetSink's early store of checkLock    *)
(* lets past the mutex.                                                     *)
LockProtects ==
  \A e \in Emitters :
    /\ mu = e => realSink # "torn" /\ emitter[e].pc \in {"check", "append", "forward"}
    /\ emitter[e].pc = "panic" => ~checkLock

(* Once SetSink is called everybody gets through: no emitter keeps the      *)
(* mutex from it, it keeps it from none, and a second SetSink returns too.  *)
EverybodyReturns == once # "no" ~> (Finished \/ Panicked)

(* metricscache_test.go:111, "require.EqualValues(t, 100, mysamples.Count)" *)
(* of 100 emitted while SetSink runs: no metric is lost.                    *)
NoneLost == Finished => AllMetrics \subseteq Range(delivered)
=============================================================================
