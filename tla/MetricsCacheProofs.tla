------------------------- MODULE MetricsCacheProofs --------------------------
(***************************************************************************)
(* What the mutex of the metrics cache protects, and what the real sink is *)
(* given, for any emitters, callers of SetSink and numbers of metrics.     *)
(***************************************************************************)
EXTENDS MetricsCache, SequenceTheorems, TLAPS

Inside == {"store", "assign", "replay"}

LockTypeOK ==
  /\ checkLock \in BOOLEAN
  /\ realSink \in {"nil", "torn", "set"}
  /\ emitter \in [Emitters -> [pc : {"idle", "lock", "check", "append", "forward", "panic"}, n : Nat]]
  /\ setter \in [Setters -> {"idle", "lock", "done"} \cup Inside]

(* The caller of SetSink that holds mu is the one between Lock and Unlock, *)
(* and the interface is half written only while it is there and after it   *)
(* has told emitters not to take mu any more.                              *)
SetterInv ==
  /\ \A s \in Setters : /\ setter[s] \in Inside <=> mu = s
                        /\ setter[s] = "assign" => ~checkLock
                        /\ setter[s] = "replay" => realSink = "set"
  /\ realSink = "torn" => mu \in Setters /\ ~checkLock

(* LockProtects speaks of emitters; it is inductive with what SetSink does. *)
LockInv == LockTypeOK /\ SetterInv /\ LockProtects

(* The invariant holds of a new cache sink. *)
LEMMA LockInvInit == CacheInit => LockInv
<1> SUFFICES ASSUME CacheInit PROVE LockInv
  OBVIOUS
<1>1. LockTypeOK
  BY DEF CacheInit, LockTypeOK, Inside
<1>2. QED
  BY <1>1, MetricsCacheAssumption DEF CacheInit, LockInv, SetterInv, LockProtects, Inside

(* Every atomic access of an emitter or of SetSink preserves it. *)
LEMMA LockInvNext == LockInv /\ [CacheNext]_cacheVars => LockInv'
<1> SUFFICES ASSUME LockInv, [CacheNext]_cacheVars
             PROVE  LockInv'
  OBVIOUS
<1> USE MetricsCacheAssumption DEF LockInv, LockTypeOK, SetterInv, LockProtects, Inside
<1>1. ASSUME NEW e \in Emitters, EmitLoad(e)
      PROVE  LockInv'
  BY <1>1 DEF EmitLoad
<1>2. ASSUME NEW e \in Emitters, EmitLock(e)
      PROVE  LockInv'
  BY <1>2 DEF EmitLock, Step
<1>3. ASSUME NEW e \in Emitters, EmitCheck(e)
      PROVE  LockInv'
  BY <1>3 DEF EmitCheck, Step
<1>4. ASSUME NEW e \in Emitters, EmitForward(e) \/ EmitAppend(e)
      PROVE  LockInv'
  <2>1. /\ emitter' = [emitter EXCEPT ![e].pc = "idle"]
        /\ mu' = IF mu = e THEN Nobody ELSE mu
        /\ UNCHANGED <<checkLock, realSink, setter>>
    BY <1>4 DEF EmitForward, EmitAppend, Step, Unlock
  <2>2. QED
    BY <2>1
<1>5. ASSUME NEW s \in Setters, SetSink(s)
      PROVE  LockInv'
  BY <1>5 DEF SetSink
<1>6. ASSUME NEW s \in Setters, SetLock(s)
      PROVE  LockInv'
  BY <1>6 DEF SetLock
<1>7. ASSUME NEW s \in Setters, SetStore(s)
      PROVE  LockInv'
  BY <1>7, Zenon DEF SetStore
<1>8. ASSUME NEW s \in Setters, SetAssign(s)
      PROVE  LockInv'
  BY <1>8 DEF SetAssign
<1>9. ASSUME NEW s \in Setters, ReplayBegin(s) \/ ReplayOne(s) \/ ReplayEmpty(s)
      PROVE  LockInv'
  BY <1>9 DEF ReplayBegin, ReplayOne, ReplayEmpty
<1>10. ASSUME NEW s \in Setters, SetUnlock(s)
       PROVE  LockInv'
  BY <1>10 DEF SetUnlock
<1>11. CASE UNCHANGED cacheVars
  BY <1>11 DEF cacheVars
<1>12. QED
  BY <1>1, <1>2, <1>3, <1>4, <1>5, <1>6, <1>7, <1>8, <1>9, <1>10, <1>11 DEF CacheNext, Emit, Set

(* An emitter that holds s.mu never meets the half written realSink, and   *)
(* none panics before SetSink has cleared checkLock.                       *)
THEOREM MutexProtects == CacheSpec => []LockProtects
<1>1. LockInv => LockProtects
  BY DEF LockInv
<1>2. QED
  BY LockInvInit, LockInvNext, <1>1, PTL DEF CacheSpec

-----------------------------------------------------------------------------
(* A new element in the middle of a sequence.                               *)

(* t is s with x put in after its first k elements. *)
PutAfter(s, t, x, k) ==
  /\ k \in 0..Len(s)
  /\ Len(t) = Len(s) + 1
  /\ t[k + 1] = x
  /\ \A i \in 1..k : t[i] = s[i]
  /\ \A i \in (k + 1)..Len(s) : t[i + 1] = s[i]

Put(s, t, x) == \E k \in 0..Len(s) : PutAfter(s, t, x, k)

(* What is appended is put at the end. *)
LEMMA PutAppend ==
  ASSUME NEW S, NEW s \in Seq(S), NEW x \in S
  PROVE  Append(s, x) \in Seq(S) /\ Put(s, Append(s, x), x)
<1>1. PutAfter(s, Append(s, x), x, Len(s))
  BY DEF PutAfter
<1>2. QED
  BY <1>1 DEF Put

(* It stays one in the middle of a longer sequence. *)
LEMMA PutRight ==
  ASSUME NEW S, NEW a \in Seq(S), NEW s \in Seq(S), NEW t \in Seq(S), NEW x \in S, Put(s, t, x)
  PROVE  Put(a \o s, a \o t, x)
<1>1. PICK k \in 0..Len(s) : PutAfter(s, t, x, k)
  BY DEF Put
<1>2. /\ Len(a \o s) = Len(a) + Len(s)
      /\ Len(a \o t) = Len(a) + Len(t)
      /\ \A i \in 1..(Len(a) + Len(s)) : (a \o s)[i] = IF i <= Len(a) THEN a[i] ELSE s[i - Len(a)]
      /\ \A i \in 1..(Len(a) + Len(t)) : (a \o t)[i] = IF i <= Len(a) THEN a[i] ELSE t[i - Len(a)]
  BY ConcatProperties
<1>3. Len(a) \in Nat /\ Len(s) \in Nat /\ Len(t) = Len(s) + 1
  BY <1>1, LenProperties DEF PutAfter
<1> DEFINE as == a \o s
           at == a \o t
<1> HIDE DEF as, at
<1>4. PutAfter(as, at, x, Len(a) + k)
  <2>1. Len(a) + k \in 0..Len(as) /\ Len(at) = Len(as) + 1
    BY <1>2, <1>3 DEF as, at
  <2>2. at[Len(a) + k + 1] = x
    BY <1>1, <1>2, <1>3 DEF PutAfter, at
  <2>3. \A i \in 1..(Len(a) + k) : at[i] = as[i]
    <3> TAKE i \in 1..(Len(a) + k)
    <3>0. i <= Len(a) \/ i > Len(a)
      <4>1. i \in Int
        OBVIOUS
      <4>2. QED
        BY <1>3, <4>1
    <3>1. CASE i <= Len(a)
      BY <1>2, <1>3, <3>1 DEF as, at
    <3>2. CASE i > Len(a)
      <4>1. i - Len(a) \in 1..k
        BY <1>3, <3>2
      <4>2. t[i - Len(a)] = s[i - Len(a)]
        BY <1>1, <4>1 DEF PutAfter
      <4>3. QED
        BY <1>2, <1>3, <3>2, <4>2 DEF as, at
    <3>3. QED
      BY <3>0, <3>1, <3>2, Zenon
  <2>4. \A i \in (Len(a) + k + 1)..Len(as) : at[i + 1] = as[i]
    <3> TAKE i \in (Len(a) + k + 1)..Len(as)
    <3>1. i \in Nat /\ i - Len(a) \in (k + 1)..Len(s) /\ i > Len(a)
      BY <1>2, <1>3 DEF as
    <3>2. t[(i - Len(a)) + 1] = s[i - Len(a)]
      BY <1>1, <3>1, SMTT(20) DEF PutAfter
    <3>3. at[i + 1] = t[(i + 1) - Len(a)] /\ as[i] = s[i - Len(a)]
      <4>1. i + 1 \in 1..(Len(a) + Len(t)) /\ i \in 1..(Len(a) + Len(s)) /\ ~(i + 1 <= Len(a)) /\ ~(i <= Len(a))
        BY <1>3, <3>1
      <4>2. QED
        BY <1>2, <4>1 DEF as, at
    <3>4. (i + 1) - Len(a) = (i - Len(a)) + 1
      BY <1>3
    <3>5. QED
      BY <3>2, <3>3, <3>4
  <2>5. QED
    BY <2>1, <2>2, <2>3, <2>4, Zenon DEF PutAfter
<1>5. Len(a) + k \in 0..Len(as)
  BY <1>4, Zenon DEF PutAfter
<1>6. QED
  BY <1>4, <1>5 DEF Put, as, at

(* It stays one at the start of a longer sequence. *)
LEMMA PutLeft ==
  ASSUME NEW S, NEW a \in Seq(S), NEW s \in Seq(S), NEW t \in Seq(S), NEW x \in S, Put(s, t, x)
  PROVE  Put(s \o a, t \o a, x)
<1>1. PICK k \in 0..Len(s) : PutAfter(s, t, x, k)
  BY DEF Put
<1>2. /\ Len(s \o a) = Len(s) + Len(a)
      /\ Len(t \o a) = Len(t) + Len(a)
      /\ \A i \in 1..(Len(s) + Len(a)) : (s \o a)[i] = IF i <= Len(s) THEN s[i] ELSE a[i - Len(s)]
      /\ \A i \in 1..(Len(t) + Len(a)) : (t \o a)[i] = IF i <= Len(t) THEN t[i] ELSE a[i - Len(t)]
  BY ConcatProperties
<1>3. Len(a) \in Nat /\ Len(s) \in Nat /\ Len(t) = Len(s) + 1
  BY <1>1, LenProperties DEF PutAfter
<1> DEFINE sa == s \o a
           ta == t \o a
<1> HIDE DEF sa, ta
<1>4. PutAfter(sa, ta, x, k)
  <2>1. k \in 0..Len(sa) /\ Len(ta) = Len(sa) + 1
    BY <1>2, <1>3 DEF sa, ta
  <2>2. ta[k + 1] = x
    BY <1>1, <1>2, <1>3 DEF PutAfter, ta
  <2>3. \A i \in 1..k : ta[i] = sa[i]
    BY <1>1, <1>2, <1>3 DEF PutAfter, sa, ta
  <2>4. \A i \in (k + 1)..Len(sa) : ta[i + 1] = sa[i]
    <3> TAKE i \in (k + 1)..Len(sa)
    <3>1. CASE i <= Len(s)
      BY <1>1, <1>2, <1>3, <3>1 DEF PutAfter, sa, ta
    <3>2. CASE i > Len(s)
      <4>1. ta[i + 1] = a[(i + 1) - Len(t)] /\ sa[i] = a[i - Len(s)]
        BY <1>2, <1>3, <3>2 DEF sa, ta
      <4>2. (i + 1) - Len(t) = i - Len(s)
        BY <1>3
      <4>3. QED
        BY <4>1, <4>2
    <3>3. QED
      BY <1>2, <1>3, <3>1, <3>2 DEF sa
  <2>5. QED
    BY <2>1, <2>2, <2>3, <2>4 DEF PutAfter
<1>5. k \in 0..Len(sa)
  BY <1>4 DEF PutAfter
<1>6. QED
  BY <1>4, <1>5 DEF Put, sa, ta

(* A sequence without repetitions stays one when the element is new, has    *)
(* that one element more, and keeps the order of what it had.               *)
LEMMA PutNew ==
  ASSUME NEW S, NEW s \in Seq(S), NEW t \in Seq(S), NEW x \in S, Put(s, t, x), x \notin Range(s)
  PROVE  /\ Range(t) = Range(s) \cup {x}
         /\ IsInjective(s) => IsInjective(t)
         /\ \A u : InOrder(u, s) => InOrder(u, t)
<1>1. PICK k \in 0..Len(s) : PutAfter(s, t, x, k)
  BY DEF Put
<1>2. Len(s) \in Nat /\ DOMAIN s = 1..Len(s) /\ Len(t) = Len(s) + 1 /\ DOMAIN t = 1..(Len(s) + 1)
  BY <1>1, LenProperties DEF PutAfter
<1>3. \A p \in DOMAIN t : \/ p = k + 1 /\ t[p] = x
                          \/ p \in 1..k /\ p \in DOMAIN s /\ t[p] = s[p]
                          \/ p \in (k + 2)..(Len(s) + 1) /\ p - 1 \in DOMAIN s /\ t[p] = s[p - 1]
  <2> TAKE p \in DOMAIN t
  <2>1. CASE p = k + 1
    BY <1>1, <2>1 DEF PutAfter
  <2>2. CASE p <= k
    BY <1>1, <1>2, <2>2 DEF PutAfter
  <2>3. CASE p > k + 1
    <3>1. p - 1 \in (k + 1)..Len(s) /\ (p - 1) + 1 = p
      BY <1>2, <2>3
    <3>2. t[(p - 1) + 1] = s[p - 1]
      BY <1>1, <3>1 DEF PutAfter
    <3>3. QED
      BY <1>2, <2>3, <3>1, <3>2
  <2>4. QED
    BY <1>2, <2>1, <2>2, <2>3
<1>4. \A i \in DOMAIN s : \E p \in DOMAIN t : t[p] = s[i]
  <2> TAKE i \in DOMAIN s
  <2>1. CASE i <= k
    BY <1>1, <1>2, <2>1 DEF PutAfter
  <2>2. CASE i > k
    <3>1. t[i + 1] = s[i] /\ i + 1 \in DOMAIN t
      BY <1>1, <1>2, <2>2 DEF PutAfter
    <3>2. QED
      BY <3>1
  <2>3. QED
    BY <1>2, <2>1, <2>2
<1>5. k + 1 \in DOMAIN t /\ t[k + 1] = x
  BY <1>1, <1>2 DEF PutAfter
<1>6. \A i \in DOMAIN s : s[i] # x
  BY DEF Range
<1>7. Range(t) = Range(s) \cup {x}
  <2>1. \A y : y \in Range(t) <=> \E p \in DOMAIN t : y = t[p]
    BY DEF Range
  <2>2. \A y : y \in Range(s) <=> \E i \in DOMAIN s : y = s[i]
    BY DEF Range
  <2>3. \A y \in Range(t) : y \in Range(s) \cup {x}
    BY <1>3, <2>1, <2>2
  <2>4. \A y \in Range(s) \cup {x} : y \in Range(t)
    BY <1>4, <1>5, <2>1, <2>2
  <2>5. QED
    BY <2>3, <2>4
<1>8. ASSUME IsInjective(s) PROVE IsInjective(t)
  <2> SUFFICES ASSUME NEW p \in DOMAIN t, NEW q \in DOMAIN t, t[p] = t[q]
               PROVE  p = q
    BY DEF IsInjective
  <2>1. \A i, j \in DOMAIN s : s[i] = s[j] => i = j
    BY <1>8 DEF IsInjective
  <2>2. QED
    BY <1>2, <1>3, <1>6, <2>1
<1>9. ASSUME NEW u, InOrder(u, s) PROVE InOrder(u, t)
  <2>1. Range(u) \subseteq Range(t)
    BY <1>7, <1>9 DEF InOrder
  <2>2. \A i \in DOMAIN u : u[i] # x
    BY <1>9, Zenon DEF InOrder, Range
  <2> SUFFICES ASSUME NEW i \in DOMAIN u, NEW j \in DOMAIN u, NEW p \in DOMAIN t, NEW q \in DOMAIN t,
                      u[i] = t[p], u[j] = t[q], i < j
               PROVE  p < q
    BY <2>1 DEF InOrder
  <2>3. \A v, w \in DOMAIN s : u[i] = s[v] /\ u[j] = s[w] => v < w
    BY <1>9 DEF InOrder
  <2>4. QED
    BY <1>2, <1>3, <2>2, <2>3
<1>10. QED
  BY <1>7, <1>8, <1>9

-----------------------------------------------------------------------------
(* What the real sink has been given and will be given by replay.           *)

All == delivered \o Pending

Active == {"lock"} \cup Inside

(* SetSink runs once, by one caller; before it assigns realSink nothing has *)
(* been delivered, and when it is done all four slices have been read.      *)
OnceInv ==
  /\ \A s \in Setters : /\ setter[s] \in Active => once = "running"
                        /\ setter[s] = "done" => once = "done"
                        /\ setter[s] \in {"lock", "store"} => realSink = "nil"
  /\ \A s, t \in Setters : setter[s] \in Active /\ setter[t] \in Active => s = t
  /\ once = "no" => realSink = "nil"
  /\ once = "done" => replayed.kind = 5

(* Where replay is, and which emitters have a metric in hand. *)
ReplayInv ==
  /\ realSink = "nil" => delivered = <<>> /\ replayed.kind = 1 /\ ~replayed.on
  /\ ~replayed.on => replayed.left = <<>>
  /\ replayed.kind = 5 => ~replayed.on
  /\ \A e \in Emitters : /\ emitter[e].pc = "forward" => realSink # "nil"
                         /\ emitter[e].pc # "idle" => emitter[e].n # 0

(* No metric twice, and none that an emitter still has in hand. *)
FreshInv ==
  /\ IsInjective(All)
  /\ \A m \in Range(All), e \in Emitters :
       m[1] = e => m[2] <= emitter[e].n /\ (emitter[e].pc # "idle" => m[2] # emitter[e].n)

(* What was cached when SetSink got the mutex stays there, in its order. *)
OrderInv ==
  (\E s \in Setters : setter[s] \in Inside) \/ once = "done" => InOrder(early, All)

CacheInv == TypeOK /\ LockInv /\ OnceInv /\ ReplayInv /\ FreshInv /\ OrderInv

(* Four slices, one after the other. *)
LEMMA JoinTyped ==
  ASSUME NEW S, NEW a \in Seq(S), NEW b \in Seq(S), NEW c \in Seq(S), NEW e \in Seq(S)
  PROVE  Join(a, b, c, e) \in Seq(S)
<1> DEFINE ce == c \o e
<1>1. ce \in Seq(S)
  BY ConcatProperties
<1> HIDE DEF ce
<1> DEFINE bce == b \o ce
<1>2. bce \in Seq(S)
  BY <1>1, ConcatProperties
<1> HIDE DEF bce
<1>3. a \o bce \in Seq(S)
  BY <1>2, ConcatProperties
<1>4. QED
  BY <1>3 DEF ce, bce, Join

(* The slices replay has not read are sequences of metrics, and so is all   *)
(* that is pending.                                                         *)
LEMMA PendingTyped ==
  ASSUME TypeOK
  PROVE  /\ \A i \in 1..4 : Unread(i) \in Seq(AllMetrics)
         /\ Pending \in Seq(AllMetrics)
         /\ All \in Seq(AllMetrics)
<1>1. \A i \in 1..4 : ReplayOrder[i] \in Kinds
  BY DEF ReplayOrder, Kinds
<1>2. \A i \in 1..4 : Unread(i) \in Seq(AllMetrics)
  BY <1>1, EmptySeq DEF TypeOK, Unread
<1>3. replayed.left \in Seq(AllMetrics) /\ delivered \in Seq(AllMetrics)
  BY DEF TypeOK
<1>6. Join(Unread(1), Unread(2), Unread(3), Unread(4)) \in Seq(AllMetrics)
  BY <1>2, JoinTyped
<1>7. Pending \in Seq(AllMetrics)
  BY <1>3, <1>6, ConcatProperties DEF Pending
<1>8. QED
  BY <1>2, <1>3, <1>7, ConcatProperties DEF All

(* So all that was emitted is a sequence of metrics. *)
LEMMA AllTyped == TypeOK => All \in Seq(AllMetrics)
  BY PendingTyped

(* One of four slices gets a metric more. *)
LEMMA PutInRest ==
  ASSUME NEW S, NEW x \in S, NEW d \in Seq(S), NEW l \in Seq(S),
         NEW a \in Seq(S), NEW b \in Seq(S), NEW c \in Seq(S), NEW e \in Seq(S)
  PROVE  /\ Put(d \o (l \o Join(a, b, c, e)), d \o (l \o Join(Append(a, x), b, c, e)), x)
         /\ Put(d \o (l \o Join(a, b, c, e)), d \o (l \o Join(a, Append(b, x), c, e)), x)
         /\ Put(d \o (l \o Join(a, b, c, e)), d \o (l \o Join(a, b, Append(c, x), e)), x)
         /\ Put(d \o (l \o Join(a, b, c, e)), d \o (l \o Join(a, b, c, Append(e, x))), x)
         /\ Put(d \o (l \o Join(a, b, c, e)), Append(d, x) \o (l \o Join(a, b, c, e)), x)
<1>1. \A s, t \in Seq(S) : s \o t \in Seq(S)
  BY ConcatProperties
<1>2. \A s, t, u \in Seq(S) : Put(s, t, x) => Put(u \o s, u \o t, x) /\ Put(s \o u, t \o u, x)
  BY PutLeft, PutRight
<1>3. \A s \in Seq(S) : Append(s, x) \in Seq(S) /\ Put(s, Append(s, x), x)
  BY PutAppend
<1> HIDE DEF Put
<1>4. ASSUME NEW r \in Seq(S), NEW q \in Seq(S), Put(r, q, x)
      PROVE  Put(d \o (l \o r), d \o (l \o q), x)
  BY <1>1, <1>2, <1>4, Zenon
<1>5. Put(Join(a, b, c, e), Join(Append(a, x), b, c, e), x)
  BY <1>1, <1>2, <1>3, Zenon DEF Join
<1>6. Put(Join(a, b, c, e), Join(a, Append(b, x), c, e), x)
  BY <1>1, <1>2, <1>3, Zenon DEF Join
<1>7. Put(Join(a, b, c, e), Join(a, b, Append(c, x), e), x)
  BY <1>1, <1>2, <1>3, Zenon DEF Join
<1>8. Put(Join(a, b, c, e), Join(a, b, c, Append(e, x)), x)
  BY <1>1, <1>2, <1>3, Zenon DEF Join
<1>9. Put(d \o (l \o Join(a, b, c, e)), Append(d, x) \o (l \o Join(a, b, c, e)), x)
  BY <1>1, <1>2, <1>3, JoinTyped, Zenon
<1>10. QED
  BY <1>3, <1>4, <1>5, <1>6, <1>7, <1>8, <1>9, JoinTyped, Zenon

(* What was delivered, what is left of a slice, and the slices after it. *)
Laid(d, l, r) == d \o (l \o r)

(* A metric moves from what is left of a slice to what was delivered. *)
LEMMA MoveHead ==
  ASSUME NEW S, NEW d \in Seq(S), NEW l \in Seq(S), NEW r \in Seq(S), l # <<>>
  PROVE  Laid(Append(d, Head(l)), Tail(l), r) = Laid(d, l, r)
<1> DEFINE h == Head(l)
           t == Tail(l)
           dh == Append(d, h)
           tr == t \o r
           lr == l \o r
           left == dh \o tr
           right == d \o lr
<1>1. h \in S /\ t \in Seq(S)
  BY HeadTailProperties
<1>2. Len(t) = Len(l) - 1 /\ l[1] = h /\ \A i \in 1..Len(t) : t[i] = l[i + 1]
  BY HeadTailProperties
<1>3. Len(d) \in Nat /\ Len(l) \in Nat /\ Len(r) \in Nat /\ Len(l) > 0
  BY LenProperties, EmptySeq
<1> HIDE DEF h, t
<1>4. dh \in Seq(S) /\ tr \in Seq(S) /\ lr \in Seq(S)
  BY <1>1, ConcatProperties, AppendProperties
<1>5. /\ Len(dh) = Len(d) + 1 /\ dh[Len(d) + 1] = h
      /\ \A i \in 1..Len(d) : dh[i] = d[i]
  BY <1>1, AppendProperties
<1>6. /\ Len(tr) = Len(t) + Len(r)
      /\ \A i \in 1..(Len(t) + Len(r)) : tr[i] = IF i <= Len(t) THEN t[i] ELSE r[i - Len(t)]
  BY <1>1, ConcatProperties
<1>7. /\ Len(lr) = Len(l) + Len(r)
      /\ \A i \in 1..(Len(l) + Len(r)) : lr[i] = IF i <= Len(l) THEN l[i] ELSE r[i - Len(l)]
  BY ConcatProperties
<1> HIDE DEF dh, tr, lr
<1>8. /\ left \in Seq(S) /\ Len(left) = Len(dh) + Len(tr)
      /\ \A i \in 1..(Len(dh) + Len(tr)) : left[i] = IF i <= Len(dh) THEN dh[i] ELSE tr[i - Len(dh)]
  BY <1>4, ConcatProperties
<1>9. /\ right \in Seq(S) /\ Len(right) = Len(d) + Len(lr)
      /\ \A i \in 1..(Len(d) + Len(lr)) : right[i] = IF i <= Len(d) THEN d[i] ELSE lr[i - Len(d)]
  BY <1>4, ConcatProperties
<1> HIDE DEF left, right
<1>10. /\ Len(left) = Len(d) + Len(l) + Len(r) /\ Len(dh) + Len(tr) = Len(left)
       /\ Len(right) = Len(left) /\ Len(d) + Len(lr) = Len(left)
  BY <1>2, <1>3, <1>5, <1>6, <1>7, <1>8, <1>9
<1>11. ASSUME NEW i \in 1..Len(left) PROVE left[i] = right[i]
  <2>1. /\ left[i] = IF i <= Len(dh) THEN dh[i] ELSE tr[i - Len(dh)]
        /\ right[i] = IF i <= Len(d) THEN d[i] ELSE lr[i - Len(d)]
        /\ i \in Int
    BY <1>8, <1>9, <1>10
  <2>2. CASE i <= Len(d)
    <3>1. dh[i] = d[i]
      BY <1>3, <1>5, <2>1, <2>2
    <3>2. QED
      BY <1>3, <1>5, <2>1, <2>2, <3>1
  <2>3. CASE i = Len(d) + 1
    <3>1. left[i] = h
      BY <1>3, <1>5, <2>1, <2>3
    <3>2. right[i] = lr[1]
      BY <1>3, <2>1, <2>3
    <3>3. lr[1] = l[1]
      BY <1>3, <1>7
    <3>4. QED
      BY <1>2, <3>1, <3>2, <3>3
  <2>4. CASE i > Len(d) + 1
    <3> DEFINE j == i - Len(d)
    <3>1. j \in Int /\ j > 1 /\ j <= Len(l) + Len(r) /\ i - Len(dh) = j - 1
      BY <1>3, <1>5, <1>10, <2>1, <2>4
    <3>2. left[i] = tr[j - 1] /\ right[i] = lr[j]
      BY <1>3, <1>5, <2>1, <2>4, <3>1
    <3> HIDE DEF j
    <3>3. CASE j <= Len(l)
      <4>1. lr[j] = l[j]
        BY <1>3, <1>7, <3>1, <3>3
      <4>2. j - 1 \in 1..Len(t) /\ (j - 1) + 1 = j
        BY <1>2, <1>3, <3>1, <3>3
      <4>3. tr[j - 1] = t[j - 1] /\ t[j - 1] = l[j]
        BY <1>2, <1>3, <1>6, <4>2, SMTT(20)
      <4>4. QED
        BY <3>2, <4>1, <4>3
    <3>4. CASE j > Len(l)
      <4>1. tr[j - 1] = r[(j - 1) - Len(t)] /\ lr[j] = r[j - Len(l)]
        BY <1>2, <1>3, <1>6, <1>7, <3>1, <3>4
      <4>2. (j - 1) - Len(t) = j - Len(l)
        BY <1>2, <1>3, <3>1
      <4>3. QED
        BY <3>2, <4>1, <4>2
    <3>5. QED
      BY <1>3, <3>1, <3>3, <3>4
  <2>5. QED
    BY <1>3, <2>1, <2>2, <2>3, <2>4
<1>12. left = right
  BY <1>8, <1>9, <1>10, <1>11, SeqEqual, Zenon
<1>13. QED
  BY <1>12 DEF left, right, dh, tr, lr, h, t, Laid

(* What replay is at, and the four slices. *)
Queue(l, a, b, c, e) == l \o Join(a, b, c, e)

(* A slice that nothing before it is left of becomes what replay is at. *)
LEMMA ShiftSlice ==
  ASSUME NEW S, NEW a \in Seq(S), NEW b \in Seq(S), NEW c \in Seq(S), NEW e \in Seq(S)
  PROVE  /\ Queue(a, <<>>, b, c, e) = Queue(<<>>, a, b, c, e)
         /\ Queue(b, <<>>, <<>>, c, e) = Queue(<<>>, <<>>, b, c, e)
         /\ Queue(c, <<>>, <<>>, <<>>, e) = Queue(<<>>, <<>>, <<>>, c, e)
         /\ Queue(e, <<>>, <<>>, <<>>, <<>>) = Queue(<<>>, <<>>, <<>>, <<>>, e)
<1>1. \A s \in Seq(S) : <<>> \o s = s /\ s \o <<>> = s
  BY ConcatEmptySeq
<1>2. <<>> \in Seq(S)
  BY EmptySeq
<1>3. <<>> \o <<>> = <<>>
  BY <1>1, <1>2
<1> DEFINE ce == c \o e
<1>4. ce \in Seq(S)
  BY ConcatProperties
<1> HIDE DEF ce
<1> DEFINE bce == b \o ce
<1>5. bce \in Seq(S)
  BY <1>4, ConcatProperties
<1> HIDE DEF bce
<1> DEFINE abce == a \o bce
<1>6. abce \in Seq(S)
  BY <1>5, ConcatProperties
<1> HIDE DEF abce
<1>7. <<>> \o ce = ce /\ <<>> \o bce = bce /\ <<>> \o abce = abce /\ <<>> \o e = e /\ e \o <<>> = e
  BY <1>1, <1>4, <1>5, <1>6
<1>8. Queue(a, <<>>, b, c, e) = Queue(<<>>, a, b, c, e)
  BY <1>7, Zenon DEF ce, bce, abce, Join, Queue
<1>9. Queue(b, <<>>, <<>>, c, e) = Queue(<<>>, <<>>, b, c, e)
  BY <1>7, Zenon DEF ce, bce, Join, Queue
<1>10. Queue(c, <<>>, <<>>, <<>>, e) = Queue(<<>>, <<>>, <<>>, c, e)
  BY <1>7, Zenon DEF ce, Join, Queue
<1>11. Queue(e, <<>>, <<>>, <<>>, <<>>) = Queue(<<>>, <<>>, <<>>, <<>>, e)
  BY <1>3, <1>7, Zenon DEF Join, Queue
<1>12. QED
  BY <1>8, <1>9, <1>10, <1>11

(* The state keeps its types. *)
LEMMA TypeNext ==
  ASSUME CacheInv, [CacheNext]_cacheVars
  PROVE  TypeOK'
<1> USE DEF CacheInv
<1>1. \A e \in Emitters : emitter[e].pc # "idle" => Metric(e) \in AllMetrics
  BY MetricsCacheAssumption DEF ReplayInv, TypeOK, Metric, AllMetrics
<1>s. ASSUME NEW e \in Emitters, NEW pc \in {"idle", "lock", "check", "append", "forward", "panic"}, Step(e, pc)
      PROVE  emitter' \in [Emitters -> [pc : {"idle", "lock", "check", "append", "forward", "panic"},
                                        n : 0..MaxEmits]]
  BY <1>s, Zenon DEF Step, TypeOK
<1>2. ASSUME NEW e \in Emitters, EmitLoad(e)
      PROVE  TypeOK'
  BY <1>2, MetricsCacheAssumption DEF EmitLoad, TypeOK
<1>3. ASSUME NEW e \in Emitters, EmitLock(e)
      PROVE  TypeOK'
  <2>1. /\ mu' = e /\ Step(e, "check")
        /\ UNCHANGED <<checkLock, realSink, cache, delivered, setter, once, replayed, early>>
    BY <1>3, Zenon DEF EmitLock
  <2>2. QED
    BY <1>s, <2>1, Zenon DEF TypeOK
<1>4. ASSUME NEW e \in Emitters, EmitCheck(e)
      PROVE  TypeOK'
  <2>1. PICK pc \in {"append", "forward", "panic"} : Step(e, pc)
    BY <1>4 DEF EmitCheck
  <2>2. UNCHANGED <<checkLock, mu, realSink, cache, delivered, setter, once, replayed, early>>
    BY <1>4, Zenon DEF EmitCheck
  <2>3. QED
    BY <1>s, <2>1, <2>2, Zenon DEF TypeOK
<1>5. ASSUME NEW e \in Emitters, EmitForward(e)
      PROVE  TypeOK'
  <2>1. delivered' \in Seq(AllMetrics)
    BY <1>1, <1>5, AppendProperties DEF EmitForward, TypeOK
  <2>2. /\ mu' = (IF mu = e THEN Nobody ELSE mu) /\ Step(e, "idle")
        /\ UNCHANGED <<checkLock, realSink, cache, setter, once, replayed, early>>
    BY <1>5 DEF EmitForward, Unlock
  <2>3. mu' \in Emitters \cup Setters \cup {Nobody}
    BY <2>2 DEF TypeOK
  <2>4. QED
    BY <1>s, <2>1, <2>2, <2>3, Zenon DEF TypeOK
<1>6. ASSUME NEW e \in Emitters, EmitAppend(e)
      PROVE  TypeOK'
  <2>1. KindOf[e] \in Kinds /\ Append(cache[KindOf[e]], Metric(e)) \in Seq(AllMetrics)
    BY <1>1, <1>6, AppendProperties, MetricsCacheAssumption DEF EmitAppend, TypeOK
  <2>2. cache' \in [Kinds -> Seq(AllMetrics)]
    BY <1>6, <2>1, Zenon DEF EmitAppend, TypeOK
  <2>3. /\ mu' = (IF mu = e THEN Nobody ELSE mu) /\ Step(e, "idle")
        /\ UNCHANGED <<checkLock, realSink, delivered, setter, once, replayed, early>>
    BY <1>6 DEF EmitAppend, Unlock
  <2>4. mu' \in Emitters \cup Setters \cup {Nobody}
    BY <2>3 DEF TypeOK
  <2>5. QED
    BY <1>s, <2>2, <2>3, <2>4, Zenon DEF TypeOK
<1>7. ASSUME NEW s \in Setters, SetSink(s)
      PROVE  TypeOK'
  BY <1>7, Zenon DEF SetSink, TypeOK
<1>8. ASSUME NEW s \in Setters, SetLock(s)
      PROVE  TypeOK'
  <2>1. /\ cache["samples"] \in Seq(AllMetrics) /\ cache["gauges"] \in Seq(AllMetrics)
        /\ cache["counters"] \in Seq(AllMetrics) /\ cache["keys"] \in Seq(AllMetrics)
    BY DEF TypeOK, Kinds
  <2>2. early' \in Seq(AllMetrics)
    BY <1>8, <2>1, JoinTyped, Zenon DEF SetLock
  <2>3. QED
    BY <1>8, <2>2 DEF SetLock, TypeOK
<1>9. ASSUME NEW s \in Setters, SetStore(s)
      PROVE  TypeOK'
  BY <1>9, Zenon DEF SetStore, TypeOK
<1>10. ASSUME NEW s \in Setters, SetAssign(s)
       PROVE  TypeOK'
  BY <1>10 DEF SetAssign, TypeOK
<1>11. ASSUME NEW s \in Setters, ReplayBegin(s)
       PROVE  TypeOK'
  <2>1. replayed.kind \in 1..4
    BY <1>11 DEF ReplayBegin, ReplayOrder, TypeOK
  <2>2. ReplayOrder[replayed.kind] \in Kinds
    BY <2>1 DEF ReplayOrder, Kinds
  <2>3. QED
    BY <1>11, <2>2, Zenon DEF ReplayBegin, TypeOK
<1>12. ASSUME NEW s \in Setters, ReplayOne(s)
       PROVE  TypeOK'
  <2>1. Head(replayed.left) \in AllMetrics /\ Tail(replayed.left) \in Seq(AllMetrics)
    BY <1>12, HeadTailProperties DEF ReplayOne, TypeOK
  <2>2. delivered' \in Seq(AllMetrics)
    BY <1>12, <2>1, AppendProperties DEF ReplayOne, TypeOK
  <2>3. replayed' \in [kind : 1..5, left : Seq(AllMetrics), on : BOOLEAN]
    BY <1>12, <2>1, Zenon DEF ReplayOne, TypeOK
  <2>4. QED
    BY <1>12, <2>2, <2>3 DEF ReplayOne, TypeOK
<1>13. ASSUME NEW s \in Setters, ReplayEmpty(s)
       PROVE  TypeOK'
  <2>1. replayed.kind \in 1..4
    BY <1>13 DEF ReplayEmpty, ReplayInv, TypeOK
  <2>2. cache' \in [Kinds -> Seq(AllMetrics)]
    BY <1>13, EmptySeq, Zenon DEF ReplayEmpty, TypeOK
  <2>3. replayed' \in [kind : 1..5, left : Seq(AllMetrics), on : BOOLEAN]
    <3>1. replayed' = [replayed EXCEPT !.on = FALSE, !.kind = replayed.kind + 1] /\ replayed.kind + 1 \in 1..5
      BY <1>13, <2>1 DEF ReplayEmpty
    <3>2. replayed \in [kind : 1..5, left : Seq(AllMetrics), on : BOOLEAN]
      BY DEF TypeOK
    <3>3. QED
      BY <3>1, <3>2, Zenon
  <2>4. QED
    BY <1>13, <2>2, <2>3 DEF ReplayEmpty, TypeOK
<1>14. ASSUME NEW s \in Setters, SetUnlock(s)
       PROVE  TypeOK'
  BY <1>14 DEF SetUnlock, TypeOK
<1>15. CASE UNCHANGED cacheVars
  BY <1>15 DEF cacheVars, TypeOK
<1>16. QED
  BY <1>2, <1>3, <1>4, <1>5, <1>6, <1>7, <1>8, <1>9, <1>10, <1>11, <1>12, <1>13, <1>14, <1>15
     DEF CacheNext, Emit, Set

(* An emitter hands over the metric it has in hand: to its slice, to the    *)
(* real sink, or, when it loses the race for the slice, to nobody.          *)
Hands(e) ==
  /\ emitter[e].pc \in {"append", "forward"}
  /\ emitter' = [emitter EXCEPT ![e].pc = "idle"]
  /\ All' = All \/ Put(All, All', Metric(e))

(* It keeps the one it has, or takes the next in hand. *)
Holds(e) ==
  \/ emitter'[e] = emitter[e]
  \/ emitter'[e].n = emitter[e].n /\ emitter[e].pc # "idle"
  \/ emitter'[e].n = emitter[e].n + 1 /\ emitter[e].pc = "idle"

(* What was delivered and what replay will deliver change together only     *)
(* when an emitter adds a metric: replay moves metrics from one to the      *)
(* other and neither drops nor repeats one.                                 *)
LEMMA AllNext ==
  ASSUME CacheInv, [CacheNext]_cacheVars
  PROVE  \/ \E e \in Emitters : Hands(e)
         \/ All' = All /\ \A e \in Emitters : Holds(e)
<1> USE DEF CacheInv
<1> DEFINE Goal == (\E e \in Emitters : Hands(e)) \/ (All' = All /\ \A e \in Emitters : Holds(e))
<1> SUFFICES Goal
  OBVIOUS
<1>1. ASSUME UNCHANGED <<delivered, replayed, cache>>
      PROVE  All' = All
  BY <1>1 DEF All, Pending, Unread
<1>2. \A i \in 1..4 : Unread(i) \in Seq(AllMetrics)
  BY PendingTyped
<1>3. delivered \in Seq(AllMetrics) /\ replayed.left \in Seq(AllMetrics)
  BY DEF TypeOK
<1>4. \A e \in Emitters : emitter[e].pc # "idle" => Metric(e) \in AllMetrics
  BY MetricsCacheAssumption DEF ReplayInv, TypeOK, Metric, AllMetrics
<1> DEFINE d == delivered
           l == replayed.left
           u1 == Unread(1)
           u2 == Unread(2)
           u3 == Unread(3)
           u4 == Unread(4)
<1>a. /\ d \in Seq(AllMetrics) /\ l \in Seq(AllMetrics)
      /\ u1 \in Seq(AllMetrics) /\ u2 \in Seq(AllMetrics) /\ u3 \in Seq(AllMetrics) /\ u4 \in Seq(AllMetrics)
  BY <1>2, <1>3
<1>b. All = d \o (l \o Join(u1, u2, u3, u4))
  BY DEF All, Pending
<1> HIDE DEF d, l, u1, u2, u3, u4
<1>c. ASSUME NEW x \in AllMetrics
      PROVE  /\ Put(All, d \o (l \o Join(Append(u1, x), u2, u3, u4)), x)
             /\ Put(All, d \o (l \o Join(u1, Append(u2, x), u3, u4)), x)
             /\ Put(All, d \o (l \o Join(u1, u2, Append(u3, x), u4)), x)
             /\ Put(All, d \o (l \o Join(u1, u2, u3, Append(u4, x))), x)
             /\ Put(All, Append(d, x) \o (l \o Join(u1, u2, u3, u4)), x)
  BY <1>a, <1>b, PutInRest, Zenon
<1>5. ASSUME NEW e \in Emitters, EmitLoad(e) \/ EmitLock(e) \/ EmitCheck(e)
      PROVE  Goal
  <2>1. UNCHANGED <<delivered, replayed, cache>>
    BY <1>5 DEF EmitLoad, EmitLock, EmitCheck
  <2>2. CASE EmitLoad(e)
    <3>1. \A f \in Emitters : Holds(f)
      BY <2>2 DEF EmitLoad, TypeOK, Holds
    <3>2. QED
      BY <1>1, <2>1, <3>1
  <2>3. CASE EmitLock(e) \/ EmitCheck(e)
    <3>1. PICK pc \in {"check", "append", "forward", "panic"} : emitter' = [emitter EXCEPT ![e].pc = pc]
      BY <2>3 DEF EmitLock, EmitCheck, Step
    <3>2. emitter[e].pc # "idle"
      BY <2>3 DEF EmitLock, EmitCheck
    <3>3. \A f \in Emitters : Holds(f)
      BY <3>1, <3>2 DEF TypeOK, Holds
    <3>4. QED
      BY <1>1, <2>1, <3>3
  <2>4. QED
    BY <1>5, <2>2, <2>3
<1>6. ASSUME NEW e \in Emitters, EmitForward(e)
      PROVE  Goal
  <2>1. Metric(e) \in AllMetrics
    BY <1>4, <1>6 DEF EmitForward
  <2>2. delivered' = Append(delivered, Metric(e)) /\ Pending' = Pending
    BY <1>6 DEF EmitForward, Pending, Unread
  <2>3. Put(All, All', Metric(e))
    <3>1. All' = delivered' \o Pending' /\ All = d \o Pending /\ Pending = l \o Join(u1, u2, u3, u4)
      BY DEF All, Pending, d, l, u1, u2, u3, u4
    <3>2. All' = Append(d, Metric(e)) \o (l \o Join(u1, u2, u3, u4))
      BY <2>2, <3>1 DEF d
    <3>3. QED
      BY <1>c, <2>1, <3>2
  <2>4. QED
    BY <1>6, <2>3, Zenon DEF EmitForward, Step, Hands
<1>7. ASSUME NEW e \in Emitters, EmitAppend(e)
      PROVE  Goal
  <2>1. Metric(e) \in AllMetrics
    BY <1>4, <1>7 DEF EmitAppend
  <2>2. UNCHANGED <<delivered, replayed>>
    BY <1>7 DEF EmitAppend
  <2>3. CASE cache' = cache
    BY <1>1, <1>7, <2>2, <2>3, Zenon DEF EmitAppend, Step, Hands
  <2>4. CASE cache' = [cache EXCEPT ![KindOf[e]] = Append(@, Metric(e))]
    <3>1. PICK k \in 1..4 : ReplayOrder[k] = KindOf[e]
      <4>1. KindOf[e] \in Kinds
        BY MetricsCacheAssumption
      <4>2. QED
        BY <4>1 DEF ReplayOrder, Kinds
    <3>2. /\ Unread(k)' = Unread(k) \/ Unread(k)' = Append(Unread(k), Metric(e))
          /\ \A i \in 1..4 : i # k => Unread(i)' = Unread(i)
      <4>1. \A i \in 1..4 : i # k => ReplayOrder[i] # ReplayOrder[k]
        BY DEF ReplayOrder
      <4>2. \A i \in 1..4 : ReplayOrder[i] \in Kinds
        BY DEF ReplayOrder, Kinds
      <4>3. \A i \in 1..4 : cache'[ReplayOrder[i]] = IF i = k THEN Append(cache[ReplayOrder[i]], Metric(e))
                                                    ELSE cache[ReplayOrder[i]]
        BY <2>4, <3>1, <4>1, <4>2, Zenon DEF TypeOK
      <4>4. QED
        BY <2>2, <4>3, Zenon DEF Unread
    <3>3. All' = d \o (l \o Join(Unread(1)', Unread(2)', Unread(3)', Unread(4)'))
      BY <2>2 DEF All, Pending, d, l
    <3>4. emitter[e].pc = "append" /\ emitter' = [emitter EXCEPT ![e].pc = "idle"]
      BY <1>7 DEF EmitAppend, Step
    <3>5. CASE Unread(k)' = Unread(k)
      <4>1. Unread(1)' = u1 /\ Unread(2)' = u2 /\ Unread(3)' = u3 /\ Unread(4)' = u4
        BY <3>2, <3>5 DEF u1, u2, u3, u4
      <4>2. All' = All
        BY <1>b, <3>3, <4>1
      <4>3. QED
        BY <3>4, <4>2, Zenon DEF Hands
    <3>6. CASE Unread(k)' = Append(Unread(k), Metric(e))
      <4> DEFINE x == Metric(e)
      <4>0. Unread(k)' = Append(Unread(k), x) /\ x \in AllMetrics
        BY <2>1, <3>6
      <4> HIDE DEF x
      <4>1. CASE k = 1
        <5>1. Unread(1)' = Append(u1, x) /\ Unread(2)' = u2 /\ Unread(3)' = u3 /\ Unread(4)' = u4
          BY <3>2, <4>0, <4>1 DEF u1, u2, u3, u4
        <5>2. All' = d \o (l \o Join(Append(u1, x), u2, u3, u4))
          BY <3>3, <5>1, Zenon
        <5>3. QED
          BY <1>c, <3>4, <4>0, <5>2, Zenon DEF Hands, x
      <4>2. CASE k = 2
        <5>1. Unread(1)' = u1 /\ Unread(2)' = Append(u2, x) /\ Unread(3)' = u3 /\ Unread(4)' = u4
          BY <3>2, <4>0, <4>2 DEF u1, u2, u3, u4
        <5>2. All' = d \o (l \o Join(u1, Append(u2, x), u3, u4))
          BY <3>3, <5>1, Zenon
        <5>3. QED
          BY <1>c, <3>4, <4>0, <5>2, Zenon DEF Hands, x
      <4>3. CASE k = 3
        <5>1. Unread(1)' = u1 /\ Unread(2)' = u2 /\ Unread(3)' = Append(u3, x) /\ Unread(4)' = u4
          BY <3>2, <4>0, <4>3 DEF u1, u2, u3, u4
        <5>2. All' = d \o (l \o Join(u1, u2, Append(u3, x), u4))
          BY <3>3, <5>1, Zenon
        <5>3. QED
          BY <1>c, <3>4, <4>0, <5>2, Zenon DEF Hands, x
      <4>4. CASE k = 4
        <5>1. Unread(1)' = u1 /\ Unread(2)' = u2 /\ Unread(3)' = u3 /\ Unread(4)' = Append(u4, x)
          BY <3>2, <4>0, <4>4 DEF u1, u2, u3, u4
        <5>2. All' = d \o (l \o Join(u1, u2, u3, Append(u4, x)))
          BY <3>3, <5>1, Zenon
        <5>3. QED
          BY <1>c, <3>4, <4>0, <5>2, Zenon DEF Hands, x
      <4>5. QED
        BY <4>1, <4>2, <4>3, <4>4
    <3>7. QED
      BY <3>2, <3>5, <3>6
  <2>5. QED
    BY <1>7, <2>3, <2>4 DEF EmitAppend
<1>8. ASSUME NEW s \in Setters, SetSink(s) \/ SetLock(s) \/ SetStore(s) \/ SetAssign(s) \/ SetUnlock(s)
      PROVE  Goal
  BY <1>1, <1>8 DEF SetSink, SetLock, SetStore, SetAssign, SetUnlock, Holds
<1>9. ASSUME NEW s \in Setters, ReplayBegin(s)
      PROVE  Goal
  <2>1. /\ UNCHANGED <<delivered, cache, emitter>> /\ ~replayed.on /\ replayed.left = <<>> /\ replayed.kind \in 1..4
        /\ replayed'.on /\ replayed'.kind = replayed.kind
        /\ replayed'.left = cache[ReplayOrder[replayed.kind]]
    BY <1>9 DEF ReplayBegin, ReplayOrder, ReplayInv, TypeOK
  <2>0. PICK k \in 1..4 : k = replayed.kind
    BY <2>1
  <2>2. /\ replayed'.left = Unread(k) /\ Unread(k)' = <<>>
        /\ \A i \in 1..4 : i < k => Unread(i) = <<>> /\ Unread(i)' = <<>>
        /\ \A i \in 1..4 : i > k => Unread(i)' = Unread(i)
    BY <2>0, <2>1 DEF Unread
  <2>3. Pending' = Queue(replayed'.left, Unread(1)', Unread(2)', Unread(3)', Unread(4)')
    BY DEF Pending, Queue
  <2>4. Pending = Queue(<<>>, u1, u2, u3, u4)
    BY <2>1 DEF Pending, Queue, u1, u2, u3, u4
  <2>5. /\ Queue(u1, <<>>, u2, u3, u4) = Queue(<<>>, u1, u2, u3, u4)
        /\ Queue(u2, <<>>, <<>>, u3, u4) = Queue(<<>>, <<>>, u2, u3, u4)
        /\ Queue(u3, <<>>, <<>>, <<>>, u4) = Queue(<<>>, <<>>, <<>>, u3, u4)
        /\ Queue(u4, <<>>, <<>>, <<>>, <<>>) = Queue(<<>>, <<>>, <<>>, <<>>, u4)
    BY <1>a, ShiftSlice
  <2>6. Pending' = Pending
    <3>1. CASE k = 1
      <4>1. replayed'.left = u1 /\ Unread(1)' = <<>> /\ Unread(2)' = u2 /\ Unread(3)' = u3 /\ Unread(4)' = u4
        BY <2>2, <3>1 DEF u1, u2, u3, u4
      <4>2. Pending' = Queue(u1, <<>>, u2, u3, u4)
        BY <2>3, <4>1
      <4>3. QED
        BY <2>4, <2>5, <4>2, Zenon
    <3>2. CASE k = 2
      <4>1. /\ replayed'.left = u2 /\ Unread(1)' = <<>> /\ Unread(2)' = <<>> /\ Unread(3)' = u3 /\ Unread(4)' = u4
            /\ u1 = <<>>
        BY <2>2, <3>2 DEF u1, u2, u3, u4
      <4>2. Pending' = Queue(u2, <<>>, <<>>, u3, u4) /\ Pending = Queue(<<>>, <<>>, u2, u3, u4)
        BY <2>3, <2>4, <4>1
      <4>3. QED
        BY <2>5, <4>2, Zenon
    <3>3. CASE k = 3
      <4>1. /\ replayed'.left = u3 /\ Unread(1)' = <<>> /\ Unread(2)' = <<>> /\ Unread(3)' = <<>> /\ Unread(4)' = u4
            /\ u1 = <<>> /\ u2 = <<>>
        BY <2>2, <3>3 DEF u1, u2, u3, u4
      <4>2. Pending' = Queue(u3, <<>>, <<>>, <<>>, u4) /\ Pending = Queue(<<>>, <<>>, <<>>, u3, u4)
        BY <2>3, <2>4, <4>1
      <4>3. QED
        BY <2>5, <4>2, Zenon
    <3>4. CASE k = 4
      <4>1. /\ replayed'.left = u4 /\ Unread(1)' = <<>> /\ Unread(2)' = <<>> /\ Unread(3)' = <<>> /\ Unread(4)' = <<>>
            /\ u1 = <<>> /\ u2 = <<>> /\ u3 = <<>>
        BY <2>2, <3>4 DEF u1, u2, u3, u4
      <4>2. Pending' = Queue(u4, <<>>, <<>>, <<>>, <<>>) /\ Pending = Queue(<<>>, <<>>, <<>>, <<>>, u4)
        BY <2>3, <2>4, <4>1
      <4>3. QED
        BY <2>5, <4>2, Zenon
    <3>5. QED
      BY <3>1, <3>2, <3>3, <3>4
  <2>7. QED
    BY <2>1, <2>6 DEF All, Holds
<1>10. ASSUME NEW s \in Setters, ReplayOne(s)
       PROVE  Goal
  <2>1. /\ replayed.left # <<>> /\ UNCHANGED <<cache, emitter>>
        /\ delivered' = Append(delivered, Head(replayed.left))
        /\ replayed'.left = Tail(replayed.left) /\ replayed'.on = replayed.on /\ replayed'.kind = replayed.kind
    BY <1>10 DEF ReplayOne, TypeOK
  <2> DEFINE rest == Join(Unread(1), Unread(2), Unread(3), Unread(4))
  <2>2. rest' = rest
    BY <2>1 DEF Unread
  <2>3. rest \in Seq(AllMetrics)
    BY <1>2, JoinTyped
  <2>4. All = Laid(d, l, rest) /\ All' = Laid(delivered', replayed'.left, rest')
    BY DEF All, Pending, Laid, d, l, rest
  <2> HIDE DEF rest
  <2>5. Laid(Append(d, Head(l)), Tail(l), rest) = Laid(d, l, rest)
    <3>1. l # <<>>
      BY <2>1 DEF l
    <3>2. QED
      BY <1>a, <2>3, <3>1, MoveHead
  <2>6. All' = Laid(Append(d, Head(l)), Tail(l), rest)
    BY <2>1, <2>2, <2>4 DEF d, l
  <2>7. QED
    BY <2>1, <2>4, <2>5, <2>6 DEF Holds
<1>11. ASSUME NEW s \in Setters, ReplayEmpty(s)
       PROVE  Goal
  <2>1. /\ replayed.on /\ replayed.left = <<>> /\ UNCHANGED <<delivered, emitter>>
        /\ replayed'.left = <<>> /\ ~replayed'.on /\ replayed'.kind = replayed.kind + 1
        /\ replayed.kind \in 1..4 /\ cache' = [cache EXCEPT ![ReplayOrder[replayed.kind]] = <<>>]
    BY <1>11 DEF ReplayEmpty, ReplayInv, TypeOK
  <2>2. \A i \in 1..4 : i # replayed.kind => ReplayOrder[i] # ReplayOrder[replayed.kind]
    BY <2>1 DEF ReplayOrder
  <2>3. \A i \in 1..4 : i # replayed.kind => cache'[ReplayOrder[i]] = cache[ReplayOrder[i]]
    BY <2>1, <2>2, SMTT(20) DEF TypeOK, ReplayOrder, Kinds
  <2>4. \A i \in 1..4 : Unread(i)' = Unread(i)
    BY <2>1, <2>3 DEF Unread
  <2>5. QED
    BY <2>1, <2>4 DEF All, Pending, Holds
<1>12. CASE UNCHANGED cacheVars
  <2>1. UNCHANGED <<delivered, cache, replayed, emitter>>
    BY <1>12, Zenon DEF cacheVars
  <2>2. QED
    BY <1>1, <2>1 DEF Holds
<1>13. QED
  BY <1>5, <1>6, <1>7, <1>8, <1>9, <1>10, <1>11, <1>12 DEF CacheNext, Emit, Set

(* SetSink's body runs once, by the caller that won. *)
LEMMA OnceNext ==
  ASSUME CacheInv, [CacheNext]_cacheVars
  PROVE  OnceInv'
<1> USE DEF CacheInv, OnceInv, Active, Inside
<1>1. setter \in [Setters -> {"idle", "lock", "store", "assign", "replay", "done"}] /\ replayed.kind \in 1..5
  BY DEF TypeOK
<1>2. ASSUME NEW e \in Emitters, Emit(e)
      PROVE  OnceInv'
  <2>1. UNCHANGED <<setter, once, realSink, replayed>>
    BY <1>2 DEF Emit, EmitLoad, EmitLock, EmitCheck, EmitForward, EmitAppend
  <2>2. QED
    BY <2>1
<1>3. ASSUME NEW s \in Setters, SetSink(s)
      PROVE  OnceInv'
  BY <1>1, <1>3 DEF SetSink
<1>4. ASSUME NEW s \in Setters, SetLock(s) \/ SetStore(s)
      PROVE  OnceInv'
  BY <1>1, <1>4 DEF SetLock, SetStore
<1>5. ASSUME NEW s \in Setters, SetAssign(s)
      PROVE  OnceInv'
  BY <1>1, <1>5 DEF SetAssign
<1>6. ASSUME NEW s \in Setters, ReplayBegin(s) \/ ReplayOne(s) \/ ReplayEmpty(s)
      PROVE  OnceInv'
  <2>1. UNCHANGED <<setter, once, realSink>> /\ once = "running"
    BY <1>6 DEF ReplayBegin, ReplayOne, ReplayEmpty
  <2>2. QED
    BY <2>1
<1>7. ASSUME NEW s \in Setters, SetUnlock(s)
      PROVE  OnceInv'
  <2>1. replayed.kind = 5 /\ replayed' = replayed
    BY <1>1, <1>7 DEF SetUnlock, ReplayOrder
  <2>2. QED
    BY <1>1, <1>7, <2>1 DEF SetUnlock
<1>8. CASE UNCHANGED cacheVars
  <2>1. UNCHANGED <<setter, once, realSink, replayed>>
    BY <1>8, Zenon DEF cacheVars
  <2>2. QED
    BY <2>1
<1>9. QED
  BY <1>2, <1>3, <1>4, <1>5, <1>6, <1>7, <1>8 DEF CacheNext, Set

(* Nothing is delivered before realSink is assigned, and an emitter that    *)
(* has a metric in hand has counted it.                                     *)
LEMMA ReplayNext ==
  ASSUME CacheInv, [CacheNext]_cacheVars
  PROVE  ReplayInv'
<1> USE DEF CacheInv, ReplayInv
<1>1. /\ emitter \in [Emitters -> [pc : {"idle", "lock", "check", "append", "forward", "panic"}, n : 0..MaxEmits]]
      /\ replayed \in [kind : 1..5, left : Seq(AllMetrics), on : BOOLEAN]
      /\ realSink \in {"nil", "torn", "set"}
  BY DEF TypeOK
<1>2. ASSUME NEW e \in Emitters, EmitLoad(e) \/ EmitLock(e) \/ EmitCheck(e)
      PROVE  ReplayInv'
  <2>1. UNCHANGED <<replayed, delivered, realSink>>
    BY <1>2 DEF EmitLoad, EmitLock, EmitCheck
  <2>2. CASE EmitLoad(e)
    BY <1>1, <2>1, <2>2, MetricsCacheAssumption DEF EmitLoad
  <2>3. CASE EmitLock(e)
    BY <1>1, <2>1, <2>3 DEF EmitLock, Step
  <2>4. CASE EmitCheck(e)
    BY <1>1, <2>1, <2>4 DEF EmitCheck, Step
  <2>5. QED
    BY <1>2, <2>2, <2>3, <2>4
<1>3. ASSUME NEW e \in Emitters, EmitForward(e) \/ EmitAppend(e)
      PROVE  ReplayInv'
  <2>1. UNCHANGED <<replayed, realSink>> /\ (realSink = "nil" => delivered' = delivered)
    BY <1>3 DEF EmitForward, EmitAppend
  <2>2. emitter' = [emitter EXCEPT ![e].pc = "idle"]
    BY <1>3 DEF EmitForward, EmitAppend, Step
  <2>3. QED
    BY <1>1, <2>1, <2>2, SMTT(20)
<1>4. ASSUME NEW s \in Setters, SetSink(s) \/ SetLock(s) \/ SetStore(s) \/ SetUnlock(s)
      PROVE  ReplayInv'
  <2>1. UNCHANGED <<replayed, delivered, realSink, emitter>>
    BY <1>4 DEF SetSink, SetLock, SetStore, SetUnlock
  <2>2. QED
    BY <2>1
<1>5. ASSUME NEW s \in Setters, SetAssign(s)
      PROVE  ReplayInv'
  BY <1>1, <1>5 DEF SetAssign
<1>6. ASSUME NEW s \in Setters, ReplayBegin(s) \/ ReplayOne(s) \/ ReplayEmpty(s)
      PROVE  ReplayInv'
  <2>1. UNCHANGED <<realSink, emitter>> /\ realSink = "set"
    BY <1>6 DEF ReplayBegin, ReplayOne, ReplayEmpty, LockInv, SetterInv
  <2>2. CASE ReplayBegin(s)
    BY <1>1, <2>1, <2>2 DEF ReplayBegin, ReplayOrder
  <2>3. CASE ReplayOne(s)
    BY <1>1, <2>1, <2>3 DEF ReplayOne
  <2>4. CASE ReplayEmpty(s)
    BY <1>1, <2>1, <2>4 DEF ReplayEmpty
  <2>5. QED
    BY <1>6, <2>2, <2>3, <2>4
<1>7. CASE UNCHANGED cacheVars
  BY <1>7 DEF cacheVars
<1>8. QED
  BY <1>2, <1>3, <1>4, <1>5, <1>6, <1>7, Zenon DEF CacheNext, Emit, Set

(* No metric twice: an emitter hands over what it has in hand, which is     *)
(* neither delivered nor pending, and then has nothing in hand.             *)
LEMMA FreshNext ==
  ASSUME CacheInv, [CacheNext]_cacheVars
  PROVE  FreshInv'
<1> USE DEF CacheInv
<1>1. All \in Seq(AllMetrics) /\ All' \in Seq(AllMetrics)
  <2>1. TypeOK' => (All \in Seq(AllMetrics))'
    BY AllTyped, PTL
  <2>2. QED
    BY <2>1, TypeNext, PendingTyped
<1>2. /\ emitter \in [Emitters -> [pc : {"idle", "lock", "check", "append", "forward", "panic"}, n : 0..MaxEmits]]
      /\ emitter' \in [Emitters -> [pc : {"idle", "lock", "check", "append", "forward", "panic"}, n : 0..MaxEmits]]
      /\ MaxEmits \in Nat
  BY TypeNext, MetricsCacheAssumption, SMTT(20) DEF TypeOK
<1>3. \A m \in Range(All) : m \in AllMetrics
  BY <1>1, ElementOfSeq, LenProperties DEF Range
<1>4. \A m \in AllMetrics : m[1] \in Emitters /\ m[2] \in Nat /\ m = <<m[1], m[2]>>
  BY <1>2 DEF AllMetrics
<1>5. ASSUME NEW e \in Emitters, Hands(e)
      PROVE  FreshInv'
  <2>1. emitter[e].pc # "idle" /\ emitter' = [emitter EXCEPT ![e].pc = "idle"]
    BY <1>5 DEF Hands
  <2>2. Metric(e) \in AllMetrics /\ Metric(e)[1] = e /\ Metric(e)[2] = emitter[e].n
    BY <1>2, <2>1 DEF ReplayInv, Metric, AllMetrics
  <2>3. Metric(e) \notin Range(All)
    BY <2>1, <2>2 DEF FreshInv
  <2>4. Range(All') \subseteq Range(All) \cup {Metric(e)} /\ IsInjective(All')
    <3>1. CASE All' = All
      BY <3>1 DEF FreshInv
    <3>2. CASE Put(All, All', Metric(e))
      BY <1>1, <2>2, <2>3, <3>2, PutNew DEF FreshInv
    <3>3. QED
      BY <1>5, <3>1, <3>2 DEF Hands
  <2>5. ASSUME NEW m \in Range(All'), NEW f \in Emitters, m[1] = f
        PROVE  m[2] <= emitter'[f].n /\ (emitter'[f].pc # "idle" => m[2] # emitter'[f].n)
    <3>1. emitter'[f].n = emitter[f].n /\ (f # e => emitter'[f].pc = emitter[f].pc) /\ emitter'[e].pc = "idle"
      BY <1>2, <2>1
    <3>2. CASE m = Metric(e)
      BY <1>2, <2>2, <2>5, <3>1, <3>2
    <3>3. CASE m \in Range(All)
      BY <2>5, <3>1, <3>3 DEF FreshInv
    <3>4. QED
      BY <2>4, <3>2, <3>3
  <2>6. QED
    BY <2>4, <2>5 DEF FreshInv
<1>6. ASSUME All' = All, \A e \in Emitters : Holds(e)
      PROVE  FreshInv'
  <2>1. ASSUME NEW m \in Range(All), NEW f \in Emitters, m[1] = f
        PROVE  m[2] <= emitter'[f].n /\ (emitter'[f].pc # "idle" => m[2] # emitter'[f].n)
    <3>1. m[2] <= emitter[f].n /\ (emitter[f].pc # "idle" => m[2] # emitter[f].n)
      BY <2>1 DEF FreshInv
    <3>2. m[2] \in Nat /\ emitter[f].n \in Nat
      BY <1>2, <1>3, <1>4
    <3>3. QED
      BY <1>6, <3>1, <3>2 DEF Holds
  <2>2. IsInjective(All)
    BY DEF FreshInv
  <2>3. QED
    BY <1>6, <2>1, <2>2 DEF FreshInv
<1>7. QED
  BY <1>5, <1>6, AllNext

(* What SetSink found in the slices when it got the mutex is all that there *)
(* is then, and nothing that is added later gets between.                   *)
LEMMA OrderNext ==
  ASSUME CacheInv, [CacheNext]_cacheVars
  PROVE  OrderInv'
<1> USE DEF CacheInv
<1>1. All \in Seq(AllMetrics) /\ All' \in Seq(AllMetrics)
  <2>1. TypeOK' => (All \in Seq(AllMetrics))'
    BY AllTyped, PTL
  <2>2. QED
    BY <2>1, TypeNext, PendingTyped
<1> DEFINE After == (\E s \in Setters : setter[s] \in Inside) \/ once = "done"
<1>2. ASSUME NEW s \in Setters, SetLock(s)
      PROVE  OrderInv'
  <2>1. delivered = <<>> /\ replayed.kind = 1 /\ ~replayed.on /\ replayed.left = <<>>
    BY <1>2 DEF SetLock, OnceInv, ReplayInv
  <2>2. /\ Unread(1) = cache["samples"] /\ Unread(2) = cache["gauges"]
        /\ Unread(3) = cache["counters"] /\ Unread(4) = cache["keys"]
    BY <2>1 DEF Unread, ReplayOrder
  <2>3. early' = Join(Unread(1), Unread(2), Unread(3), Unread(4))
    BY <1>2, <2>2, SMTT(20) DEF SetLock
  <2>4. early' \in Seq(AllMetrics)
    BY TypeNext DEF TypeOK
  <2>5. All = <<>> \o (<<>> \o early')
    BY <2>1, <2>3 DEF All, Pending
  <2>6. All = early'
    <3> DEFINE x == early'
    <3>1. x \in Seq(AllMetrics) /\ All = <<>> \o (<<>> \o x)
      BY <2>4, <2>5
    <3> HIDE DEF x
    <3>2. <<>> \o x = x
      BY <3>1, ConcatEmptySeq
    <3>3. QED
      BY <3>1, <3>2 DEF x
  <2>7. All' = All
    BY <1>2 DEF SetLock, All, Pending, Unread
  <2>8. \A i, j \in DOMAIN All : All[i] = All[j] => i = j
    BY DEF FreshInv, IsInjective
  <2>9. InOrder(All, All)
    BY <2>8 DEF InOrder
  <2>10. QED
    BY <2>6, <2>7, <2>9 DEF OrderInv
<1>3. ASSUME ~ \E s \in Setters : SetLock(s)
      PROVE  early' = early /\ (After' => After)
  <2>1. setter \in [Setters -> {"idle", "lock", "store", "assign", "replay", "done"}]
    BY DEF TypeOK
  <2>2. ASSUME NEW e \in Emitters, Emit(e)
        PROVE  UNCHANGED <<early, setter, once>>
    BY <2>2 DEF Emit, EmitLoad, EmitLock, EmitCheck, EmitForward, EmitAppend
  <2>3. ASSUME NEW s \in Setters, Set(s)
        PROVE  early' = early /\ (After' => After)
    <3>1. CASE SetSink(s)
      BY <2>1, <3>1 DEF SetSink, Inside
    <3>2. CASE SetStore(s) \/ SetAssign(s) \/ SetUnlock(s)
      BY <3>2 DEF SetStore, SetAssign, SetUnlock, Inside
    <3>3. CASE ReplayBegin(s) \/ ReplayOne(s) \/ ReplayEmpty(s)
      BY <3>3 DEF ReplayBegin, ReplayOne, ReplayEmpty, Inside
    <3>4. QED
      BY <1>3, <2>3, <3>1, <3>2, <3>3 DEF Set
  <2>4. CASE UNCHANGED cacheVars
    BY <2>4 DEF cacheVars
  <2>5. QED
    BY <2>2, <2>3, <2>4 DEF CacheNext
<1>4. ASSUME early' = early, After, NEW e \in Emitters, Hands(e)
      PROVE  InOrder(early, All')
  <2>1. InOrder(early, All)
    BY <1>4 DEF OrderInv
  <2>2. Metric(e) \in AllMetrics /\ Metric(e)[1] = e /\ Metric(e)[2] = emitter[e].n /\ emitter[e].pc # "idle"
    <3>1. emitter[e].pc # "idle" /\ emitter[e].n \in 0..MaxEmits /\ MaxEmits \in Nat
      BY <1>4, MetricsCacheAssumption DEF TypeOK, Hands
    <3>2. QED
      BY <3>1 DEF ReplayInv, Metric, AllMetrics
  <2>3. Metric(e) \notin Range(All)
    BY <2>2 DEF FreshInv
  <2>4. QED
    BY <1>1, <1>4, <2>1, <2>2, <2>3, PutNew DEF Hands
<1>5. ASSUME early' = early, After' => After
      PROVE  OrderInv'
  <2> SUFFICES ASSUME After' PROVE InOrder(early, All')
    BY <1>5 DEF OrderInv
  <2>1. InOrder(early, All)
    BY <1>5 DEF OrderInv
  <2>2. QED
    BY <1>4, <1>5, <2>1, AllNext
<1>6. QED
  BY <1>2, <1>3, <1>5

(* A new cache sink: no metric, nothing to replay. *)
LEMMA CacheInvInit == CacheInit => CacheInv
<1> SUFFICES ASSUME CacheInit PROVE CacheInv
  OBVIOUS
<1>1. <<>> \in Seq(AllMetrics)
  BY EmptySeq
<1>2. TypeOK
  BY <1>1, MetricsCacheAssumption DEF CacheInit, TypeOK
<1>3. OnceInv /\ ReplayInv
  BY DEF CacheInit, OnceInv, ReplayInv, Active, Inside
<1>4. All = <<>>
  <2>1. Unread(1) = <<>> /\ Unread(2) = <<>> /\ Unread(3) = <<>> /\ Unread(4) = <<>>
    BY DEF CacheInit, Unread, ReplayOrder, Kinds
  <2>2. <<>> \o <<>> = <<>>
    BY <1>1, ConcatEmptySeq
  <2>3. replayed.left = <<>> /\ delivered = <<>>
    BY DEF CacheInit
  <2>4. QED
    BY <2>1, <2>2, <2>3, Zenon DEF All, Pending, Join
<1>5. FreshInv
  BY <1>4 DEF FreshInv, IsInjective, Range
<1>6. OrderInv
  BY DEF CacheInit, OrderInv, Inside
<1>7. QED
  BY <1>2, <1>3, <1>5, <1>6, LockInvInit DEF CacheInv

(* Every atomic access of an emitter or of SetSink preserves it. *)
LEMMA CacheInvNext == CacheInv /\ [CacheNext]_cacheVars => CacheInv'
<1> SUFFICES ASSUME CacheInv, [CacheNext]_cacheVars
             PROVE  CacheInv'
  OBVIOUS
<1>1. LockInv'
  BY LockInvNext DEF CacheInv
<1>2. QED
  BY <1>1, TypeNext, OnceNext, ReplayNext, FreshNext, OrderNext DEF CacheInv

(* Sink.SetSink and the emitting methods: whatever races the early store of *)
(* checkLock allows, the real sink is given no metric twice, and one caller *)
(* of SetSink replays, with mu held.                                        *)
THEOREM NoMetricTwice == CacheSpec => []AtMostOnce
<1>1. CacheInv => AtMostOnce
  <2> SUFFICES ASSUME CacheInv PROVE AtMostOnce
    OBVIOUS
  <2>1. \A s \in Setters : setter[s] \in {"store", "assign", "replay"} <=> mu = s
    BY DEF CacheInv, LockInv, SetterInv, Inside
  <2>2. \A s, t \in Setters : setter[s] = "lock" \/ mu = s => setter[t] = "idle" \/ s = t
    <3> SUFFICES ASSUME NEW s \in Setters, NEW t \in Setters, setter[s] = "lock" \/ mu = s
                 PROVE  setter[t] = "idle" \/ s = t
      OBVIOUS
    <3>1. setter[s] \in Active /\ once = "running"
      BY <2>1 DEF CacheInv, OnceInv, Active, Inside
    <3>2. setter[t] # "done"
      BY <3>1 DEF CacheInv, OnceInv
    <3>3. setter[t] \in {"idle", "lock", "store", "assign", "replay", "done"}
      BY DEF CacheInv, TypeOK
    <3>4. setter[t] \in Active => s = t
      BY <3>1 DEF CacheInv, OnceInv
    <3>5. QED
      BY <3>2, <3>3, <3>4 DEF Active, Inside
  <2>3. QED
    BY <2>1, <2>2 DEF CacheInv, FreshInv, All, AtMostOnce
<1>2. QED
  BY CacheInvInit, CacheInvNext, <1>1, PTL DEF CacheSpec

(* Sink.replay: when SetSink returns, the real sink has everything that was *)
(* cached when it took the mutex, each slice in the order it was emitted.   *)
THEOREM ReplaysAll == CacheSpec => []ReplayComplete
<1>1. CacheInv => ReplayComplete
  <2> SUFFICES ASSUME CacheInv, once = "done" PROVE InOrder(early, delivered)
    BY DEF ReplayComplete
  <2>1. replayed.kind = 5 /\ replayed.left = <<>>
    BY DEF CacheInv, OnceInv, ReplayInv
  <2>2. Unread(1) = <<>> /\ Unread(2) = <<>> /\ Unread(3) = <<>> /\ Unread(4) = <<>>
    BY <2>1 DEF Unread
  <2>3. <<>> \o <<>> = <<>> /\ delivered \o <<>> = delivered
    BY EmptySeq, ConcatEmptySeq DEF CacheInv, TypeOK
  <2>4. All = delivered
    BY <2>1, <2>2, <2>3, Zenon DEF All, Pending, Join
  <2>5. QED
    BY <2>4 DEF CacheInv, OrderInv
<1>2. QED
  BY CacheInvInit, CacheInvNext, <1>1, PTL DEF CacheSpec
=============================================================================
