---------------------------- MODULE MetricsProofs ----------------------------
(***************************************************************************)
(* Theorems about the metrics servers and the merged endpoint, for every   *)
(* configuration and any number of scrapes.                                *)
(***************************************************************************)
EXTENDS Metrics, SequenceTheorems, TLAPS

Backends == {"prometheus", "statsd", "dogstatsd"}

(* Before startMetrics comes to Prometheus there are no servers, and the   *)
(* goroutine that stops them is done only when startMetrics has given mu   *)
(* back.  (The merged server is made by startMetrics, not by a goroutine.) *)
StartInv ==
  /\ merged # "spawned"
  /\ start = "idle" => stopper = "none"
  /\ start \in {"idle", "prometheus"} => cdp = "none" /\ merged = "none"
  /\ stopper = "done" => ~Locked

(* errorExitCh is closed by a server that failed, or by stopping.          *)
ErrorInv == errorExitCh = "closed" => "failed" \in {cdp, merged} \/ stopper = "done"

MetricsInv == MergedStops /\ StartInv /\ ErrorInv /\ OneErrorIsReported

(* The backends that startMetrics goes through. *)
LEMMA RangeOfBackends == Range(AllBackends) = Backends
  BY DEF Range, AllBackends, Backends

(* The invariant holds before startMetrics is called. *)
LEMMA MetricsInvInit == MetricsInit => MetricsInv
<1> SUFFICES ASSUME MetricsInit PROVE MetricsInv
  OBVIOUS
<1>1. requests \in 0..MaxRequests
  BY MetricsAssumption DEF MetricsInit
<1>2. sinks \in Seq(cfg.backends)
  BY DEF MetricsInit
<1>3. MetricsTypeOK
  BY <1>1, <1>2, Zenon DEF MetricsInit, MetricsTypeOK, ServerStates
<1>4. QED
  BY <1>3, RangeOfBackends
     DEF MetricsInit, MetricsInv, MergedStops, StartInv, ErrorInv, OneErrorIsReported, Locked, Backends

(* A step of the handler leaves the servers and startMetrics alone. *)
LEMMA HandlerStep ==
  ASSUME MetricsInv, requests' \in 0..MaxRequests,
         UNCHANGED <<starting, cdp, cdpField, merged, errorExitCh, ctxDone, stopper, metricsPanic>>
  PROVE  MetricsInv'
<1>1. UNCHANGED <<cfg, start, metricsRunning, sinks, forwardsTo>>
  BY DEF starting
<1>2. MetricsTypeOK'
  BY <1>1 DEF MetricsInv, MergedStops, MetricsTypeOK
<1>3. QED
  BY <1>1, <1>2 DEF MetricsInv, MergedStops, StartInv, ErrorInv, OneErrorIsReported, Locked

(* Every step of startMetrics, of the servers, of the goroutine that stops *)
(* them and of the handler preserves the invariant.                        *)
LEMMA MetricsInvNext == MetricsInv /\ [MetricsNext]_metricsVars => MetricsInv'
<1> SUFFICES ASSUME MetricsInv, [MetricsNext]_metricsVars
             PROVE  MetricsInv'
  OBVIOUS
<1> DEFINE Rest == /\ stopper' = "done" => merged' \in {"none", "closed", "failed"}
                   /\ StartInv' /\ ErrorInv' /\ OneErrorIsReported'
<1>1. /\ MetricsTypeOK /\ StartInv /\ ErrorInv /\ OneErrorIsReported
      /\ stopper = "done" => merged \in {"none", "closed", "failed"}
  BY DEF MetricsInv, MergedStops
<1>2. ASSUME MetricsTypeOK', Rest
      PROVE  MetricsInv'
  BY <1>2 DEF MetricsInv, MergedStops
<1>3. /\ Locked <=> start \in {"prometheus", "statsd", "dogstatsd", "setSink"}
      /\ Locked' <=> start' \in {"prometheus", "statsd", "dogstatsd", "setSink"}
  BY RangeOfBackends DEF Locked, Backends
<1> USE DEF starting
<1>4. CASE ~metricsPanic /\ StartMetrics
  <2> USE <1>4 DEF StartMetrics
  <2>1. /\ start' \in {"prometheus", "returned"} /\ stopper' \in {"none", "waiting"}
        /\ forwardsTo' \in {"none", "fanout", "blackhole"} /\ metricsRunning' \in BOOLEAN
    <3>1. start = "idle" /\ stopper = "none"
      BY <1>1 DEF StartInv
    <3>2. CASE cfg.central
      BY <1>1, <3>1, <3>2 DEF MetricsTypeOK
    <3>3. CASE ~cfg.central
      BY <1>1, <3>1, <3>3 DEF MetricsTypeOK
    <3>4. QED
      BY <3>2, <3>3
  <2>2. MetricsTypeOK'
    BY <1>1, <2>1, RangeOfBackends DEF MetricsTypeOK, Backends, scraping
  <2>3. Rest
    BY <1>1, <1>3, <2>1 DEF StartInv, ErrorInv, OneErrorIsReported
  <2>4. QED
    BY <1>2, <2>2, <2>3
<1>5. ASSUME NEW b \in Backends, ~metricsPanic, ConfigureSink(b) \/ SkipSink(b) \/ ConfigureFails(b)
      PROVE  MetricsInv'
  <2> USE <1>5 DEF ConfigureSink, SkipSink, ConfigureFails
  <2>1. start = b /\ start' \in {"statsd", "dogstatsd", "setSink", "failed"}
    BY DEF After, Backends
  <2>2. sinks' \in Seq(cfg.backends)
    BY <1>1 DEF MetricsTypeOK
  <2>3. /\ cdp' = cdp \/ (b = "prometheus" /\ cdp' = "spawned")
        /\ merged' = merged \/ (b = "prometheus" /\ merged' = "created")
    OBVIOUS
  <2>4. MetricsTypeOK'
    BY <1>1, <2>1, <2>2, <2>3, RangeOfBackends DEF MetricsTypeOK, Backends, ServerStates, scraping
  <2>5. Rest
    BY <1>1, <1>3, <2>1, <2>3 DEF StartInv, ErrorInv, OneErrorIsReported, Backends
  <2>6. QED
    BY <1>2, <2>4, <2>5
<1>6. CASE ~metricsPanic /\ InstallSink
  <2> USE <1>6 DEF InstallSink
  <2>1. MetricsTypeOK'
    BY <1>1 DEF MetricsTypeOK, scraping
  <2>2. Rest
    BY <1>1, <1>3 DEF StartInv, ErrorInv, OneErrorIsReported
  <2>3. QED
    BY <1>2, <2>1, <2>2
<1>7. CASE ~metricsPanic /\ (RunPrometheusCDPServer \/ Listen \/ MetricsCtxCancel)
  <2> USE <1>7 DEF RunPrometheusCDPServer, Listen, MetricsCtxCancel
  <2>1. /\ cdp' \in ServerStates /\ merged' \in ServerStates
        /\ cdpField' \in BOOLEAN /\ ctxDone' \in BOOLEAN
    <3>1. cdp' \in {cdp, "created", "serving"} /\ merged' \in {merged, "serving"}
      OBVIOUS
    <3>2. cdpField' \in BOOLEAN /\ ctxDone' \in BOOLEAN
      <4>1. cdpField' \in {TRUE, cdpField} /\ ctxDone' \in {TRUE, ctxDone}
        BY Zenon
      <4>2. QED
        BY <1>1, <4>1, Zenon DEF MetricsTypeOK
    <3>3. QED
      BY <1>1, <3>1, <3>2 DEF MetricsTypeOK, ServerStates
  <2>2. MetricsTypeOK'
    BY <1>1, <2>1 DEF MetricsTypeOK, scraping
  <2>3. Rest
    BY <1>1, <1>3 DEF StartInv, ErrorInv, OneErrorIsReported
  <2>4. QED
    BY <1>2, <2>2, <2>3
<1>8. CASE ~metricsPanic /\ ServerFails
  <2> USE <1>8 DEF ServerFails, CloseErrorExitCh
  <2>1. MetricsTypeOK'
    BY <1>1 DEF MetricsTypeOK, ServerStates, scraping
  <2>2. Rest
    BY <1>1, <1>3, Zenon DEF StartInv, ErrorInv, OneErrorIsReported
  <2>3. QED
    BY <1>2, <2>1, <2>2
<1>9. CASE ~metricsPanic /\ StopMetricsServers
  <2> USE <1>9 DEF StopMetricsServers, CloseErrorExitCh
  <2>1. /\ metricsPanic' \in BOOLEAN /\ metricsRunning' \in BOOLEAN
        /\ metricsPanic' => errorExitCh = "closed"
    <3>1. metricsRunning' \in BOOLEAN
      BY Zenon
    <3>2. CASE UNCHANGED <<errorExitCh, metricsPanic>>
      BY <1>1, <3>2, Zenon DEF MetricsTypeOK
    <3>3. CASE CloseErrorExitCh
      BY <3>3, Zenon DEF CloseErrorExitCh
    <3>4. QED
      BY <3>1, <3>2, <3>3, Zenon
  <2>2. /\ merged' \in ServerStates \ {"created", "serving", "spawned"} /\ cdp' \in ServerStates
        /\ merged = "none" => merged' = "none"
        /\ merged = "failed" => merged' = "failed"
        /\ cdp = "none" => cdp' = "none"
        /\ cdp = "failed" => cdp' = "failed"
    <3>1. merged' = Closed(merged) /\ cdp' \in {cdp, Closed(cdp)}
      OBVIOUS
    <3>2. merged # "spawned"
      BY <1>1 DEF StartInv
    <3>3. merged \in ServerStates /\ cdp \in ServerStates
      BY <1>1 DEF MetricsTypeOK
    <3>4. QED
      BY <3>1, <3>2, <3>3 DEF ServerStates, Closed
  <2>3. MetricsTypeOK'
    BY <1>1, <2>1, <2>2 DEF MetricsTypeOK, scraping
  <2>4. Rest
    BY <1>1, <1>3, <2>1, <2>2 DEF StartInv, ErrorInv, OneErrorIsReported, ServerStates
  <2>5. QED
    BY <1>2, <2>3, <2>4
<1>10. CASE ~metricsPanic /\ (Request \/ ScrapeMetrics \/ ScrapeError \/ HandlerReturns)
  <2>1. requests' \in 0..MaxRequests
    BY <1>10, <1>1, MetricsAssumption DEF Request, ScrapeMetrics, ScrapeError, HandlerReturns, MetricsTypeOK
  <2>2. QED
    BY <1>10, <2>1, HandlerStep DEF Request, ScrapeMetrics, ScrapeError, HandlerReturns
<1>11. CASE UNCHANGED metricsVars
  BY <1>11, <1>1, HandlerStep DEF metricsVars, MetricsTypeOK
<1>12. QED
  BY <1>4, <1>5, <1>6, <1>7, <1>8, <1>9, <1>10, <1>11, RangeOfBackends DEF MetricsNext

(* stopMetricsServers takes mu, which startMetrics holds while it makes    *)
(* the merged server: once the first has run, the merged server does not   *)
(* serve and never will.                                                   *)
THEOREM MergedServerStops == MetricsSpec => []MergedStops
<1>1. MetricsInv => MergedStops
  BY DEF MetricsInv
<1>2. QED
  BY MetricsInvInit, MetricsInvNext, <1>1, PTL DEF MetricsSpec

(* close(m.errorExitCh) is reached twice only after two errors. *)
THEOREM SingleErrorsAreReported == MetricsSpec => []OneErrorIsReported
<1>1. MetricsInv => OneErrorIsReported
  BY DEF MetricsInv
<1>2. QED
  BY MetricsInvInit, MetricsInvNext, <1>1, PTL DEF MetricsSpec

(* The handler counts the sources it is done with, and has answered with   *)
(* nothing or with an error alone only before the first of them.           *)
ScrapeInv ==
  /\ cfg.service \in BOOLEAN
  /\ request \in [pc : {"none", "scraping", "done"}, next : 1..(Len(Sources) + 1), body : Seq(Range(Sources)),
                  status : {0, 200, 500}, failed : BOOLEAN]
  /\ request.body = SubSeq(Sources, 1, request.next - 1)
  /\ request.status \in {0, 500} => request.next = 1
  /\ request.pc = "done" /\ ~request.failed => request.next = Len(Sources) + 1

(* The sources: two, and the service's if there is one. *)
LEMMA SourcesTyped ==
  ASSUME cfg.service \in BOOLEAN
  PROVE  Sources \in Seq(Range(Sources)) /\ Len(Sources) \in {2, 3}
<1>1. CASE cfg.service
  <2>1. Sources = <<"cdp", "envoy", "service">>
    BY <1>1 DEF Sources
  <2>2. Sources \in Seq({"cdp", "envoy", "service"}) /\ Len(Sources) = 3
    BY <2>1
  <2>3. QED
    BY <2>2, SeqOfRange
<1>2. CASE ~cfg.service
  <2>1. Sources = <<"cdp", "envoy">>
    BY <1>2 DEF Sources
  <2>2. Sources \in Seq({"cdp", "envoy"}) /\ Len(Sources) = 2
    BY <2>1
  <2>3. QED
    BY <2>2, SeqOfRange
<1>3. QED
  BY <1>1, <1>2

(* s is r after one of the handler's assignments, its fields as given. *)
Updated(s, r, p, k, q, t, b) ==
  \/ s = [r EXCEPT !.body = q, !.status = t, !.next = k] /\ p = r.pc /\ b = r.failed
  \/ s = [r EXCEPT !.pc = p, !.failed = b, !.status = t] /\ k = r.next /\ q = r.body
  \/ s = [r EXCEPT !.pc = p] /\ k = r.next /\ q = r.body /\ t = r.status /\ b = r.failed
  \/ s = [pc |-> p, next |-> k, body |-> q, status |-> t, failed |-> b]

(* The updates of a request by the handler's steps. *)
LEMMA RequestUpdates ==
  ASSUME NEW P, NEW N, NEW Q, NEW T, NEW B,
         NEW r \in [pc : P, next : N, body : Q, status : T, failed : B],
         NEW p \in P, NEW k \in N, NEW q \in Q, NEW t \in T, NEW b \in B, NEW s,
         Updated(s, r, p, k, q, t, b)
  PROVE  /\ s \in [pc : P, next : N, body : Q, status : T, failed : B]
         /\ s.pc = p /\ s.next = k /\ s.body = q /\ s.status = t /\ s.failed = b
<1>1. CASE s = [r EXCEPT !.body = q, !.status = t, !.next = k] /\ p = r.pc /\ b = r.failed
  BY <1>1, Zenon
<1>2. CASE s = [r EXCEPT !.pc = p, !.failed = b, !.status = t] /\ k = r.next /\ q = r.body
  BY <1>2, Zenon
<1>3. CASE s = [r EXCEPT !.pc = p] /\ k = r.next /\ q = r.body /\ t = r.status /\ b = r.failed
  BY <1>3
<1>4. CASE s = [pc |-> p, next |-> k, body |-> q, status |-> t, failed |-> b]
  BY <1>4
<1>5. QED
  BY <1>1, <1>2, <1>3, <1>4 DEF Updated

(* Before the first request there is none. *)
LEMMA ScrapeInvInit == MetricsInit => ScrapeInv
<1> SUFFICES ASSUME MetricsInit PROVE ScrapeInv
  OBVIOUS
<1>1. cfg.service \in BOOLEAN /\ request = NoRequest
  BY DEF MetricsInit
<1>2. Sources \in Seq(Range(Sources)) /\ Len(Sources) \in Nat
  BY <1>1, SourcesTyped
<1>3. SubSeq(Sources, 1, 0) = <<>> /\ <<>> \in Seq(Range(Sources))
  BY <1>2, SubSeqProperties, EmptySeq
<1>4. QED
  BY <1>1, <1>2, <1>3 DEF ScrapeInv, NoRequest

(* The configuration does not change, and what the handler has written is  *)
(* what it has scraped, whatever happens to the servers meanwhile.         *)
LEMMA ScrapeInvNext == ScrapeInv /\ [MetricsNext]_metricsVars => ScrapeInv'
<1> SUFFICES ASSUME ScrapeInv, [MetricsNext]_metricsVars
             PROVE  ScrapeInv'
  OBVIOUS
<1>1. cfg' = cfg /\ Sources' = Sources
  BY DEF MetricsNext, metricsVars, starting, StartMetrics, ConfigureSink, SkipSink, ConfigureFails, InstallSink,
         RunPrometheusCDPServer, Listen, ServerFails, MetricsCtxCancel, StopMetricsServers,
         Request, ScrapeMetrics, ScrapeError, HandlerReturns, Sources
<1> DEFINE src == Sources
           n == Len(src)
           S == Range(src)
           P == {"none", "scraping", "done"}
           N == 1..(n + 1)
           Q == Seq(S)
           T == {0, 200, 500}
           B == BOOLEAN
           R == [pc : P, next : N, body : Q, status : T, failed : B]
           Good(p, k, q, t, b) == /\ q = SubSeq(src, 1, k - 1)
                                  /\ t \in {0, 500} => k = 1
                                  /\ p = "done" /\ ~b => k = n + 1
<1>2. src \in Seq(S) /\ n \in {2, 3}
  BY SourcesTyped DEF ScrapeInv
<1>3. /\ cfg.service \in BOOLEAN /\ request \in R
      /\ Good(request.pc, request.next, request.body, request.status, request.failed)
  BY DEF ScrapeInv
<1>4. ASSUME request' \in R, Good(request'.pc, request'.next, request'.body, request'.status, request'.failed)
      PROVE  ScrapeInv'
  BY <1>1, <1>3, <1>4 DEF ScrapeInv
<1>5. ASSUME NEW p \in P, NEW k \in N, NEW q \in Q, NEW t \in T, NEW b \in B, Good(p, k, q, t, b),
             Updated(request', request, p, k, q, t, b)
      PROVE  ScrapeInv'
  <2> HIDE DEF P, N, Q, T, B, src, n
  <2>1. /\ request' \in R
        /\ request'.pc = p /\ request'.next = k /\ request'.body = q /\ request'.status = t /\ request'.failed = b
    <3> HIDE DEF Good
    <3>1. request \in [pc : P, next : N, body : Q, status : T, failed : B] /\ Updated(request', request, p, k, q, t, b)
      BY <1>3, <1>5
    <3> DEFINE s == request'
               r == request
    <3>2. r \in [pc : P, next : N, body : Q, status : T, failed : B] /\ Updated(s, r, p, k, q, t, b)
      BY <3>1
    <3> HIDE DEF s, r
    <3>3. /\ s \in [pc : P, next : N, body : Q, status : T, failed : B]
          /\ s.pc = p /\ s.next = k /\ s.body = q /\ s.status = t /\ s.failed = b
      BY <3>2, RequestUpdates
    <3>4. QED
      BY <3>3 DEF s
  <2> HIDE DEF R, Good
  <2>2. Good(request'.pc, request'.next, request'.body, request'.status, request'.failed)
    BY <1>5, <2>1, Zenon
  <2>3. QED
    BY <1>4, <2>1, <2>2
<1>6. /\ request.pc \in P /\ request.next \in N /\ request.body \in Q
      /\ request.status \in T /\ request.failed \in B
  <2> HIDE DEF P, N, Q, T, B
  <2>1. QED
    BY <1>3, Zenon
<1>7. CASE Request
  <2>1. SubSeq(src, 1, 1 - 1) = <<>> /\ <<>> \in Q
    BY <1>2, SubSeqProperties, EmptySeq
  <2>2. request' = [pc |-> "scraping", next |-> 1, body |-> <<>>, status |-> 0, failed |-> FALSE]
    BY <1>7, Zenon DEF Request, NoRequest
  <2> DEFINE no == FALSE
             q == <<>>
  <2>3. /\ "scraping" \in P /\ 1 \in N /\ q \in Q /\ 0 \in T /\ no \in B
        /\ Good("scraping", 1, q, 0, no)
    BY <1>2, <2>1
  <2>4. Updated(request', request, "scraping", 1, q, 0, no)
    BY <2>2 DEF Updated
  <2> HIDE DEF P, N, Q, T, B, Good, no, q
  <2>5. QED
    BY <1>5, <2>3, <2>4
<1>8. CASE ScrapeMetrics
  <2> DEFINE k == request.next
             q == Append(request.body, src[k])
  <2>1. request.pc = "scraping" /\ request' = [request EXCEPT !.body = q, !.status = 200, !.next = k + 1]
    BY <1>8 DEF ScrapeMetrics
  <2>2. k \in 1..n /\ k + 1 \in N /\ (k + 1) - 1 = k
    BY <1>2, <1>6, <1>8 DEF ScrapeMetrics
  <2>3. request.body = SubSeq(src, 1, k - 1) /\ src[k] \in S /\ request.body \in Seq(S)
    BY <1>2, <1>3, <1>6, <2>2, ElementOfSeq
  <2>4. q \in Q /\ q = SubSeq(src, 1, k)
    <3> HIDE DEF src, S, k
    <3>1. q \in Q
      BY <2>3, AppendProperties
    <3>2. SubSeq(src, 1, k) = SubSeq(src, 1, k - 1) \o <<src[k]>>
      <4>1. k \in 1..Len(src) /\ 1 \in 1..Len(src)
        BY <1>2, <2>2
      <4>2. QED
        BY <1>2, <4>1, SubSeqRecursiveSecond
    <3>3. q = request.body \o <<src[k]>>
      BY <2>3, AppendIsConcat, Zenon
    <3>4. QED
      BY <2>3, <3>1, <3>2, <3>3, Zenon
  <2>5. Good("scraping", k + 1, q, 200, request.failed)
    BY <2>2, <2>4
  <2>6. 200 \in T
    OBVIOUS
  <2> HIDE DEF P, N, Q, T, B, Good, k, q
  <2>7. Good(request.pc, k + 1, q, 200, request.failed)
    BY <2>1, <2>5
  <2>8. Updated(request', request, request.pc, k + 1, q, 200, request.failed)
    BY <2>1 DEF Updated
  <2>9. QED
    BY <1>5, <1>6, <2>2, <2>4, <2>6, <2>7, <2>8
<1>9. CASE ScrapeError
  <2>1. PICK t \in {200, IF request.status = 0 THEN 500 ELSE 200} :
          request' = [request EXCEPT !.pc = "done", !.failed = TRUE, !.status = t]
    BY <1>9, Zenon DEF ScrapeError
  <2>2. t \in T /\ (t = 500 => request.status = 0) /\ t # 0
    BY <1>6
  <2> DEFINE yes == TRUE
  <2>3. Good("done", request.next, request.body, t, yes) /\ yes \in B /\ "done" \in P
    BY <1>3, <2>2
  <2>4. Updated(request', request, "done", request.next, request.body, t, yes)
    BY <2>1 DEF Updated
  <2> HIDE DEF N, Q, T, B, P, Good, yes
  <2>5. QED
    BY <1>5, <1>6, <2>2, <2>3, <2>4
<1>10. CASE HandlerReturns
  <2>1. request' = [request EXCEPT !.pc = "done"] /\ request.next > n
    BY <1>10 DEF HandlerReturns
  <2>2. request.next = n + 1
    BY <1>2, <1>6, <2>1
  <2>3. Good("done", request.next, request.body, request.status, request.failed) /\ "done" \in P
    BY <1>3, <2>2
  <2> HIDE DEF N, Q, T, B, P, Good
  <2>4. Updated(request', request, "done", request.next, request.body, request.status, request.failed)
    BY <2>1 DEF Updated
  <2>5. QED
    BY <1>5, <1>6, <2>3, <2>4
<1>11. CASE request' = request
  BY <1>3, <1>4, <1>11
<1>12. QED
  BY <1>7, <1>8, <1>9, <1>10, <1>11
     DEF MetricsNext, metricsVars, scraping, StartMetrics, ConfigureSink, SkipSink, ConfigureFails, InstallSink,
         RunPrometheusCDPServer, Listen, ServerFails, MetricsCtxCancel, StopMetricsServers

(* mergedMetricsHandler: a response is a prefix of the sources in their    *)
(* order, all of them when no scrape failed, and a 500 only when empty,    *)
(* for every configuration and any number of scrapes.                      *)
THEOREM MergedInOrder == MetricsSpec => []MergedBody
<1>1. ScrapeInv => MergedBody
  <2> SUFFICES ASSUME ScrapeInv PROVE MergedBody
    OBVIOUS
  <2>1. Sources \in Seq(Range(Sources)) /\ Len(Sources) \in {2, 3}
    BY SourcesTyped DEF ScrapeInv
  <2>2. SubSeq(Sources, 1, 0) = <<>>
    BY <2>1, SubSeqProperties
  <2>3. (Len(Sources) + 1) - 1 = Len(Sources) /\ 1 - 1 = 0
    BY <2>1
  <2>4. SubSeq(Sources, 1, Len(Sources)) = Sources
    BY <2>1, SubSeqFull
  <2>5. /\ request.status \in {0, 200, 500}
        /\ request.body = SubSeq(Sources, 1, request.next - 1)
        /\ request.status \in {0, 500} => request.next = 1
        /\ request.pc = "done" /\ ~request.failed => request.next = Len(Sources) + 1
    BY DEF ScrapeInv
  <2>6. QED
    BY <2>2, <2>3, <2>4, <2>5 DEF MergedBody
<1>2. QED
  BY ScrapeInvInit, ScrapeInvNext, <1>1, PTL DEF MetricsSpec
=============================================================================
