------------------------------- MODULE Metrics -------------------------------
(***************************************************************************)
(* metricsConfig (pkg/consuldp/metrics.go): startMetrics sets up the sinks *)
(* and, for Prometheus, two HTTP servers: one for the dataplane's own      *)
(* metrics (cdp) and one (merged) that scrapes that one, Envoy and the     *)
(* service and merges what it gets.  Both are stopped when the context is  *)
(* cancelled, and both report a failure on one channel.                    *)
(***************************************************************************)
EXTENDS Naturals, Sequences, Functions

CONSTANT
  MaxRequests  \* scrapes of the merged endpoint (a bound of the model)

AllBackends == <<"prometheus", "statsd", "dogstatsd">>

ASSUME MetricsAssumption == MaxRequests \in Nat

VARIABLES
  cfg,         \* the configuration: is telemetry central, which backends does
               \* the bootstrap configuration name, is there a service to scrape
  start,       \* startMetrics: the backend it is at, or how it returned
  metricsRunning, \* m.running
  sinks,       \* the fan-out sink built so far
  forwardsTo,  \* what the cache sink forwards to
  cdp,         \* the dataplane's own metrics server
  cdpField,    \* m.cdpMetricsServer is not nil
  merged,      \* the merged metrics server
  errorExitCh, \* open, closed
  ctxDone,     \* the context of startMetrics is cancelled
  stopper,     \* the goroutine that waits for that: none, waiting, done
  metricsPanic,   \* a goroutine panicked
  request,     \* the scrape the merged handler is answering
  requests     \* how many it was sent

metricsVars == <<cfg, start, metricsRunning, sinks, forwardsTo, cdp, cdpField, merged, errorExitCh,
                 ctxDone, stopper, metricsPanic, request, requests>>
starting == <<cfg, start, metricsRunning, sinks, forwardsTo>>
scraping == <<request, requests>>

ServerStates == {"none", "spawned", "created", "serving", "closed", "failed"}
NoRequest == [pc |-> "none", next |-> 1, body |-> <<>>, status |-> 0, failed |-> FALSE]
Sources == IF cfg.service THEN <<"cdp", "envoy", "service">> ELSE <<"cdp", "envoy">>

MetricsTypeOK ==
  /\ cfg \in [central : BOOLEAN, backends : SUBSET Range(AllBackends), service : BOOLEAN]
  /\ start \in {"idle", "failed", "returned", "setSink"} \cup Range(AllBackends)
  /\ metricsRunning \in BOOLEAN
  /\ sinks \in Seq(cfg.backends)
  /\ forwardsTo \in {"none", "fanout", "blackhole"}
  /\ cdp \in ServerStates /\ cdpField \in BOOLEAN /\ merged \in ServerStates
  /\ errorExitCh \in {"open", "closed"}
  /\ ctxDone \in BOOLEAN /\ metricsPanic \in BOOLEAN
  /\ stopper \in {"none", "waiting", "done"}
  /\ requests \in 0..MaxRequests

MetricsInit ==
  /\ cfg \in [central : BOOLEAN, backends : SUBSET Range(AllBackends), service : BOOLEAN]
  /\ start = "idle" /\ metricsRunning = FALSE /\ sinks = <<>> /\ forwardsTo = "none"
  /\ cdp = "none" /\ cdpField = FALSE /\ merged = "none"
  /\ errorExitCh = "open" /\ ctxDone = FALSE /\ stopper = "none" /\ metricsPanic = FALSE
  /\ request = NoRequest /\ requests = 0

-----------------------------------------------------------------------------
(* startMetrics, which holds mu from "prometheus" until it has returned.    *)

Locked == start \in {"setSink"} \cup Range(AllBackends)

(* Without central configuration, metrics go to a black hole. *)
StartMetrics ==
  /\ start = "idle"
  /\ IF cfg.central
     THEN start' = "prometheus" /\ metricsRunning' = TRUE /\ stopper' = "waiting" /\ UNCHANGED forwardsTo
     ELSE start' = "returned" /\ forwardsTo' = "blackhole" /\ UNCHANGED <<metricsRunning, stopper>>
  /\ UNCHANGED <<cfg, sinks, cdp, cdpField, merged, errorExitCh, ctxDone, metricsPanic, scraping>>

After(b) == CASE b = "prometheus" -> "statsd" [] b = "statsd" -> "dogstatsd" [] OTHER -> "setSink"

ConfigureSink(b) ==
  /\ start = b
  /\ b \in cfg.backends
  /\ sinks' = Append(sinks, b)
  /\ start' = After(b)
  /\ cdp' = IF b = "prometheus" THEN "spawned" ELSE cdp
  /\ merged' = IF b = "prometheus" THEN "created" ELSE merged
  /\ UNCHANGED <<cfg, metricsRunning, forwardsTo, cdpField, errorExitCh, ctxDone, stopper, metricsPanic, scraping>>

SkipSink(b) ==
  /\ start = b
  /\ b \notin cfg.backends
  /\ start' = After(b)
  /\ UNCHANGED <<cfg, metricsRunning, sinks, forwardsTo, cdp, cdpField, merged, errorExitCh, ctxDone, stopper, metricsPanic,
                 scraping>>

(* An address does not parse, or a sink cannot be made: startMetrics        *)
(* returns the error and leaves what it has started.                        *)
ConfigureFails(b) ==
  /\ start = b
  /\ b \in cfg.backends
  /\ start' = "failed"
  /\ UNCHANGED <<cfg, metricsRunning, sinks, forwardsTo, cdp, cdpField, merged, errorExitCh, ctxDone, stopper, metricsPanic,
                 scraping>>

InstallSink ==
  /\ start = "setSink"
  /\ forwardsTo' = "fanout"
  /\ start' = "returned"
  /\ UNCHANGED <<cfg, metricsRunning, sinks, cdp, cdpField, merged, errorExitCh, ctxDone, stopper, metricsPanic, scraping>>

-----------------------------------------------------------------------------
(* The two servers and their end.                                           *)

(* Mutant: the error path closes the channel, and a deferred call again. *)
MutantCloseErrorExitCh == errorExitCh' = "closed" /\ metricsPanic' = TRUE

(* close(m.errorExitCh), which panics the second time. *)
CloseErrorExitCh ==
  /\ errorExitCh' = "closed"
  /\ metricsPanic' = (errorExitCh = "closed")

(* The goroutine of the cdp server makes it.  On the merged server's side  *)
(* startMetrics has done that.                                             *)
RunPrometheusCDPServer ==
  /\ cdp = "spawned"
  /\ cdp' = "created"
  /\ cdpField' = TRUE
  /\ UNCHANGED <<starting, merged, errorExitCh, ctxDone, stopper, metricsPanic, scraping>>

(* ListenAndServe of a server that was closed before returns at once. *)
Listen ==
  /\ \/ cdp = "created" /\ cdp' = "serving" /\ UNCHANGED merged
     \/ merged = "created" /\ merged' = "serving" /\ UNCHANGED cdp
  /\ UNCHANGED <<starting, cdpField, errorExitCh, ctxDone, stopper, metricsPanic, scraping>>

(* It cannot listen, or accepting fails. *)
ServerFails ==
  /\ \/ cdp \in {"created", "serving"} /\ cdp' = "failed" /\ UNCHANGED merged
     \/ merged \in {"created", "serving"} /\ merged' = "failed" /\ UNCHANGED cdp
  /\ CloseErrorExitCh
  /\ UNCHANGED <<starting, cdpField, ctxDone, stopper, scraping>>

MetricsCtxCancel ==
  /\ ~ctxDone
  /\ ctxDone' = TRUE
  /\ UNCHANGED <<starting, cdp, cdpField, merged, errorExitCh, stopper, metricsPanic, scraping>>

Closed(server) == IF server \in {"created", "serving"} THEN "closed" ELSE server

(* Mutant: stopMetricsServers does not take mu. *)
MutantStopMetricsServers ==
  /\ stopper = "waiting"
  /\ ctxDone
  /\ stopper' = "done"
  /\ metricsRunning' = FALSE
  /\ merged' = Closed(merged)
  /\ cdp' = IF cdpField THEN Closed(cdp) ELSE cdp
  /\ UNCHANGED <<cfg, start, sinks, forwardsTo, cdpField, errorExitCh, ctxDone, metricsPanic, scraping>>

(* stopMetricsServers, once it has mu, closes the servers there are; an    *)
(* error of closing a listener is reported like that of a server.          *)
StopMetricsServers ==
  /\ stopper = "waiting"
  /\ ctxDone
  /\ ~Locked
  /\ stopper' = "done"
  /\ metricsRunning' = FALSE
  /\ merged' = Closed(merged)
  /\ cdp' = IF cdpField THEN Closed(cdp) ELSE cdp
  /\ \/ UNCHANGED <<errorExitCh, metricsPanic>>
     \/ "serving" \in {merged, cdp} /\ CloseErrorExitCh
  /\ UNCHANGED <<cfg, start, sinks, forwardsTo, cdpField, ctxDone, scraping>>

-----------------------------------------------------------------------------
(* mergedMetricsHandler: the sources are scraped one after the other.       *)

Request ==
  /\ merged = "serving"
  /\ request.pc # "scraping"
  /\ requests < MaxRequests
  /\ request' = [NoRequest EXCEPT !.pc = "scraping"]
  /\ requests' = requests + 1
  /\ UNCHANGED <<starting, cdp, cdpField, merged, errorExitCh, ctxDone, stopper, metricsPanic>>

(* io.Copy: the first write sends the status with it. *)
ScrapeMetrics ==
  /\ request.pc = "scraping"
  /\ request.next <= Len(Sources)
  /\ Sources[request.next] = "cdp" => cdp = "serving"
  /\ request' = [request EXCEPT !.body = Append(@, Sources[request.next]), !.status = 200, !.next = @ + 1]
  /\ UNCHANGED <<starting, cdp, cdpField, merged, errorExitCh, ctxDone, stopper, metricsPanic, requests>>

(* Mutant: the handler goes on with the next source. *)
MutantScrapeError ==
  /\ request.pc = "scraping"
  /\ request.next <= Len(Sources)
  /\ request' = [request EXCEPT !.next = @ + 1, !.failed = TRUE,
                                !.status = IF @ = 0 THEN 500 ELSE @]
  /\ UNCHANGED <<starting, cdp, cdpField, merged, errorExitCh, ctxDone, stopper, metricsPanic, requests>>

(* The source cannot be had, or the copy of it breaks off: http.Error,     *)
(* whose status comes too late when something was written before.          *)
ScrapeError ==
  /\ request.pc = "scraping"
  /\ request.next <= Len(Sources)
  /\ \E status \in {200, IF request.status = 0 THEN 500 ELSE 200} :
       request' = [request EXCEPT !.pc = "done", !.failed = TRUE, !.status = status]
  /\ UNCHANGED <<starting, cdp, cdpField, merged, errorExitCh, ctxDone, stopper, metricsPanic, requests>>

HandlerReturns ==
  /\ request.pc = "scraping"
  /\ request.next > Len(Sources)
  /\ request' = [request EXCEPT !.pc = "done"]
  /\ UNCHANGED <<starting, cdp, cdpField, merged, errorExitCh, ctxDone, stopper, metricsPanic, requests>>

-----------------------------------------------------------------------------

MetricsNext ==
  /\ ~metricsPanic
  /\ \/ StartMetrics
     \/ \E b \in Range(AllBackends) : ConfigureSink(b) \/ SkipSink(b) \/ ConfigureFails(b)
     \/ InstallSink
     \/ RunPrometheusCDPServer \/ Listen \/ ServerFails
     \/ MetricsCtxCancel \/ StopMetricsServers
     \/ Request \/ ScrapeMetrics \/ ScrapeError \/ HandlerReturns

MetricsSpec == MetricsInit /\ [][MetricsNext]_metricsVars

-----------------------------------------------------------------------------
(* Properties.                                                              *)

(* Once stopMetricsServers has run, the merged server does not serve and    *)
(* will not, however its goroutine, startMetrics and the cancellation of    *)
(* the context interleave.                                                  *)
MergedStops ==
  /\ MetricsTypeOK
  /\ stopper = "done" => merged \in {"none", "closed", "failed"}

(* One error does not bring the process down: closing errorExitCh panics    *)
(* only when there were two, of both servers or of one and of stopping the  *)
(* other.                                                                   *)
OneErrorIsReported ==
  metricsPanic =>
    /\ "failed" \in {cdp, merged}
    /\ cdp = merged \/ stopper = "done"

(* A merged response holds the sources up to the first that failed, in      *)
(* their order; it is a 500 only when it holds none of them, and one that   *)
(* did not fail holds them all.                                             *)
MergedBody ==
  /\ request.status \in {0, 200, 500}
  /\ request.body = SubSeq(Sources, 1, request.next - 1)
  /\ request.status = 500 => request.body = <<>>
  /\ request.pc = "done" /\ ~request.failed => request.body = Sources
=============================================================================
