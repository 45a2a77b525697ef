---------------------------- MODULE RequestScrape ----------------------------
(***************************************************************************)
(* One metrics request answered by the request strategy:                   *)
(* handleMetricsRequest (main.go) calls MeasurementResults                 *)
(* (atlas/request_strategy.go), which runs getMeasurementForID in one      *)
(* goroutine per measurement and collects from an unbuffered channel until *)
(* it is closed or the request times out; then the collector exports.      *)
(*                                                                         *)
(* One of the measurements, Focus, has its pool of probe lookups (module   *)
(* ProbePool) step by step; for the others the pool is one step that fails *)
(* or returns a map with or without every probe.                           *)
(***************************************************************************)
EXTENDS Naturals, Sequences, FiniteSets

CONSTANTS
  IDs,           \* the measurements asked for
  Focus,         \* the measurement with a detailed pool
  Consumers, Results, ZeroID, None,   \* see ProbePool
  Timeout,       \* cfg.Timeout in ticks
  WriteTimeout,  \* http.Server.WriteTimeout in ticks
  MaxNow         \* bound: last tick of the clock

ASSUME ScrapeAssumption ==
  /\ IsFiniteSet(IDs)
  /\ IsFiniteSet(Consumers)
  /\ Focus \in IDs
  /\ Timeout \in Nat
  /\ WriteTimeout \in Nat
  /\ MaxNow \in Nat

VARIABLES
  filter,    \* cfg.FilterInvalidResults, fixed when the exporter starts
  now,       \* ticks since the request arrived
  gpc,       \* control state of the goroutine of each measurement
  missing,   \* measurements with a result whose probe is not in the map
  open,      \* the channel is open
  res,       \* the measurements collected, in order
  ret,       \* what MeasurementResults returned: "none", "ok", "timeout"
  reply,     \* what the client got: "none", "metrics", "error", "nothing"
  crashed,   \* "no", or the panic that ended the process: "missing" (a nil
             \* probe) or "document" (a probe with one coordinate)
  outcome,   \* auxiliary: what became of each measurement
  workers, next, added, idOpen, cpc, work, outOpen, poolRet, probes, zeroed

Pool == INSTANCE ProbePool WITH ret <- poolRet

ASSUME PoolAssumption == Pool!PoolConstants

poolVars ==
  <<workers, next, added, idOpen, cpc, work, outOpen, poolRet, probes, zeroed>>
vars == <<filter, now, gpc, missing, open, res, ret, reply, crashed, outcome,
          poolVars>>

Init ==
  /\ Pool!Init
  /\ filter \in BOOLEAN
  /\ now = 0
  /\ gpc = [i \in IDs |-> "fetch"]
  /\ missing = {}
  /\ open = TRUE
  /\ res = <<>>
  /\ ret = "none"
  /\ reply = "none"
  /\ crashed = "no"
  /\ outcome = [i \in IDs |-> "none"]

Tick ==
  /\ now < MaxNow
  /\ now' = now + 1
  /\ UNCHANGED <<filter, gpc, missing, open, res, ret, reply, crashed,
                 outcome, poolVars>>
-----------------------------------------------------------------------------
(* getMeasurementForID *)

Goto(i, label) == gpc' = [gpc EXCEPT ![i] = label]

(* Every return but the last leaves the measurement out: wg.Done runs.     *)
Skip(i) ==
  /\ Goto(i, "done")
  /\ outcome' = [outcome EXCEPT ![i] = "skipped"]
  /\ UNCHANGED <<filter, now, missing, open, res, ret, reply, crashed,
                 poolVars>>

(* The API call fails, a result does not parse, there is no result, or the *)
(* type is not supported.                                                  *)
FetchFails(i) == gpc[i] = "fetch" /\ Skip(i)

Fetch(i) ==
  /\ gpc[i] = "fetch"
  /\ Goto(i, "probes")
  /\ UNCHANGED <<filter, now, missing, open, res, ret, reply, crashed,
                 outcome, poolVars>>

(* A goroutine of the pool takes a step; after an error the pool outlives  *)
(* the call.                                                               *)
PoolStep ==
  /\ gpc[Focus] = "probes" \/ poolRet # "none"
  /\ Pool!Next
  /\ UNCHANGED <<filter, now, gpc, missing, open, res, ret, reply, crashed,
                 outcome>>

(* probesForResults returns an error ... *)
ProbesFail(i) ==
  /\ gpc[i] = "probes"
  /\ i = Focus => poolRet = "error"
  /\ Skip(i)

(* ... or a map, which lacks the probes the API had no answer for. *)
Probes(i) ==
  /\ gpc[i] = "probes"
  /\ i = Focus => poolRet = "ok"
  /\ Goto(i, "add")
  /\ \E lacking \in IF i = Focus THEN {~(Pool!Ids \subseteq probes)}
                     ELSE BOOLEAN :
       missing' = IF lacking THEN missing \cup {i} ELSE missing
  /\ UNCHANGED <<filter, now, open, res, ret, reply, crashed, outcome,
                 poolVars>>

(* Fault: the goroutine has no recover, and a nil probe ends the process. *)
PanicUnrecovered(i) ==
  /\ crashed' = "missing"
  /\ UNCHANGED <<filter, now, gpc, missing, open, res, ret, reply, outcome,
                 poolVars>>

(* A panic in the goroutine is recovered: "Measurement will be skipped for *)
(* this scrape".                                                           *)
Panic(i) == Skip(i)

(* The loop over the results panics: a histogram panics on a result, or    *)
(* the validator is called with a nil probe.                               *)
AddPanics(i) == gpc[i] = "add" /\ Panic(i)

(* mes.Add for every result.  Without a validator nothing looks at the     *)
(* probe, and nil is stored.                                               *)
AddAll(i) ==
  /\ gpc[i] = "add"
  /\ i \in missing => ~filter
  /\ Goto(i, "send")
  /\ UNCHANGED <<filter, now, missing, open, res, ret, reply, crashed,
                 outcome, poolVars>>
-----------------------------------------------------------------------------
(* MeasurementResults *)

(* Fault: the channel is closed once one goroutine is done. *)
CloseAfterFirst ==
  /\ open
  /\ \E i \in IDs : gpc[i] = "done"
  /\ open' = FALSE
  /\ UNCHANGED <<filter, now, gpc, missing, res, ret, reply, crashed, outcome,
                 poolVars>>

(* wg.Wait(); close(ch) *)
Close ==
  /\ open
  /\ \A i \in IDs : gpc[i] = "done"
  /\ open' = FALSE
  /\ UNCHANGED <<filter, now, gpc, missing, res, ret, reply, crashed, outcome,
                 poolVars>>

(* ch <- mes meets the select. *)
Take(i) ==
  /\ ret = "none"
  /\ gpc[i] = "send"
  /\ res' = Append(res, i)
  /\ Goto(i, "done")
  /\ outcome' = [outcome EXCEPT ![i] = "measured"]
  /\ UNCHANGED <<filter, now, missing, open, ret, reply, crashed, poolVars>>

TakeClosed ==
  /\ ret = "none"
  /\ ~open
  /\ ret' = "ok"
  /\ UNCHANGED <<filter, now, gpc, missing, open, res, reply, crashed,
                 outcome, poolVars>>

(* Fault: the select has no Done case. *)
NoDone == FALSE

(* ctx.Done(): what was collected so far is dropped, and goroutines that   *)
(* finish later block on the channel for ever.                             *)
TimedOut ==
  /\ ret = "none"
  /\ now >= Timeout
  /\ ret' = "timeout"
  /\ UNCHANGED <<filter, now, gpc, missing, open, res, reply, crashed,
                 outcome, poolVars>>
-----------------------------------------------------------------------------
(* handleMetricsRequest and the export *)

(* net/http drops what is written after the write deadline. *)
Respond(r) == reply' = IF now < WriteTimeout THEN r ELSE "nothing"

(* errorHandler answers with status 500. *)
Fail ==
  /\ reply = "none"
  /\ ret = "timeout"
  /\ Respond("error")
  /\ UNCHANGED <<filter, now, gpc, missing, open, res, ret, crashed, outcome,
                 poolVars>>

(* collector.Collect runs in a goroutine of the Prometheus registry, where *)
(* a panic ends the process.  The exporter asks the probe of every result, *)
(* but for an http result without parts: it may meet nil, if the probe is  *)
(* missing, or a document with one coordinate, which Latitude panics on.   *)
Export ==
  /\ reply = "none"
  /\ ret = "ok"
  /\ \/ /\ \E k \in DOMAIN res : res[k] \in missing
        /\ crashed' = "missing"
        /\ UNCHANGED reply
     \/ /\ res # <<>>
        /\ crashed' = "document"
        /\ UNCHANGED reply
     \/ /\ Respond("metrics")
        /\ UNCHANGED crashed
  /\ UNCHANGED <<filter, now, gpc, missing, open, res, ret, outcome, poolVars>>
-----------------------------------------------------------------------------
Goroutine(i) ==
  FetchFails(i) \/ Fetch(i) \/ ProbesFail(i) \/ Probes(i) \/ AddPanics(i)
    \/ AddAll(i)

Collect == Close \/ (\E i \in IDs : Take(i)) \/ TakeClosed \/ TimedOut

Handler == Fail \/ Export

Next ==
  /\ crashed = "no"
  /\ Tick \/ PoolStep \/ (\E i \in IDs : Goroutine(i)) \/ Collect \/ Handler

Spec == Init /\ [][Next]_vars

(* The clock runs, and the goroutine that selects and the handler are      *)
(* scheduled.  Nothing is assumed of the API: it may never answer.         *)
FairSpec ==
  /\ Spec
  /\ WF_vars(crashed = "no" /\ Tick)
  /\ WF_vars(crashed = "no" /\ TimedOut)
  /\ WF_vars(crashed = "no" /\ Handler)
-----------------------------------------------------------------------------
(* Type invariant of the request's state. *)
TypeOK ==
  /\ Pool!TypeOK
  /\ filter \in BOOLEAN
  /\ now \in 0 .. MaxNow
  /\ gpc \in [IDs -> {"fetch", "probes", "add", "send", "done"}]
  /\ missing \subseteq IDs
  /\ open \in BOOLEAN
  /\ res \in Seq(IDs)
  /\ ret \in {"none", "ok", "timeout"}
  /\ reply \in {"none", "metrics", "error", "nothing"}
  /\ crashed \in {"no", "missing", "document"}
  /\ outcome \in [IDs -> {"none", "skipped", "measured"}]

(* A request that did not time out exports every measurement exactly once, *)
(* but for those that were skipped on purpose: the WaitGroup closes the    *)
(* channel only after the last send was received.                          *)
CompleteUnlessTimedOut ==
  ret = "ok" =>
    /\ \A i \in IDs : outcome[i] # "none"
    /\ \A i \in IDs :
         outcome[i] = "measured" <=> \E k \in DOMAIN res : res[k] = i
    /\ Len(res) = Cardinality({i \in IDs : outcome[i] = "measured"})

(* With filter_invalid_results on, no result ends the process because its  *)
(* probe is missing: nil panics in the validator, where the goroutine of   *)
(* the measurement recovers it, and not on export.  A probe document with  *)
(* one coordinate passes the filter, and is the one panic left.            *)
FilterStopsMissing == filter => crashed \in {"no", "document"}

(* What the pool promises, here while the request may time out and export. *)
CompleteOnSuccess == Pool!CompleteOnSuccess
NoSendOnClosed == Pool!NoSendOnClosed

(* The goroutine of a measurement never waits for a pool that cannot move, *)
(* not even one without workers.                                           *)
NeverStuck == gpc[Focus] = "probes" => Pool!NeverStuck

(* Liveness: the handler is done with every request, even if the API never *)
(* answers.                                                                *)
RequestEnds == <>(reply # "none" \/ crashed # "no")
=============================================================================
