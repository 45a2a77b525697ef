------------------------------ MODULE Streaming ------------------------------
(***************************************************************************)
(* The streaming strategy: one goroutine per configured measurement        *)
(* (streamStrategyWorker.run), one goroutine that consumes the shared      *)
(* result channel (processMeasurementResults), and the readiness check     *)
(* (IsHealthy) that HTTP goroutines run against their shared counters.     *)
(*                                                                         *)
(* A step is the code between two accesses to shared state.  Sources:      *)
(* atlas/stream_strategy.go, atlas/stream_strategy_worker.go.              *)
(***************************************************************************)
EXTENDS ResultStore, RetryBackoff, Sequences, FiniteSets

CONSTANTS
  IDs,             \* measurement ids, as written in the configuration
  IdOf,            \* the configured id of a worker
  Atoi,            \* id -> strconv.Itoa(strconv.Atoi(id)), or NotANumber
  NotANumber,      \* strconv.Atoi returns an error
  NoResult,        \* no result is held
  BufferSize,      \* cfg.Streaming.BufferSize; 0 is an unbuffered channel
  TicksPerSecond,  \* clock ticks per second; Unix() truncates to seconds
  MaxDataAge,      \* cfg.Health.MaxDataAge in ticks; 0 disables the check
  MaxNow           \* bound: last tick of the clock

ASSUME StreamingAssumption ==
  /\ IsFiniteSet(Workers)
  /\ IdOf \in [Workers -> IDs]
  /\ NotANumber \notin Keys
  /\ Atoi \in [IDs -> Keys \cup {NotANumber}]
  /\ NoResult \notin Result
  /\ BufferSize \in Nat
  /\ TicksPerSecond \in Nat \ {0}
  /\ MaxDataAge \in Nat
  /\ MaxNow \in Nat

VARIABLES
  ctxDone,           \* the root context is cancelled (SIGINT or SIGTERM)
  cacheReady,        \* atlas.InitCache has run
  now,               \* the clock, in ticks
  pc,                \* control state of each worker
  retryAttempt,      \* streamStrategyWorker.retryAttempt
  delay,             \* the armed time.After of a waiting worker, else 0
  held,              \* the result a worker is sending on resultCh
  connectedWorkers,  \* streamingStrategy.connectedWorkers
  streamConnected,   \* StreamConnectedGauge, per configured id
  resultCh,          \* the shared result channel
  ppc,               \* control state of the processor
  cur,               \* the result the processor works on
  curValid,          \* the validator's verdict on cur and its probe
  measurements,      \* streamingStrategy.measurements
  lastDataTime,      \* streamingStrategy.lastDataTime, in seconds
  lastDataGauge,     \* LastDataTimestampGauge, in seconds; 0 is absent
  hpc,               \* control state of the readiness check
  ready,             \* its last answer
  received,          \* auxiliary: number of results taken off the streams
  outcome,           \* auxiliary: what became of each of them
  stampedAt          \* auxiliary: tick at which lastDataTime was last set

envVars == <<ctxDone, cacheReady, now>>
retryVars == <<retryAttempt, delay>>
workerVars == <<pc, retryVars, held>>
gaugeVars == <<connectedWorkers, streamConnected>>
procVars == <<ppc, cur, curValid>>
dataVars == <<lastDataTime, lastDataGauge, stampedAt>>
healthVars == <<hpc, ready>>
auxVars == <<received, outcome>>
senderVars == <<workerVars, gaugeVars>>
readerVars == <<procVars, measurements, dataVars, healthVars>>
vars == <<envVars, senderVars, resultCh, readerVars, auxVars>>

(* Control states of a worker.  "connect" and "clear" lie between the      *)
(* update of connectedWorkers and that of the gauge; "send" is blocked in  *)
(* w.resultCh <- m; "decr" is past listenForResults; "done" returned on    *)
(* cancellation; "dead" returned through the recover of run.               *)
WorkerStates ==
  {"subscribe", "connect", "listen", "send", "decr", "clear", "wait",
   "done", "dead"}
ProcStates == {"recv", "stamp", "lookup", "add", "recover", "sleep"}
Outcomes ==
  {"none", "inflight", "stored", "filtered", "unsupported", "lookupError",
   "panicked", "drained"}

Busy == ppc \in {"stamp", "lookup", "add"}

Init ==
  /\ ctxDone = FALSE
  /\ cacheReady = FALSE
  /\ now = TicksPerSecond
  /\ pc = [w \in Workers |-> "subscribe"]
  /\ retryAttempt = [w \in Workers |-> 0]
  /\ delay = [w \in Workers |-> 0]
  /\ held = [w \in Workers |-> NoResult]
  /\ connectedWorkers = 0
  /\ streamConnected = [i \in IDs |-> "absent"]
  /\ resultCh = <<>>
  /\ ppc = "recv"
  /\ cur = NoResult
  /\ curValid = FALSE
  /\ measurements = [k \in Keys |-> Absent]
  /\ lastDataTime = 0
  /\ lastDataGauge = [k \in Keys \cup {ZeroKey} |-> 0]
  /\ hpc = "idle"
  /\ ready = "none"
  /\ received = 0
  /\ outcome = [n \in 1 .. MaxReceived |-> "none"]
  /\ stampedAt = 0
-----------------------------------------------------------------------------
(* Environment: the signal, the start-up of the probe cache (InitCache is  *)
(* called by startServer, after NewStreamingStrategy) and the clock.       *)

Cancel ==
  /\ ~ctxDone
  /\ ctxDone' = TRUE
  /\ UNCHANGED <<cacheReady, now, senderVars, resultCh, readerVars, auxVars>>

InitCache ==
  /\ ~cacheReady
  /\ cacheReady' = TRUE
  /\ UNCHANGED <<ctxDone, now, senderVars, resultCh, readerVars, auxVars>>

Tick ==
  /\ now < MaxNow
  /\ now' = now + 1
  /\ UNCHANGED <<ctxDone, cacheReady, senderVars, resultCh, readerVars,
                 auxVars>>
-----------------------------------------------------------------------------
(* Workers: streamStrategyWorker.run, subscribe and listenForResults.      *)

Goto(w, label) == pc' = [pc EXCEPT ![w] = label]

(* Entry of the select at the end of run's loop, with retryAttempt = n.    *)
(* getRetryDelay is evaluated before either case is considered; its panic  *)
(* is recovered by run, which then returns.                                *)
EnterSelect(w, n) ==
  /\ retryAttempt' = [retryAttempt EXCEPT ![w] = n]
  /\ \/ /\ Panics(n)
        /\ Goto(w, "dead")
        /\ UNCHANGED delay
     \/ /\ ~Panics(n)
        /\ Goto(w, "wait")
        /\ \E d \in RetryDelays(n) : delay' = [delay EXCEPT ![w] = d]

(* subscribe fails: the id is not a number, or the stream refuses. *)
SubscribeFail(w) ==
  /\ pc[w] = "subscribe"
  /\ EnterSelect(w, retryAttempt[w] + 1)
  /\ UNCHANGED <<envVars, held, gaugeVars, resultCh, readerVars, auxVars>>

(* Fault: retryAttempt is not reset by a successful subscription. *)
AttemptKept(w) == retryAttempt

(* w.retryAttempt = 0 *)
AttemptReset(w) == [retryAttempt EXCEPT ![w] = 0]

(* subscribe, which may fail, succeeds only for an id that is a number. *)
MaySubscribe(w) == Atoi[IdOf[w]] # NotANumber

(* subscribe succeeds; the worker counts itself as connected. *)
Subscribe(w) ==
  /\ pc[w] = "subscribe"
  /\ MaySubscribe(w)
  /\ Goto(w, "connect")
  /\ retryAttempt' = AttemptReset(w)
  /\ connectedWorkers' = connectedWorkers + 1
  /\ UNCHANGED <<envVars, delay, held, streamConnected, resultCh,
                 readerVars, auxVars>>

SetConnected(w) ==
  /\ pc[w] = "connect"
  /\ Goto(w, "listen")
  /\ streamConnected' = [streamConnected EXCEPT ![IdOf[w]] = "up"]
  /\ UNCHANGED <<envVars, retryVars, held, connectedWorkers, resultCh,
                 readerVars, auxVars>>

(* The results stream can hand to w: a Result that only carries a          *)
(* ParseError is zero everywhere else.                                     *)
Deliverable(w) ==
  {r \in [n : {received + 1}, src : {w},
          key : {Atoi[IdOf[w]], ZeroKey}, prb : Probes, kind : Kinds] :
      r.key = ZeroKey <=> r.kind = "parseError"}

(* A result arrives on the stream.  A nil result is skipped (no step) and  *)
(* a parse error is logged and forwarded like any other result.            *)
ReceiveResult(w) ==
  /\ pc[w] = "listen"
  /\ received < MaxReceived
  /\ \E r \in Deliverable(w) : held' = [held EXCEPT ![w] = r]
  /\ Goto(w, "send")
  /\ received' = received + 1
  /\ outcome' = [outcome EXCEPT ![received + 1] = "inflight"]
  /\ UNCHANGED <<envVars, retryVars, gaugeVars, resultCh, readerVars>>

(* listenForResults returns. *)
LeaveListen(w, label) ==
  /\ pc[w] = "listen"
  /\ Goto(w, label)
  /\ UNCHANGED <<envVars, retryVars, held, gaugeVars, resultCh, readerVars,
                 auxVars>>

(* The stream is closed, or delivers a c.On(disconnect) error. *)
StreamEnds(w) == LeaveListen(w, "decr")

(* Fault: cancellation returns from run without the disconnect code. *)
CancelWithoutCleanup(w) == ctxDone /\ LeaveListen(w, "done")

ListenCancelled(w) == ctxDone /\ LeaveListen(w, "decr")

(* Fault: the result is dropped when the buffer is full. *)
SendOrDrop(w) ==
  resultCh' = IF Len(resultCh) < BufferSize THEN Append(resultCh, held[w])
              ELSE resultCh

(* Fault: the newest result is served first. *)
EnqueueFront(w) ==
  /\ Len(resultCh) < BufferSize
  /\ resultCh' = <<held[w]>> \o resultCh

(* The buffer has room for the result w holds. *)
Enqueue(w) ==
  /\ Len(resultCh) < BufferSize
  /\ resultCh' = Append(resultCh, held[w])

(* w.resultCh <- m on a buffered channel; cancellation does not interrupt  *)
(* it.  On an unbuffered channel the processor takes held[w] itself.       *)
Send(w) ==
  /\ pc[w] = "send"
  /\ Enqueue(w)
  /\ Goto(w, "listen")
  /\ held' = [held EXCEPT ![w] = NoResult]
  /\ UNCHANGED <<envVars, retryVars, gaugeVars, readerVars, auxVars>>

CountDown(w) ==
  /\ pc[w] = "decr"
  /\ Goto(w, "clear")
  /\ connectedWorkers' = connectedWorkers - 1
  /\ UNCHANGED <<envVars, retryVars, held, streamConnected, resultCh,
                 readerVars, auxVars>>

(* Fault: the gauge is left up after a disconnect. *)
GaugeLeftUp(w) == streamConnected

(* StreamConnectedGauge.WithLabelValues(w.measurement.ID).Set(0) *)
GaugeDown(w) == [streamConnected EXCEPT ![IdOf[w]] = "down"]

ClearConnected(w) ==
  /\ pc[w] = "clear"
  /\ streamConnected' = GaugeDown(w)
  /\ EnterSelect(w, retryAttempt[w] + 1)
  /\ UNCHANGED <<envVars, held, connectedWorkers, resultCh, readerVars,
                 auxVars>>

(* The select at the end of run's loop takes one of its cases. *)
LeaveWait(w, label) ==
  /\ pc[w] = "wait"
  /\ Goto(w, label)
  /\ delay' = [delay EXCEPT ![w] = 0]
  /\ UNCHANGED <<envVars, retryAttempt, held, gaugeVars, resultCh,
                 readerVars, auxVars>>

(* Fault: the worker gives up instead of subscribing again. *)
GiveUp(w) == LeaveWait(w, "done")

RetryTimer(w) == LeaveWait(w, "subscribe")

(* Fault: the Done case leaves the select but not the loop. *)
BreaksSelectOnly(w) == ctxDone /\ LeaveWait(w, "subscribe")

WaitCancelled(w) == ctxDone /\ LeaveWait(w, "done")
-----------------------------------------------------------------------------
(* The processor: processMeasurementResults, processMeasurementResult and  *)
(* add.  resultCh is never closed, so the processor never exits.           *)

TakeBuffered ==
  /\ resultCh # <<>>
  /\ resultCh' = Tail(resultCh)
  /\ UNCHANGED <<pc, held>>

(* Rendezvous with a blocked sender on an unbuffered channel. *)
HandOver(w) ==
  /\ BufferSize = 0
  /\ pc[w] = "send"
  /\ Goto(w, "listen")
  /\ held' = [held EXCEPT ![w] = NoResult]
  /\ UNCHANGED resultCh

NothingToTake ==
  /\ resultCh = <<>>
  /\ BufferSize = 0 => \A w \in Workers : pc[w] # "send"

(* for r := range resultCh *)
Receive ==
  /\ ppc = "recv"
  /\ ppc' = "stamp"
  /\ \/ /\ TakeBuffered
        /\ cur' = Head(resultCh)
     \/ \E w \in Workers : HandOver(w) /\ cur' = held[w]
  /\ UNCHANGED <<envVars, retryVars, gaugeVars, curValid, measurements,
                 dataVars, healthVars, auxVars>>

(* Fault: lastDataTime is rounded up instead of down. *)
UnixRoundedUp(t) == t \div TicksPerSecond + 1

(* time.Now().Unix() *)
Unix(t) == t \div TicksPerSecond

(* lastDataTime and LastDataTimestampGauge are set before the result is    *)
(* looked at, so every result counts as data, parse errors included.       *)
Stamp ==
  /\ ppc = "stamp"
  /\ ppc' = "lookup"
  /\ lastDataTime' = Unix(now)
  /\ lastDataGauge' = [lastDataGauge EXCEPT ![cur.key] = Unix(now)]
  /\ stampedAt' = now
  /\ UNCHANGED <<envVars, senderVars, resultCh, cur, curValid, measurements,
                 healthVars, auxVars>>

(* The processor is finished with cur. *)
Finish(o, label) ==
  /\ outcome' = [outcome EXCEPT ![cur.n] = o]
  /\ ppc' = label
  /\ cur' = NoResult
  /\ curValid' = FALSE

(* probeForID: the probe is found or fetched ... *)
LookupProbe ==
  /\ ppc = "lookup"
  /\ cacheReady
  /\ ppc' = "add"
  /\ curValid' \in BOOLEAN
  /\ UNCHANGED <<envVars, senderVars, resultCh, cur, measurements, dataVars,
                 healthVars, auxVars>>

(* The processor gives cur up before the map is touched. *)
Abandon(o, label) ==
  /\ ppc = "lookup"
  /\ Finish(o, label)
  /\ UNCHANGED <<envVars, senderVars, resultCh, measurements, dataVars,
                 healthVars, received>>

(* ... or the request fails, and the result is logged and forgotten ... *)
LookupFails == cacheReady /\ Abandon("lookupError", "recv")

(* ... or the cache is still nil and cache.Get panics. *)
LookupPanics == ~cacheReady /\ Abandon("panicked", "recover")

(* The measurement is in the map already; its type is not looked at again. *)
Found(r) == r.key \in Keys /\ measurements[r.key].created

AddResult ==
  /\ ppc = "add"
  /\ \/ /\ ~Found(cur)
        /\ ~Supported(cur)
        /\ IF cur.kind = "badBounds" THEN Finish("panicked", "recover")
           ELSE Finish("unsupported", "recv")
        /\ UNCHANGED measurements
     \/ /\ Found(cur) \/ Supported(cur)
        /\ measurements' = AddTo(measurements, cur, curValid)
        /\ \/ ~Accepts(curValid) /\ Finish("filtered", "recv")
           \/ Accepts(curValid) /\ cur.kind = "poison"
                /\ Finish("panicked", "recover")
           \/ Accepts(curValid) /\ cur.kind # "poison"
                /\ Finish("stored", "recv")
  /\ UNCHANGED <<envVars, senderVars, resultCh, dataVars, healthVars,
                 received>>

(* Fault: the channel is emptied after a panic. *)
DrainAll ==
  /\ ppc = "recover"
  /\ TakeBuffered
  /\ outcome' = [outcome EXCEPT ![Head(resultCh).n] = "drained"]
  /\ UNCHANGED <<envVars, retryVars, gaugeVars, readerVars, received>>

(* After a panic the channel is polled to see whether it is closed; a      *)
(* result that is waiting is received by that poll and thrown away.        *)
Drain ==
  /\ ppc = "recover"
  /\ ppc' = "recv"
  /\ \/ /\ TakeBuffered
        /\ outcome' = [outcome EXCEPT ![Head(resultCh).n] = "drained"]
     \/ \E w \in Workers :
          /\ HandOver(w)
          /\ outcome' = [outcome EXCEPT ![held[w].n] = "drained"]
  /\ UNCHANGED <<envVars, retryVars, gaugeVars, cur, curValid, measurements,
                 dataVars, healthVars, received>>

(* The processor only moves on. *)
ProcGoto(from, to) ==
  /\ ppc = from
  /\ ppc' = to
  /\ UNCHANGED <<envVars, senderVars, resultCh, cur, curValid, measurements,
                 dataVars, healthVars, auxVars>>

Pause == NothingToTake /\ ProcGoto("recover", "sleep")

(* Fault: the processor returns after a panic. *)
NoRestart == FALSE

Restart == ProcGoto("sleep", "recv")
-----------------------------------------------------------------------------
(* The readiness check IsHealthy: two atomic loads, in this order.         *)

Answer(a) == ready' = a /\ hpc' = "idle"

HealthLoadConnected ==
  /\ hpc = "idle"
  /\ \/ connectedWorkers <= 0 /\ Answer("no")
     \/ connectedWorkers > 0 /\ MaxDataAge = 0 /\ Answer("yes")
     \/ connectedWorkers > 0 /\ MaxDataAge > 0
          /\ hpc' = "data" /\ UNCHANGED ready
  /\ UNCHANGED <<envVars, senderVars, resultCh, procVars, measurements,
                 dataVars, auxVars>>

(* time.Since(time.Unix(lastData, 0)) > MaxDataAge *)
DataTooOld == now - lastDataTime * TicksPerSecond > MaxDataAge

HealthLoadData ==
  /\ hpc = "data"
  /\ \/ (lastDataTime = 0 \/ DataTooOld) /\ Answer("no")
     \/ lastDataTime # 0 /\ ~DataTooOld /\ Answer("yes")
  /\ UNCHANGED <<envVars, senderVars, resultCh, procVars, measurements,
                 dataVars, auxVars>>
-----------------------------------------------------------------------------
WorkerStep(w) ==
  \/ SubscribeFail(w) \/ Subscribe(w) \/ SetConnected(w)
  \/ ReceiveResult(w) \/ StreamEnds(w) \/ ListenCancelled(w) \/ Send(w)
  \/ CountDown(w) \/ ClearConnected(w) \/ RetryTimer(w) \/ WaitCancelled(w)

Processor ==
  \/ Receive \/ Stamp \/ LookupProbe \/ LookupFails \/ LookupPanics
  \/ AddResult \/ Drain \/ Pause \/ Restart

Health == HealthLoadConnected \/ HealthLoadData

Next ==
  \/ Cancel \/ InitCache \/ Tick
  \/ \E w \in Workers : WorkerStep(w)
  \/ Processor
  \/ Health

Spec == Init /\ [][Next]_vars

(* The steps of a worker that wait for nobody. *)
OwnStep(w) ==
  \/ SubscribeFail(w) \/ Subscribe(w) \/ SetConnected(w) \/ CountDown(w)
  \/ ClearConnected(w) \/ RetryTimer(w)

(* Fairness.  Goroutines that can run do run: the worker's own steps (so   *)
(* subscribe is assumed to return), the processor (so probe.Get is assumed *)
(* to answer or to fail), InitCache (main calls it on its way to serving). *)
(* Nothing is assumed of what streams deliver or when they end, the clock, *)
(* the signal or the health checks.  A select whose Done case stays ready  *)
(* picks it eventually, and Go queues blocked senders first in, first out: *)
(* strong fairness.                                                        *)
Fairness ==
  /\ \A w \in Workers :
       /\ WF_vars(OwnStep(w))
       /\ SF_vars(ListenCancelled(w))
       /\ SF_vars(WaitCancelled(w))
       /\ SF_vars(Send(w))
  /\ WF_vars(Processor)
  /\ WF_vars(InitCache)

FairSpec == Spec /\ Fairness
-----------------------------------------------------------------------------
(* Properties. *)

(* Type invariant of the strategy's shared state, the goroutines' control  *)
(* state and the auxiliary variables.                                      *)
TypeOK ==
  /\ ctxDone \in BOOLEAN
  /\ cacheReady \in BOOLEAN
  /\ now \in Nat
  /\ pc \in [Workers -> WorkerStates]
  /\ retryAttempt \in [Workers -> Nat]
  /\ delay \in [Workers -> Int]
  /\ held \in [Workers -> Result \cup {NoResult}]
  /\ connectedWorkers \in Nat
  /\ streamConnected \in [IDs -> {"absent", "up", "down"}]
  /\ resultCh \in Seq(Result)
  /\ ppc \in ProcStates
  /\ cur \in Result \cup {NoResult}
  /\ curValid \in BOOLEAN
  /\ measurements \in [Keys -> Measurement]
  /\ lastDataTime \in Nat
  /\ lastDataGauge \in [Keys \cup {ZeroKey} -> Nat]
  /\ hpc \in {"idle", "data"}
  /\ ready \in {"none", "yes", "no"}
  /\ received \in 0 .. MaxReceived
  /\ outcome \in [1 .. MaxReceived -> Outcomes]
  /\ stampedAt \in Nat

(* The workers between their two updates of connectedWorkers. *)
Counted == {w \in Workers : pc[w] \in {"connect", "listen", "send", "decr"}}

(* connectedWorkers, updated by every worker with atomic.AddInt32, is at   *)
(* all times the number of workers between the two updates, so IsHealthy   *)
(* never reads a count that drifted through reconnections and panics.      *)
ConnectedCount == connectedWorkers = Cardinality(Counted)

(* The workers between their two updates of the gauge. *)
GaugeHolders == {w \in Workers : pc[w] \in {"listen", "send", "decr", "clear"}}

(* atlas_exporter_stream_connected is 1 for an id only while some worker   *)
(* of that id is between Set(1) and Set(0), even when several workers      *)
(* share the id; after every worker stopped no gauge is left at 1.         *)
GaugeNotStale ==
  \A i \in IDs : streamConnected[i] = "up" =>
    \E w \in GaugeHolders : IdOf[w] = i

(* The gauge is 1 throughout the time a worker listens, when no other      *)
(* worker is configured with the same id.                                  *)
GaugeUpWhileListening ==
  \A w \in GaugeHolders :
    (\A v \in Workers \ {w} : IdOf[v] # IdOf[w]) =>
      streamConnected[IdOf[w]] = "up"

(* The gauge a worker sets after subscribing and clears after the stream   *)
(* ended says for every id whether a worker of it is connected, through    *)
(* reconnections, panics and cancellation.                                 *)
GaugeFollows == GaugeNotStale /\ GaugeUpWhileListening

(* The results in transit: being sent by a worker, buffered in resultCh    *)
(* or being processed.                                                     *)
Transit ==
  {held[w] : w \in {v \in Workers : pc[v] = "send"}}
    \cup {resultCh[i] : i \in DOMAIN resultCh}
    \cup (IF Busy THEN {cur} ELSE {})

(* Every result taken off a stream is in exactly one place until the       *)
(* processor has decided on it: none is lost or duplicated on the way,     *)
(* whatever reconnects, panics or is cancelled meanwhile.                  *)
Conservation ==
  /\ \A n \in 1 .. MaxReceived :
       (outcome[n] = "inflight") <=> (\E r \in Transit : r.n = n)
  /\ Cardinality({r.n : r \in Transit}) =
       Cardinality({w \in Workers : pc[w] = "send"}) + Len(resultCh)
         + (IF Busy THEN 1 ELSE 0)

With(o) == {n \in 1 .. MaxReceived : outcome[n] = o}

(* Results discarded unseen by the poll after a panic are paid for one by  *)
(* one by results that panicked: a panic costs at most one further result. *)
DrainedAtMostOncePerPanic ==
  Cardinality(With("drained")) + (IF ppc = "recover" THEN 1 ELSE 0)
    <= Cardinality(With("panicked"))

(* A backoff wait lies within 25% of the exponential delay, capped at      *)
(* maxRetryDelay, and is never empty: the comments "1s, 2s, 4s, 8s, 16s,   *)
(* 32s, 60s (capped)" and "jitter (+-25%)" of getRetryDelay.               *)
ExpectedDelay(n) ==
  IF MinRetryDelay * Pow2[n] > MaxRetryDelay THEN MaxRetryDelay
  ELSE MinRetryDelay * Pow2[n]
BackoffWithinJitter ==
  \A w \in Workers : pc[w] = "wait" =>
    LET d == ExpectedDelay(retryAttempt[w])
    IN  /\ 4 * delay[w] >= 3 * d
        /\ 4 * delay[w] < 5 * d + 4
        /\ delay[w] > 0

(* A worker that is not cancelled stops only when so many subscriptions    *)
(* failed in a row that the shifted delay left the range of time.Duration. *)
StopsOnlyOnOverflow ==
  \A w \in Workers :
    /\ pc[w] = "done" => ctxDone
    /\ pc[w] = "dead" => MinRetryDelay * Pow2[retryAttempt[w]] >= Half

(* A worker that was connected survives the disconnect: the reset of       *)
(* retryAttempt keeps repeated short connections away from the overflow.   *)
DisconnectNeverFatal ==
  [][\A w \in Workers :
       pc[w] \in {"connect", "listen", "send", "decr", "clear"} =>
         pc'[w] # "dead"]_vars

(* What the comment in run's recover says, "Worker will restart via the    *)
(* parent's retry loop": a worker is not gone for good unless cancelled.   *)
WorkerRestarts == \A w \in Workers : pc[w] = "dead" => ctxDone

(* Stored data outlives reconnections, panics and shutdown (README,        *)
(* "Data no longer lost on reconnection, measurements persist properly"):  *)
(* a measurement object stays, its histograms only grow and a probe that   *)
(* had a result keeps one.                                                 *)
MeasurementsPersist ==
  [][\A k \in Keys :
       /\ measurements[k].created => measurements'[k].created
       /\ measurements'[k].observed >= measurements[k].observed
       /\ \A p \in Probes :
            measurements[k].latest[p] # 0 =>
              measurements'[k].latest[p] # 0]_vars

(* A readiness check that consults lastDataTime answers yes only if a      *)
(* result was taken off the channel within MaxDataAge, to the tick.        *)
ReadyIsFresh ==
  [][(hpc = "data" /\ hpc' = "idle" /\ ready' = "yes") =>
       now - stampedAt <= MaxDataAge]_vars

(* The strategy implements the feed: results reach the measurements map    *)
(* from a set of pending ones, each at most once, in order per worker.     *)
Feed == INSTANCE ResultFeed WITH pending <- Transit, store <- measurements
ImplementsFeed == Feed!Spec

(* Liveness: a result taken off a stream is eventually decided on, for     *)
(* any buffer size, although senders block and the processor panics.       *)
ResultsSettle ==
  \A n \in 1 .. MaxReceived :
    (outcome[n] = "inflight") ~> (outcome[n] # "inflight")

(* Liveness: "When a socket.io connection fails a reconnect is initiated"  *)
(* (README): after a lost connection the worker subscribes again, unless   *)
(* the exporter is being stopped.                                          *)
Reconnects ==
  \A w \in Workers : (pc[w] = "decr") ~> (pc[w] = "subscribe" \/ ctxDone)

(* Liveness: once the root context is cancelled every worker returns.      *)
ShutdownStopsWorkers ==
  ctxDone ~> \A w \in Workers : pc[w] \in {"done", "dead"}
=============================================================================
