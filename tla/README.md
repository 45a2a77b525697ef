# A TLA+ model of atlas_exporter

atlas_exporter is a Prometheus exporter for RIPE Atlas measurements. It either
subscribes to the Atlas streaming API and keeps the latest result of every
probe in memory, or asks the Atlas HTTP API on each scrape. This directory
holds TLA+ specifications of its parts, the TLC runs that check them on small
instances, and TLAPS proofs of their main invariants for instances of any
size. `PROJECT.json` maps every definition to the lines it models and lists
runs, mutants, findings, hazards and theorems.

## The system and its modules

| part of the code | modules | state |
|---|---|---|
| streaming strategy (`atlas/stream_strategy.go`) | `Streaming`, `ResultStore`, `ResultFeed` | result channel, measurements map, last data time, readiness |
| streaming workers (`atlas/stream_strategy_worker.go`) | `Streaming`, `RetryBackoff` | control state, retry attempt, connection count, gauges |
| measurement object (`exporter/`) | `Measurement`, `ScrapeSnapshot` | latest results, probes, histograms, read-write lock |
| measurement types (`ping`, `traceroute`, `dns`, `http`, `ntp`, `sslcert`) and collector (`collector.go`) | `ResultTypes`, `ResultExport` | stored results, the shared fingerprint, the registry of each scrape |
| probe cache (`probe/cache.go`, `atlas/probe_cache.go`) | `ProbeCache` | items, lookups, clean-up scan |
| probe lookup pool (`atlas/helper.go`) | `ProbePool` | producer, consumers, three channels |
| request strategy and metrics handler (`atlas/request_strategy.go`, `main.go`) | `RequestScrape`, composed with `ProbePool` | goroutines per measurement, channel, timeout, answer |
| start and shutdown (`main.go`) | `Lifecycle` | where `main` is, globals, listener, requests, exit |
| configuration (`config/`) | `ConfigLoad` | layers, measurement list, file sections |

Modules named `MC...` give values to constants that a `.cfg` cannot express;
modules named `...Proofs` hold theorems.

How the parts interact: `main` loads the configuration, starts the streaming
strategy (one goroutine per configured measurement, one processor), registers
its handlers, creates the probe cache and only then opens the port. Workers
send results over one channel; the processor looks up the probe of each result
through the cache and adds the result to the measurement object of its id.
Scrapes copy and export those objects concurrently. `/readyz` reads two
counters the workers and the processor write. A scrape with a `measurement_id`,
or with streaming disabled, uses the request strategy: a goroutine per
measurement, each with a pool of lookups through the same cache.

### Streaming

A step is the code between two accesses to shared state. Each worker has a
control state `pc`: `subscribe`, `connect` (counted, gauge not yet set),
`listen`, `send` (blocked in `w.resultCh <- m`), `decr`, `clear`, `wait` (the
select at the end of the loop), `done`, and `dead` (returned through the
recover). The processor's `ppc` is `recv`, `stamp`, `lookup`, `add`, `recover`
(a panic was recovered, the channel is about to be polled) and `sleep`. The
readiness check is two loads, `hpc`.

The channel is a sequence; with `BufferSize = 0` the processor takes the result
from a blocked worker in a rendezvous (`HandOver`). A result is a record of its
receipt number, worker, map key, probe and kind. The kinds are what the code
can tell apart: a supported result, an unsupported type, a type whose histogram
cannot be created from the configured bounds (`badBounds`), one a histogram
panics on (`poison`), and one that only carries a parse error. The ripeatlas
stream is external: it may refuse, deliver, or end at any time. `getRetryDelay`
is in `RetryBackoff`, with integers of `IntBits` bits so that the overflow of
`time.Duration` is within reach. `streamingStrategy.add` and `Measurement.Add`
are one step here because the strategy's mutex is held around both; the finer
steps of `Measurement.Add` against scrapes are in `Measurement`.

`outcome`, `received` and `stampedAt` are auxiliary: they record what became of
each result and when data arrived, and no guard reads them except the bound
`MaxReceived`.

`ResultFeed` is the abstract specification: a set of pending results; each
leaves it once, oldest first per worker, and is put into the map or given up.
`Streaming` implements it with `pending` mapped to the results that are held,
buffered or being processed (`Transit`).

### Measurement

`Add` is split into its writes under the lock, `Collect` into lock, two copies,
unlock, one step per exported result and the histograms. `sync.RWMutex` admits
no new reader while a writer waits. A result may be `bad`: its list of replies
has a null in it. A histogram panics on it after it was stored; the caller
recovers, and the deferred `Unlock` runs. `ExportWalks` tells whether the
type's `Export` reads that list too (http and traceroute) and would panic in
the registry, where nothing recovers. Probe documents are numbered like the
results they are added with; those in `Short` have a single coordinate, on
which `Export` panics.

`ScrapeSnapshot` is the abstract specification: one store, in which results
replace each other one at a time and by growing number, and scrapes that take
it as it is at one instant after their call. Each result of that instant is
shown with the probe it was added with, or dropped because it is too old; ages
are exact there, where the code compares truncated seconds. `Measurement`
implements it with the store mapped to `latest`, the instant to the first copy,
and what is still to be shown to the results left in that copy. Locks, the
second map and its copy, and histograms have no counterpart.

### ResultTypes and ResultExport

`ResultTypes` has, for each of the six types, the metrics that are described,
what `Export` sends for one result (label values that tell series apart,
success, round trip time, metrics), what the histogram observes, the validator,
and the inputs on which each of them panics. A probe document has an id, an
ASN per family and a number of coordinates: `Probe.Latitude` makes sure there
is one and reads the second (`ProbePanics`). `Nil` is a probe the lookups did
not find. Country, latitude and longitude and the names that follow from the
destination are left out of the labels. The minimum of a ping is the field the
probe reports, which need not be that of the replies it lists. `ResultExport`
runs overlapping scrapes of a measurement of any type against registries that
reject samples they have already; `main.go` makes them with `NewRegistry`,
which does not look whether a sample was described, so that is part of
`NothingRejected` and not of the registry. `sslcert.Export` is three
steps around the package variable `certFingerprint`. A racing read of that
string sees one of the two values, or, while the old one is still empty, a torn
string that ends the process (`crashed = "race"`).

### ProbeCache, ProbePool, RequestScrape

`ProbeCache` makes `Get` and `Add` one step each (they hold the lock) and scans
one key per step in `CleanUp`, which holds no lock. The race of that scan with
`Add` is undefined in Go: a new key may or may not be visited, and the runtime
may end the process (`crashed`).

`ProbePool` has one step per channel operation. A lookup returns the probe, an
error, or a probe with ID zero, because `probe.Get` does not look at the status
of the answer. The number of workers is chosen at the start and may be zero,
which the configuration allows. The guards have names (`Wanted`, `Offers`,
`SeesClosed` and so on), and `NeverStuck` says in terms of them that somebody
in the pool can move while its caller waits.

`RequestScrape` is one request: the goroutines of `getMeasurementForID`, the
wait group that closes the channel, the select with the timeout, and the
handler's answer under the server's write deadline. One measurement, `Focus`,
is composed with a `ProbePool` step by step, which lives on after the request
timed out; the pools of the others are one step that fails or returns a map.
The export may end the process on a missing probe (`crashed = "missing"`), or
on what is in a result or a document (`"document"`): `ResultExport` says what
that can be.

### Lifecycle and ConfigLoad

`Lifecycle` is `main` and `startServer` from loading to exit, with the
listener, the clean-up goroutine, signals at any moment, requests in flight
and `http.Server.Shutdown` with its deadline. `Configs` holds what `Validate`
lets through and what panics later: a `buffer_size` no channel can have, a
telemetry path the `ServeMux` refuses (one that is registered already, or a
malformed pattern), and a clean-up interval of zero. Panics of scrapes are in
`Measurement`, `ResultExport` and `RequestScrape`.

`ConfigLoad` runs the steps of `config.Load` and `Validate` on every
combination of inputs. One scalar key (a duration) stands for all scalar keys.

## Runs

The comment on each property in its module says what it means.

| run | instance | distinct states | checks |
|---|---|---|---|
| `Streaming_core` | 2 workers, 2 ids, buffer 1, 3 results, some of which panic | 2.1 million | `ConnectedCount`, `GaugeFollows`, `Conservation`, `DrainedAtMostOncePerPanic`, `MeasurementsPersist` |
| `Streaming_live` | 1 worker, buffer 2, 3 results of four kinds, fairness | 95 004 | `ImplementsFeed`, `ResultsSettle`, `Reconnects`, `ShutdownStopsWorkers` |
| `Streaming_single` | 1 worker, no buffer, 8-bit delays from 4 up to 24, 2 ticks a second, maximum age 2 ticks, filter on, parse errors | 1.4 million | `BackoffWithinJitter`, `StopsOnlyOnOverflow`, `DisconnectNeverFatal`, `ReadyIsFresh` |
| `Measurement` | 2 scrapes, 2 probes, 2 results, half-second ticks, maximum age half a second, one of the two probe documents with one coordinate, fairness | 257 452 | `ImplementsSnapshot`, `HistogramsCoverExport`, `ScrapeIsFresh`, `OnlyBadResultsCrash`, `AddEnds`, `ScrapeEnds` |
| `ResultExport` | 2 scrapes, 2 probes, each with its document, with one coordinate or two, an error document or none, 31 results of the 6 types | 161 249 | `NothingRejected`, `ExportPanicCauses`, `HistogramAgrees`, `FilteredHasASN`, `AloneOwnFingerprint` |
| `ProbeCache` | 2 lookups, 2 ids, TTL 2 of 4 ticks, fairness | 72 496 | `RemovalsCounted`, `ReplacedByLonger`, `ExpiredLeave` |
| `RequestScrape` | 2 measurements, pool of 0 to 2 consumers with 4 results of 3 probes, filter on or off, fairness | 226 299 | `CompleteUnlessTimedOut`, `FilterStopsMissing`, `CompleteOnSuccess`, `NoSendOnClosed`, `NeverStuck`, `RequestEnds` |
| `ConfigLoad` | 3 values of one key in each layer, 4 environment segments, 8 file sections | 4.4 million | `MeasurementsKept`, `Precedence`, `HistogramsStart` |
| `Lifecycle` | 3 requests, grace period of 3 ticks, every configuration, fairness | 15 503 | `ServedAfterInit`, `CutOnlyAfterGrace`, `ExitTellsCause`, `SignalEndsProcess` |

These hold. The following runs state what a document or a comment of the
repository says and are violated by the code; each is a finding in
`PROJECT.json`.

| run | violated | what happens |
|---|---|---|
| `Streaming_restart` | `WorkerRestarts` | enough failed subscriptions in a row (34 with 64 bits) overflow the delay; the worker panics, returns and is never restarted |
| `ProbeCache_cleanup` | `RemovesOnlyExpired` | an item refreshed between scan and deletion is deleted |
| `Measurement_panic` | `NoCrash` | a result is stored before the histogram panics on it; the panic is recovered, and the next scrape exports the result and ends the process |

Some properties that hold are stated with exceptions, because the code does
less than one might expect. They are behaviour of the models without a run of
their own:

- An id configured twice: one worker's disconnect clears the gauge of the other
  (`GaugeUpWhileListening` is stated for ids with one worker).
- Parse errors alone keep `/readyz` at 200 (`ReadyIsFresh` speaks of results
  taken off the channel).
- A result with an older timestamp that is delivered later replaces a newer one
  (`ImplementsFeed` is about the order of delivery and looks at no timestamp;
  the repository's README says "the latest result", which may mean either).
- The backoff's comment begins its list at 1 s, but `run` increments the attempt
  before it asks for a delay, so the first wait is 2 s with its jitter
  (`BackoffWithinJitter` bounds each delay by the attempt it is asked for).
- The answer to a request slower than the server's write deadline is dropped,
  although the configured timeout is longer (`RequestEnds` says only that the
  handler is done).
- Without `filter_invalid_results` a probe that is missing is stored as nil and
  ends the process on export (`FilterStopsMissing` is stated for the filter).
- A probe document with exactly one coordinate ends the process on export, with
  and without the filter. `ExportPanicCauses` and `OnlyBadResultsCrash` name it
  beside the results a histogram had panicked on.
- A ping whose reported minimum is not that of its replies has a success that
  its histogram does not bear out (`HistogramAgrees` asks for the minimum).
- Equal bounds and NaN pass `Validate`; histograms cannot be created from the
  first (`HistogramsStart` names both).
- A panic ends the process at the start for a `buffer_size` no channel can
  have, for a telemetry path that is refused and for a clean-up interval of
  zero (`ExitTellsCause` names the three).
- An http result with one target listed twice, and two probes that the API
  answered with an error document, lose samples (`NothingRejected`); http
  series may have ASN 0 in spite of the filter (`FilteredHasASN`).
- Overlapping scrapes may export the fingerprint of another certificate, and a
  result without one has the fingerprint that was written last
  (`AloneOwnFingerprint`).

### Bounds

Two workers are enough for every interference the code has: workers share the
counter, the channel and, with equal ids, a gauge. The run gives them different
ids; the proofs cover shared ones. Three results let one be processed while one
is buffered and one is being sent. One worker is enough for the order of
arrival, which is promised per worker, and for the backoff, which is a worker's
own. `MaxRetryDelay = 2` and `IntBits = 4` keep the backoff to a few values
that still reach the overflow; `Streaming_single` has the exponential part, the
cap and the overflow on 8 bits, `Streaming_restart` the same on 16. The clock
is bounded by `MaxNow`; it makes one tick in the runs whose properties do not
depend on it. Two scrapes, two lookups or two consumers show every pairwise
race, and two results of two probes let an `Add` replace what a scrape is
copying. The four results of `RequestScrape` have one probe twice, which the
producer skips; its second measurement is skipped, pending or sent while the
first is in its pool. The results of `ResultExport` are, per type, those on
which the code branches: no replies, lost ones, both families, a null in the
list, a minimum that is not that of the replies, and the shapes a last hop, an NSID and a certificate can have. The
segments of `ConfigLoad` have a gap, two spellings of one index and a word.
Three requests let one end, one hang and one arrive while the server shuts
down.

`CHECK_DEADLOCK FALSE` is set where the modelled activity ends: a request that
was answered, a load that returned, a process that exited, and clocks and
numbers of results that reached their bound.

### Fairness

Goroutines that can run do run: weak fairness of a worker's own steps, of the
processor, of the clean-up loop, of `Add` and `Collect` once called, of `main`.
For a worker this assumes that `subscribe` returns, with a stream or an error,
and for the processor that `probe.Get` does; the code enforces neither (it sets
no timeout). `InitCache` is fair because `main` calls it
on its way to serving. Strong fairness is used in three places: a `select`
whose `Done` case stays ready takes it eventually (Go chooses uniformly), twice,
and blocked senders are served first in, first out. `RequestScrape` assumes
only that the clock runs and that the selecting goroutine and the handler are
scheduled; the API may never answer. `Lifecycle` assumes that `main` runs and
that time passes during the shutdown; no request need ever end. Nothing is
assumed of what a stream delivers or when it ends, of signals or of scrapes.

## Proofs

All theorems hold for every value of the constants that satisfies the named
assumptions: any finite set of workers and of measurements, any sets of ids,
probes, scrapes and requests, any buffer size, clock resolution and bound.

| module | theorems | inductive invariant |
|---|---|---|
| `StreamingProofs` | `TypeCorrect`, `ConnectedCountHolds`, `GaugeHolds`, `MeasurementsPersistHolds`, `ReadyIsFreshHolds`, `BackoffWithinJitterHolds`, `StopsOnlyOnOverflowHolds`, `DisconnectNeverFatalHolds` | `TypeInv`, with `GaugeFollows`, `Stamped` and `AllSane` on top of it |
| `FeedProofs` | `FeedImplemented`, `ConservationHolds`, `DrainedAtMostOncePerPanicHolds` | `TypeInv /\ InOrder /\ Room /\ Numbered`, with `Accounts` for the last two |
| `MeasurementProofs` | `HistogramsCoverExportHolds`, `OnlyBadResultsCrashHolds`, `ExportedWithItsProbeHolds`, `ExportedNotStaleHolds`, `TypeOKHolds` | `Inv`: `Typed /\ Locked /\ Paired /\ CopyAgrees /\ Covered` |
| | `ImplementsSnapshotHolds` | `Inv /\ Numbered` |
| | `ScrapeIsFreshHolds` | `Inv /\ Numbered /\ Fresh` |
| | `NotOvertakenHolds` | `Inv /\ ReadersCopy` |
| `RequestScrapeProofs` | `CompleteUnlessTimedOutHolds`, `FilterStopsMissingHolds`, `TypeOKHolds` | `Typed /\ Counted /\ Guarded` |
| | `NoSendOnClosedHolds`, `CompleteOnSuccessHolds`, `NeverStuckHolds`, `PoolAdvances` | `PoolInv`: `Pool!TypeOK /\ Sent /\ Held /\ Once /\ Placed /\ Ordered` |
| `LifecycleProofs` | `ServedAfterInitHolds`, `CutOnlyAfterGraceHolds`, `ExitTellsCauseHolds` | `Typed /\ Started /\ Stopping` and the two last properties |
| | `TypeOKHolds`, `ShutdownAdvances` | `TypeOK` |
| `ProbeCacheProofs` | `RemovalsCountedHolds`, `ReplacedByLongerHolds`, `TypeOKHolds` | `expired \subseteq Cached`, no item expires later than `now + TTL`, with types |
| `ResultExportProofs` | `AloneOwnFingerprintHolds` | `Typed /\ Solo /\ Own /\ AloneOwnFingerprint` |
| | `NothingRejectedHolds`, `FilteredHasASNHolds`, `ExportPanicCausesHold`, `TypeOKHolds`, `RaceNeedsTwoHolds` | `WalkInv`: `Configured /\ Walking /\ FromDone` and the three properties |
| | `HistogramAgreesHolds` | `Configured` |
| `ConfigLoadProofs` | `PrecedenceHolds`, `MeasurementsKeptHolds`, `HistogramsStartHolds` | `Merged`, `Listed`, `Checked` |

Each theorem `XHolds` states `Spec => []X`, or `Spec => X` for an action
property; `FeedImplemented` and `ImplementsSnapshotHolds` are the refinements
of the two abstract specifications. `PoolAdvances`, `ShutdownAdvances` and
`NotOvertakenHolds` state the safe halves of liveness properties (see below).

Why the strengthenings are needed:

- *Streaming.* `TypeOK` alone is not inductive. A blocked worker's result
  enters the channel, so `HeldOK` says that a worker in `send` holds a result;
  such a result has a map key only because the worker's id is numeric, which
  `HeldOK` carries from the subscription on. `connectedWorkers` stays a natural
  number only because it equals the number of counted workers, which is
  positive when one of them counts down; this is the cardinality argument with
  the finite-set theorems. The gauge has one case for each update and one lemma
  for all steps that cross none. `ReadyIsFresh` needs that the stored seconds
  are never later than the tick they were taken at (`Stamped`).
- *Backoff.* `AllSane` ties each worker's attempt to its control state: while
  it lives, its shifted delay has not left the integers, and while it is
  connected its attempt is zero. The attempt grows by one at a time, so the
  first shifted delay that is out of range is less than twice the largest value
  and wraps to a negative number. `rand.Int63n` then panics and the worker is
  dead before the attempt grows further; no delay that wrapped to a positive
  number is ever waited for.
- *Feed.* A result may leave only as the oldest of its worker. `InOrder` orders
  the three places a result can be in: what is being processed came before what
  is buffered, which came before what is being sent. `Room` keeps the buffer of
  an unbuffered channel empty, so that a rendezvous overtakes nothing, and
  `Numbered` makes a newly received result the newest. Every action is then one
  of: nothing moves (`StillStep`), one enters, one is given up, one is added.
- *Accounts.* Each step changes the numbers in transit and the places that are
  occupied by the same amount; this needs that a number in transit names one
  result and that numbers not given out have no outcome (`Identified`).
- *Measurement.* While a scrape copies, it holds the read lock and no writer is
  inside (`Locked`); so both copies are of one state of the maps, which agree
  but for the entry being written (`Paired`, `CopyAgrees`). What is stored was
  observed, or its histogram panicked, or `Add` is still in between
  (`Covered`); histograms only grow, and they are collected last. For
  `ScrapeIsFresh` the result that was stored at the call, or a newer one of the
  same probe, is followed from the map into the copy and out of the export loop
  (`Fresh`). It is newer because results are numbered as they are added
  (`Numbered`), and one that was skipped as too old stays too old.
- *Snapshot.* Each step of `Measurement` is one of the abstract specification
  or changes nothing it sees. `Paired` and `CopyAgrees` make the exported pair
  the one that was added together; `Numbered` makes the numbers of what is put
  grow; that a result whose truncated age is over the limit is really older,
  and one that is kept less than a second over it, is one lemma
  (`StaleIsOld`). That samples have their own probe and are not stale is proved
  of `Measurement` itself too (`ExportedWithItsProbe`, `ExportedNotStale`, in
  `MeasurementProofs`).
- *Pool.* Its two properties are proved of `RequestScrape`: the steps of a
  request are steps of `ProbePool` or leave its variables alone
  (`PoolImplemented`, `Spec => Pool!Spec`). The order in which the channels
  close (`Ordered`) carries `NoSendOnClosed` and `NeverStuck`; completeness
  needs that the ids sent are those of a prefix of the results (`Sent`) and
  that each is with one consumer, in the map, or zeroed (`Placed`, `Once`).
- *Request.* The wait group closes the channel after every goroutine has its
  outcome, and the collected sequence is as long as the set of measured ids
  (`Counted`). A measurement that lacks a probe never gets past `Add` while the
  filter is on (`Guarded`).
- *Lifecycle.* `Started` carries what exists at each line of `main`;
  `Stopping` that only `Shutdown`, after a signal, closes the server.
- *Cache and fingerprint.* Nothing but the clean-up deletes, and an item that
  is added now expires no earlier than any other, the TTL being fixed and the
  clock monotonic. A scrape that is
  alone is the only one between a write and a read of the variable (`Solo`,
  `Own`).
- *Registry.* `FromDone` says that a registered series bears the id of a probe
  that was exported already. So a rejected one stems from the same result,
  where only http sends several, or from two documents with one id, which the
  filter keeps out. Below it lie one lemma per type on what its `Export` sends
  (`Proper`), and for dns that the bytes of an NSID become a label in ASCII.
- *Histograms.* Lists have any length. `Pick` keeps the elements of a sequence
  at given positions; what it returns is proved for all lengths through the
  least length at which it would fail (`LeastNat`).
- *Configuration.* `Merged` and `Listed` say what the tree holds after each
  step of `Load`. The filled list finds every index because the sorted entries
  are complete, being distinct and as many as the segments, and in order from
  end to end and not only between neighbours (`SortedComplete`).

Assumptions: those named in the modules, which TLC evaluates in the runs.
`BackoffAssumption` (the first delay, doubled, is within the integers; half
the cap is not zero), `StoreAssumption`, `StreamingAssumption`,
`MeasurementAssumption`, `CacheAssumption`, `ScrapeAssumption`,
`PoolAssumption` and `LifecycleAssumption` give the constants their types.
`NoneAssumption` tells an absent result from a result. `ExportAssumption`
describes what the decoder and the API can produce: lists are sequences, NSID
options are bytes, a reported minimum is an integer, and a document for a probe
is missing, bears its id or, being an error document, has no ASN. `ConfigAssumption` says that an unset value is none of
the values, that an environment has finitely many names, and that buckets are
numbers or NaN.

Every invariant, action property and refinement of the runs that hold is
proved. What stays with TLC are the liveness properties (`AddEnds`,
`ScrapeEnds`, `SignalEndsProcess`, `ExpiredLeave`, `RequestEnds`,
`ResultsSettle`, `Reconnects`, `ShutdownStopsWorkers`), because liveness under
fairness is out of the prover's reach, and the counterexamples. Three theorems
prove for every instance what liveness rests on, without the fairness:

- `PoolAdvances`: every step of a pool uses up some of a natural number (`Left`:
  results to go through, work in the consumers' hands, channels still open).
  With `NeverStuckHolds`, `probesForResults` returns if the lookups do.
- `ShutdownAdvances`: after a signal nobody holds `main` up, and every step of
  it and every tick of the grace period bring the exit closer (`Remaining`),
  which no step of anybody else undoes (for `SignalEndsProcess`).
- `NotOvertakenHolds`: an `Add` that waits for the lock waits for scrapes that
  are copying, and none joins them (for `AddEnds`).

## Not modelled

- The koanf, pflag, Prometheus, net/http and ripeatlas libraries, modelled by
  how the code uses them and marked external.
- Wording, log output and log level, the HTML page, help texts and metric
  names, plain values that `Export` copies from a result, and the text of
  latitude and longitude: formatting of one result or none.
- Configuration keys other than the scalar one, the measurement list, the
  telemetry path, TLS and the buckets: they take the same way through `Load`
  and `Validate`.
- The branch of the metrics handler without any measurement id, which answers
  at once with nothing; the process and Go collectors; build info and scrape
  duration, which are written and never read.
- A measurement that is configured twice and so collected twice in one scrape:
  `ResultExport` exports a single measurement.
