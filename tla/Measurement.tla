----------------------------- MODULE Measurement -----------------------------
(***************************************************************************)
(* exporter.Measurement (exporter/measurement.go): Add, called by the      *)
(* goroutine that processes results, against Collect, called by concurrent *)
(* scrapes.  Add writes the two maps and the histograms under the write    *)
(* lock; Collect copies the two maps under the read lock, releases it,     *)
(* exports the copies and then the histograms.  Both come through the      *)
(* streaming strategy (atlas/stream_strategy.go): add holds the strategy's *)
(* mutex around Add, and a scrape takes it to look the measurement up.     *)
(*                                                                         *)
(* A result is told apart by its number n in the order of the calls of     *)
(* Add; prb is PrbId(), ts is Timestamp() in seconds, and bad tells that   *)
(* its list of replies has a null in it.  The *probe.Probe that Add is     *)
(* called with bears the number of its result.  Which of them have one     *)
(* coordinate, and meet a result that makes Export ask for the latitude    *)
(* (all but an http result without parts do), is a parameter.              *)
(***************************************************************************)
EXTENDS Integers

CONSTANTS
  Scrapers,        \* goroutines in Collect
  Probes,          \* probe ids
  None,            \* no result
  ExportWalks,     \* Export reads the list the histogram reads (http,
                   \* traceroute; not ping)
  Short,           \* numbers of the probes with one coordinate
  TicksPerSecond,  \* clock ticks per second
  MaxResultAge,    \* cfg.MaxResultAge in ticks; 0 exports every result
  MaxAdds,         \* bound: number of results added
  MaxNow           \* bound: last tick of the clock

ASSUME MeasurementAssumption ==
  /\ ExportWalks \in BOOLEAN
  /\ Short \subseteq 1 .. MaxAdds
  /\ TicksPerSecond \in Nat \ {0}
  /\ MaxResultAge \in Nat
  /\ MaxAdds \in Nat
  /\ MaxNow \in Nat

Unix(t) == t \div TicksPerSecond

Result == [n : 1 .. MaxAdds, prb : Probes, ts : 0 .. Unix(MaxNow),
           bad : BOOLEAN]

ASSUME NoneAssumption == None \notin Result

VARIABLES
  now,        \* the clock
  latest,     \* Measurement.latest: probe id -> result, or None
  probes,     \* Measurement.probes: probe id -> number, or 0
  observed,   \* numbers of the results the histograms processed
  wpc,        \* control state of Add
  arg,        \* the result Add is called with, or None
  readers,    \* scrapers holding the read lock
  spc,        \* control state of each scraper
  results,    \* its copy of latest: the results it has still to export
  copied,     \* its copy of probes
  exported,   \* what it exported: result and number of the probe
  scraped,    \* the histogram content it exported
  crashed,    \* a panic ended the process
  added,      \* auxiliary: number of calls of Add
  before,     \* auxiliary: latest when the scrape was called
  skipped     \* auxiliary: the results it did not export as too old

addVars == <<wpc, arg, added>>
mapVars == <<latest, probes>>
scrapeVars ==
  <<readers, spc, results, copied, exported, scraped, before, skipped>>
vars == <<now, mapVars, observed, addVars, scrapeVars, crashed>>

Init ==
  /\ now = 0
  /\ latest = [p \in Probes |-> None]
  /\ probes = [p \in Probes |-> 0]
  /\ observed = {}
  /\ wpc = "idle"
  /\ arg = None
  /\ readers = {}
  /\ spc = [s \in Scrapers |-> "idle"]
  /\ results = [s \in Scrapers |-> {}]
  /\ copied = [s \in Scrapers |-> probes]
  /\ exported = [s \in Scrapers |-> {}]
  /\ scraped = [s \in Scrapers |-> {}]
  /\ crashed = FALSE
  /\ added = 0
  /\ before = [s \in Scrapers |-> latest]
  /\ skipped = [s \in Scrapers |-> {}]

Tick ==
  /\ now < MaxNow
  /\ now' = now + 1
  /\ UNCHANGED <<mapVars, observed, addVars, scrapeVars, crashed>>
-----------------------------------------------------------------------------
(* Add *)

(* add takes the strategy's mutex, which no scrape holds for longer than a *)
(* step, and calls Add with a result the validator accepts; a result the   *)
(* validator refuses changes nothing.                                      *)
CallAdd ==
  /\ wpc = "idle"
  /\ added < MaxAdds
  /\ \E p \in Probes, ts \in 0 .. Unix(now), bad \in BOOLEAN :
       arg' = [n |-> added + 1, prb |-> p, ts |-> ts, bad |-> bad]
  /\ added' = added + 1
  /\ wpc' = "lock"
  /\ UNCHANGED <<now, mapVars, observed, scrapeVars, crashed>>

(* r.mu.Lock() waits for the readers; sync.RWMutex admits no new ones      *)
(* while a writer waits.                                                   *)
Lock ==
  /\ wpc = "lock"
  /\ readers = {}
  /\ wpc' = "latest"
  /\ UNCHANGED <<now, mapVars, observed, arg, added, scrapeVars, crashed>>

WriteLatest ==
  /\ wpc = "latest"
  /\ latest' = [latest EXCEPT ![arg.prb] = arg]
  /\ wpc' = "probes"
  /\ UNCHANGED <<now, probes, observed, arg, added, scrapeVars, crashed>>

WriteProbe ==
  /\ wpc = "probes"
  /\ probes' = [probes EXCEPT ![arg.prb] = arg.n]
  /\ wpc' = "hist"
  /\ UNCHANGED <<now, latest, observed, arg, added, scrapeVars, crashed>>

Observed == IF arg.bad THEN observed ELSE observed \cup {arg.n}

(* Fault: Unlock is not deferred, so a panic leaves the lock taken.        *)
PanicLeavesLocked ==
  /\ wpc = "hist"
  /\ observed' = Observed
  /\ wpc' = IF arg.bad THEN "locked" ELSE "idle"
  /\ arg' = None
  /\ UNCHANGED <<now, mapVars, added, scrapeVars, crashed>>

(* The histograms process the result, or panic on it; either way both      *)
(* deferred Unlocks run, and the panic is recovered by the processor.      *)
Observe ==
  /\ wpc = "hist"
  /\ observed' = Observed
  /\ wpc' = "idle"
  /\ arg' = None
  /\ UNCHANGED <<now, mapVars, added, scrapeVars, crashed>>
-----------------------------------------------------------------------------
(* Collect *)

Goto(s, label) == spc' = [spc EXCEPT ![s] = label]

(* MeasurementResults finds the measurement under the strategy's mutex,    *)
(* which add holds until Add returns; the registry then calls Collect.     *)
CallCollect(s) ==
  /\ spc[s] = "idle"
  /\ wpc = "idle"
  /\ Goto(s, "rlock")
  /\ before' = [before EXCEPT ![s] = latest]
  /\ UNCHANGED <<now, mapVars, observed, addVars, readers, results, copied,
                 exported, scraped, skipped, crashed>>

(* Fault: the maps are copied without the lock. *)
NoLock == TRUE

(* r.mu.RLock() *)
MayRead == wpc = "idle"

RLock(s) ==
  /\ spc[s] = "rlock"
  /\ MayRead
  /\ readers' = readers \cup {s}
  /\ Goto(s, "copy")
  /\ UNCHANGED <<now, mapVars, observed, addVars, results, copied, exported,
                 scraped, before, skipped, crashed>>

(* Fault: the cutoff is a second early. *)
StaleOffByOne(r) ==
  MaxResultAge > 0 /\ r.ts < Unix(now) - Unix(MaxResultAge) - 1

(* v.Timestamp() < now - maxResultAge, in whole seconds each *)
Stale(r) == MaxResultAge > 0 /\ r.ts < Unix(now) - Unix(MaxResultAge)

(* Fault: the copy stops at the first result that is too old. *)
CopyUntilStale(s) ==
  /\ spc[s] = "copy"
  /\ results' = [results EXCEPT ![s] =
       IF \E p \in Probes : latest[p] # None /\ Stale(latest[p]) THEN {}
       ELSE {latest[p] : p \in Probes} \ {None}]
  /\ Goto(s, "copyProbes")
  /\ UNCHANGED <<now, mapVars, observed, addVars, readers, copied, exported,
                 scraped, before, skipped, crashed>>

(* Fault: the lock is released between the two copies. *)
ReleaseEarly(s) ==
  /\ spc[s] = "copy"
  /\ results' = [results EXCEPT ![s] = {latest[p] : p \in Probes} \ {None}]
  /\ readers' = readers \ {s}
  /\ Goto(s, "copyProbes")
  /\ UNCHANGED <<now, mapVars, observed, addVars, copied, exported, scraped,
                 before, skipped, crashed>>

CopyLatest(s) ==
  /\ spc[s] = "copy"
  /\ results' = [results EXCEPT ![s] = {latest[p] : p \in Probes} \ {None}]
  /\ Goto(s, "copyProbes")
  /\ UNCHANGED <<now, mapVars, observed, addVars, readers, copied, exported,
                 scraped, before, skipped, crashed>>

(* Fault: the lock is not released. *)
KeepLock(s) == UNCHANGED readers

(* r.mu.RUnlock() *)
RUnlock(s) == readers' = readers \ {s}

CopyProbes(s) ==
  /\ spc[s] = "copyProbes"
  /\ copied' = [copied EXCEPT ![s] = probes]
  /\ RUnlock(s)
  /\ Goto(s, "export")
  /\ UNCHANGED <<now, mapVars, observed, addVars, results, exported, scraped,
                 before, skipped, crashed>>

(* Export dereferences the probe, asks it for its latitude, and for some   *)
(* types walks the list: a panic is in a goroutine of the registry, which  *)
(* nothing recovers.                                                       *)
ExportPanics(s, r) ==
  copied[s][r.prb] \in {0} \cup Short \/ (r.bad /\ ExportWalks)

(* One turn of the export loop. *)
ExportResult(s, r) ==
  /\ spc[s] = "export"
  /\ r \in results[s]
  /\ results' = [results EXCEPT ![s] = @ \ {r}]
  /\ crashed' = (~Stale(r) /\ ExportPanics(s, r))
  /\ exported' = [exported EXCEPT ![s] =
       IF Stale(r) THEN @
       ELSE @ \cup {[res |-> r, probe |-> copied[s][r.prb]]}]
  /\ skipped' = [skipped EXCEPT ![s] = IF Stale(r) THEN @ \cup {r} ELSE @]
  /\ UNCHANGED <<now, mapVars, observed, addVars, readers, spc, copied,
                 scraped, before>>

CollectHistograms(s) ==
  /\ spc[s] = "export"
  /\ results[s] = {}
  /\ scraped' = [scraped EXCEPT ![s] = observed]
  /\ Goto(s, "done")
  /\ UNCHANGED <<now, mapVars, observed, addVars, readers, results, copied,
                 exported, before, skipped, crashed>>

(* The registry has gathered, and what Collect held is gone; the goroutine *)
(* may serve another scrape.                                               *)
Finish(s) ==
  /\ spc[s] = "done"
  /\ Goto(s, "idle")
  /\ copied' = [copied EXCEPT ![s] = [p \in Probes |-> 0]]
  /\ exported' = [exported EXCEPT ![s] = {}]
  /\ scraped' = [scraped EXCEPT ![s] = {}]
  /\ before' = [before EXCEPT ![s] = [p \in Probes |-> None]]
  /\ skipped' = [skipped EXCEPT ![s] = {}]
  /\ UNCHANGED <<now, mapVars, observed, addVars, readers, results, crashed>>
-----------------------------------------------------------------------------
AddStep == Lock \/ WriteLatest \/ WriteProbe \/ Observe

CollectStep(s) ==
  \/ RLock(s) \/ CopyLatest(s) \/ CopyProbes(s)
  \/ \E r \in results[s] : ExportResult(s, r)
  \/ CollectHistograms(s) \/ Finish(s)

Next ==
  /\ ~crashed
  /\ \/ Tick \/ CallAdd \/ AddStep
     \/ \E s \in Scrapers : CallCollect(s) \/ CollectStep(s)

Spec == Init /\ [][Next]_vars

(* Both sides are scheduled once they have begun. *)
FairSpec ==
  /\ Spec
  /\ WF_vars(~crashed /\ AddStep)
  /\ \A s \in Scrapers : WF_vars(~crashed /\ CollectStep(s))
-----------------------------------------------------------------------------
(* Type invariant of the maps and the copies. *)
TypeOK ==
  /\ now \in 0 .. MaxNow
  /\ latest \in [Probes -> Result \cup {None}]
  /\ probes \in [Probes -> 0 .. MaxAdds]
  /\ observed \subseteq 1 .. MaxAdds
  /\ wpc \in {"idle", "lock", "latest", "probes", "hist"}
  /\ arg \in Result \cup {None}
  /\ readers \subseteq Scrapers
  /\ spc \in [Scrapers -> {"idle", "rlock", "copy", "copyProbes", "export",
                           "done"}]
  /\ results \in [Scrapers -> SUBSET Result]
  /\ copied \in [Scrapers -> [Probes -> 0 .. MaxAdds]]
  /\ exported \in
       [Scrapers -> SUBSET [res : Result, probe : 0 .. MaxAdds]]
  /\ scraped \in [Scrapers -> SUBSET (1 .. MaxAdds)]
  /\ crashed \in BOOLEAN
  /\ added \in 0 .. MaxAdds
  /\ before \in [Scrapers -> [Probes -> Result \cup {None}]]
  /\ skipped \in [Scrapers -> SUBSET Result]

(* A scraper's control state, as ScrapeSnapshot sees it. *)
Phase(label) ==
  CASE label \in {"rlock", "copy"} -> "called"
    [] label \in {"copyProbes", "export"} -> "showing"
    [] OTHER -> label

Snapshot == INSTANCE ScrapeSnapshot WITH
  Second <- TicksPerSecond, MaxAge <- MaxResultAge, store <- latest,
  phase <- [s \in Scrapers |-> Phase(spc[s])],
  todo <- results, shown <- exported

(* A scrape shows the store of one instant although Add writes two maps    *)
(* and Collect copies them one after the other: every result stored then   *)
(* is exported with the probe it was added with, unless it is older than   *)
(* max_result_age, and a result that is exported is not, up to the         *)
(* truncation to seconds.                                                  *)
ImplementsSnapshot == Snapshot!Spec

(* Every result a scrape exports is in the histograms of the same scrape,  *)
(* unless a histogram panicked on it: the histograms are read last.        *)
HistogramsCoverExport ==
  \A s \in Scrapers : spc[s] = "done" =>
    \A e \in exported[s] : e.res.n \in scraped[s] \/ e.res.bad

(* A scrape shows, for every probe, the result stored when the scrape was  *)
(* called or one added later; it may lack the probe only if the one it     *)
(* copied is too old, whatever other probes have.                          *)
ScrapeIsFresh ==
  \A s \in Scrapers : spc[s] = "done" =>
    \A p \in Probes : before[s][p] # None =>
      LET Fits(r) == r.prb = p /\ r.n >= before[s][p].n
      IN  \/ \E e \in exported[s] : Fits(e.res)
          \/ \E r \in skipped[s] : Fits(r) /\ Stale(r)

(* However Add and Collect interleave, Export never meets a nil probe or   *)
(* another result's: a panic of the export loop is due to the result it    *)
(* exports, one whose Add panicked in the histogram and was recovered (it  *)
(* had been stored before), or to the probe that result was added with,    *)
(* whose document has one coordinate.                                      *)
OnlyBadResultsCrash ==
  crashed => \E s \in Scrapers : \E e \in exported[s] :
               e.res.bad \/ (e.probe = e.res.n /\ e.probe \in Short)

(* README: "one bad measurement won't crash the exporter".                 *)
NoCrash == ~crashed

(* Liveness: scrapes that overlap without end do not keep Add waiting,     *)
(* because Collect releases the read lock before it exports.               *)
AddEnds == (wpc = "lock") ~> (wpc = "idle" \/ crashed)

(* Liveness: a scrape ends although results are added meanwhile, one that  *)
(* makes a histogram panic included: Add defers the Unlock.                *)
ScrapeEnds ==
  \A s \in Scrapers : (spc[s] = "rlock") ~> (spc[s] = "done" \/ crashed)
=============================================================================
