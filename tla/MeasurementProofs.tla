-------------------------- MODULE MeasurementProofs --------------------------
(***************************************************************************)
(* What a scrape exports, for any number of scrapers, probes and results.  *)
(*                                                                         *)
(* The properties speak of what was exported; the invariant follows each   *)
(* result there.  The lock keeps Add out while the maps are copied, so the *)
(* two copies agree (Paired, CopyAgrees); a result in the map has been in  *)
(* the histograms ever since Add returned (Covered).                       *)
(***************************************************************************)
EXTENDS Measurement, TLAPS

Sample == [res : Result, probe : 0 .. MaxAdds]

Typed ==
  /\ now \in 0 .. MaxNow
  /\ latest \in [Probes -> Result \cup {None}]
  /\ probes \in [Probes -> 0 .. MaxAdds]
  /\ wpc \in {"idle", "lock", "latest", "probes", "hist"}
  /\ wpc # "idle" => arg \in Result
  /\ spc \in [Scrapers -> {"idle", "rlock", "copy", "copyProbes", "export",
                           "done"}]
  /\ results \in [Scrapers -> SUBSET Result]
  /\ copied \in [Scrapers -> [Probes -> 0 .. MaxAdds]]
  /\ exported \in [Scrapers -> SUBSET Sample]
  /\ scraped \in [Scrapers -> SUBSET (1 .. MaxAdds)]
  /\ observed \subseteq 1 .. MaxAdds
  /\ added \in 0 .. MaxAdds
  /\ before \in [Scrapers -> [Probes -> Result \cup {None}]]
  /\ skipped \in [Scrapers -> SUBSET Result]

(* Writers and readers exclude each other. *)
Locked ==
  /\ \A s \in Scrapers : spc[s] \in {"copy", "copyProbes"} => s \in readers
  /\ readers # {} => wpc \in {"idle", "lock"}

(* The two maps agree but for the entry Add is writing. *)
Paired ==
  /\ wpc \in {"probes", "hist"} => latest[arg.prb] = arg
  /\ \A p \in Probes : latest[p] # None =>
       /\ latest[p].prb = p
       /\ (wpc = "probes" /\ arg.prb = p) \/ probes[p] = latest[p].n

(* So do a scraper's copies. *)
CopyAgrees ==
  \A s \in Scrapers : \A r \in results[s] :
    /\ spc[s] = "copyProbes" => r # None /\ latest[r.prb] = r
    /\ spc[s] = "export" => copied[s][r.prb] = r.n

Seen(r) == r.n \in observed \/ r.bad

(* Stored results have been observed, but for the one in Add's hands. *)
Covered ==
  /\ \A p \in Probes : latest[p] # None =>
       Seen(latest[p]) \/ (wpc \in {"probes", "hist"} /\ arg.prb = p)
  /\ \A s \in Scrapers :
       /\ \A r \in results[s] : Seen(r)
       /\ \A e \in exported[s] : Seen(e.res)

Inv == Typed /\ Locked /\ Paired /\ CopyAgrees /\ Covered

LEMMA InvInit == Init => Inv
  BY MeasurementAssumption
  DEF Init, Inv, Typed, Locked, Paired, CopyAgrees, Covered, Sample
-----------------------------------------------------------------------------
LEMMA MulMonotone ==
  ASSUME NEW a \in Int, NEW b \in Int, NEW c \in Nat, a >= b + 1
  PROVE  a * c >= b * c + c
  OBVIOUS

(* Seconds are whole parts of ticks. *)
LEMMA UnixBounds ==
  ASSUME NEW t \in Nat
  PROVE  /\ Unix(t) \in Nat
         /\ Unix(t) * TicksPerSecond <= t
         /\ t < Unix(t) * TicksPerSecond + TicksPerSecond
  BY MeasurementAssumption DEF Unix

LEMMA UnixMonotone ==
  ASSUME NEW t \in Nat, NEW u \in Nat, t <= u
  PROVE  Unix(t) <= Unix(u)
<1> DEFINE a == Unix(t)
           b == Unix(u)
<1>1. /\ a \in Nat /\ b \in Nat
      /\ a * TicksPerSecond <= t
      /\ u < b * TicksPerSecond + TicksPerSecond
  BY UnixBounds
<1> HIDE DEF a, b
<1>2. a >= b + 1 => a * TicksPerSecond >= b * TicksPerSecond + TicksPerSecond
  BY <1>1, MeasurementAssumption, MulMonotone
<1>3. a <= b
  <2>1. a * TicksPerSecond \in Nat /\ b * TicksPerSecond \in Nat
    BY <1>1, MeasurementAssumption
  <2> QED
    BY <1>1, <1>2, <2>1, MeasurementAssumption
<1> QED
  BY <1>3 DEF a, b

(* What comparing whole seconds decides about the exact age of a result:   *)
(* one that counts as too old is older than the maximum, and one that does *)
(* not is not a second older.                                              *)
LEMMA StaleIsOld ==
  ASSUME NEW r \in Result, now \in Nat, MaxResultAge > 0
  PROVE  /\ Stale(r) => now - r.ts * TicksPerSecond > MaxResultAge
         /\ ~Stale(r) =>
              now - r.ts * TicksPerSecond < MaxResultAge + TicksPerSecond
<1> DEFINE U == Unix(now)
           A == Unix(MaxResultAge)
<1>1. /\ U \in Nat /\ U * TicksPerSecond <= now
      /\ now < U * TicksPerSecond + TicksPerSecond
      /\ A \in Nat /\ A * TicksPerSecond <= MaxResultAge
      /\ MaxResultAge < A * TicksPerSecond + TicksPerSecond
  BY UnixBounds, MeasurementAssumption
<1>2. r.ts \in Nat /\ (Stale(r) <=> U >= (r.ts + A) + 1)
  BY <1>1, UnixBounds, MeasurementAssumption DEF Stale, Result
<1> HIDE DEF U, A
<1>3. (r.ts + A) * TicksPerSecond
        = r.ts * TicksPerSecond + A * TicksPerSecond
  BY <1>1, <1>2, MeasurementAssumption
<1>4. ASSUME Stale(r)
      PROVE  now - r.ts * TicksPerSecond > MaxResultAge
  <2>1. U * TicksPerSecond >= (r.ts + A) * TicksPerSecond + TicksPerSecond
    BY <1>1, <1>2, <1>4, MulMonotone, MeasurementAssumption
  <2> QED
    BY <1>1, <1>2, <1>3, <2>1, MeasurementAssumption
<1>5. ASSUME ~Stale(r)
      PROVE  now - r.ts * TicksPerSecond < MaxResultAge + TicksPerSecond
  <2>1. (r.ts + A) * TicksPerSecond >= U * TicksPerSecond
    <3>1. r.ts + A = U \/ r.ts + A >= U + 1
      BY <1>1, <1>2, <1>5
    <3> QED
      BY <1>1, <1>2, <3>1, MulMonotone, MeasurementAssumption
  <2> QED
    BY <1>1, <1>2, <1>3, <2>1, MeasurementAssumption
<1> QED
  BY <1>4, <1>5

LEMMA TypedStep == Typed /\ [Next]_vars => Typed'
<1> SUFFICES ASSUME Typed, [Next]_vars PROVE Typed'
  OBVIOUS
<1> USE MeasurementAssumption DEF Typed, addVars, mapVars, scrapeVars
<1>1. ASSUME Tick PROVE Typed'
  BY <1>1 DEF Tick
<1>2. ASSUME CallAdd PROVE Typed'
  <2>1. arg' \in Result
    <3>1. PICK p \in Probes, ts \in 0 .. Unix(now), bad \in BOOLEAN :
            arg' = [n |-> added + 1, prb |-> p, ts |-> ts, bad |-> bad]
      BY <1>2 DEF CallAdd
    <3>2. ts \in 0 .. Unix(MaxNow) /\ added + 1 \in 1 .. MaxAdds
      BY <1>2, UnixBounds, UnixMonotone DEF CallAdd
    <3> QED
      BY <3>1, <3>2, Zenon DEF Result
  <2> QED
    BY <1>2, <2>1 DEF CallAdd
<1>3. ASSUME Lock PROVE Typed'
  BY <1>3 DEF Lock
<1>4. ASSUME WriteLatest PROVE Typed'
  BY <1>4, Zenon DEF WriteLatest
<1>5. ASSUME WriteProbe PROVE Typed'
  BY <1>5 DEF WriteProbe, Result
<1>6. ASSUME Observe PROVE Typed'
  BY <1>6, Zenon DEF Observe, Observed, Result
<1>7. ASSUME NEW s \in Scrapers, CallCollect(s) \/ RLock(s) PROVE Typed'
  BY <1>7, ZenonT(30) DEF CallCollect, RLock, Goto
<1>8. ASSUME NEW s \in Scrapers, CopyLatest(s) PROVE Typed'
  BY <1>8 DEF CopyLatest, Goto
<1>9. ASSUME NEW s \in Scrapers, CopyProbes(s) PROVE Typed'
  BY <1>9 DEF CopyProbes, Goto
<1>10. ASSUME NEW s \in Scrapers, NEW r \in results[s], ExportResult(s, r)
       PROVE  Typed'
  BY <1>10 DEF ExportResult, Sample, Result
<1>11. ASSUME NEW s \in Scrapers, CollectHistograms(s) PROVE Typed'
  BY <1>11 DEF CollectHistograms, Goto
<1>12. ASSUME NEW s \in Scrapers, Finish(s) PROVE Typed'
  BY <1>12 DEF Finish, Goto
<1>13. CASE UNCHANGED vars
  BY <1>13 DEF vars
<1> QED
  BY <1>1, <1>2, <1>3, <1>4, <1>5, <1>6, <1>7, <1>8, <1>9, <1>10, <1>11,
     <1>12, <1>13 DEF Next, AddStep, CollectStep

LEMMA LockedStep == Typed /\ Locked /\ [Next]_vars => Locked'
<1> SUFFICES ASSUME Typed, Locked, [Next]_vars PROVE Locked'
  OBVIOUS
<1> USE DEF Typed, Locked, addVars, mapVars, scrapeVars, Goto
<1>1. ASSUME Tick \/ CallAdd \/ AddStep PROVE Locked'
  BY <1>1 DEF Tick, CallAdd, AddStep, Lock, WriteLatest, WriteProbe, Observe
<1>2. ASSUME NEW s \in Scrapers, CallCollect(s) \/ CollectStep(s)
      PROVE  Locked'
  BY <1>2, Zenon
  DEF CallCollect, CollectStep, RLock, MayRead, CopyLatest, CopyProbes,
      RUnlock, ExportResult, CollectHistograms, Finish
<1>3. CASE UNCHANGED vars
  BY <1>3 DEF vars
<1> QED
  BY <1>1, <1>2, <1>3 DEF Next

LEMMA PairedStep == Typed /\ Paired /\ [Next]_vars => Paired'
<1> SUFFICES ASSUME Typed, Paired, [Next]_vars PROVE Paired'
  OBVIOUS
<1> USE DEF Typed, Paired, addVars, mapVars, scrapeVars
<1>1. ASSUME CallAdd \/ Lock \/ Observe PROVE Paired'
  BY <1>1 DEF CallAdd, Lock, Observe
<1>2. ASSUME WriteLatest PROVE Paired'
  BY <1>2 DEF WriteLatest, Result
<1>3. ASSUME WriteProbe PROVE Paired'
  BY <1>3 DEF WriteProbe, Result
<1>4. ASSUME UNCHANGED <<mapVars, wpc, arg>> PROVE Paired'
  BY <1>4
<1> QED
  BY <1>1, <1>2, <1>3, <1>4
  DEF Next, Tick, AddStep, CallCollect, CollectStep, RLock, CopyLatest,
      CopyProbes, ExportResult, CollectHistograms, Finish, vars

LEMMA CopyStep ==
  Typed /\ Locked /\ Paired /\ CopyAgrees /\ [Next]_vars => CopyAgrees'
<1> SUFFICES ASSUME Typed, Locked, Paired, CopyAgrees, [Next]_vars
             PROVE  CopyAgrees'
  OBVIOUS
<1> USE DEF Typed, CopyAgrees, addVars, mapVars, scrapeVars, Goto
<1>1. ASSUME Tick \/ CallAdd \/ Lock \/ WriteProbe \/ Observe
      PROVE  CopyAgrees'
  BY <1>1 DEF Tick, CallAdd, Lock, WriteProbe, Observe
<1>2. ASSUME WriteLatest PROVE CopyAgrees'
  BY <1>2 DEF WriteLatest, Locked
<1>3. ASSUME NEW s \in Scrapers, CallCollect(s) \/ RLock(s)
      PROVE  CopyAgrees'
  BY <1>3 DEF CallCollect, RLock
<1>4. ASSUME NEW s \in Scrapers, CopyLatest(s) PROVE CopyAgrees'
  BY <1>4 DEF CopyLatest, Paired
<1>5. ASSUME NEW s \in Scrapers, CopyProbes(s) PROVE CopyAgrees'
  BY <1>5 DEF CopyProbes, Paired, Locked, Result
<1>6. ASSUME NEW s \in Scrapers, NEW r \in results[s], ExportResult(s, r)
      PROVE  CopyAgrees'
  BY <1>6 DEF ExportResult
<1>7. ASSUME NEW s \in Scrapers, CollectHistograms(s) \/ Finish(s)
      PROVE  CopyAgrees'
  BY <1>7 DEF CollectHistograms, Finish
<1>8. CASE UNCHANGED vars
  BY <1>8 DEF vars
<1> QED
  BY <1>1, <1>2, <1>3, <1>4, <1>5, <1>6, <1>7, <1>8
  DEF Next, AddStep, CollectStep

LEMMA CoveredStep ==
  Typed /\ Locked /\ Paired /\ Covered /\ [Next]_vars => Covered'
<1> SUFFICES ASSUME Typed, Locked, Paired, Covered, [Next]_vars
             PROVE  Covered'
  OBVIOUS
<1> USE DEF Typed, Covered, Seen, addVars, mapVars, scrapeVars
<1>1. ASSUME Tick \/ CallAdd \/ Lock \/ WriteProbe PROVE Covered'
  BY <1>1 DEF Tick, CallAdd, Lock, WriteProbe
<1>2. ASSUME WriteLatest PROVE Covered'
  BY <1>2 DEF WriteLatest, Result
<1>3. ASSUME Observe PROVE Covered'
  BY <1>3 DEF Observe, Observed, Paired
<1>4. ASSUME NEW s \in Scrapers, CopyLatest(s) PROVE Covered'
  BY <1>4 DEF CopyLatest, Locked
<1>5. ASSUME NEW s \in Scrapers, NEW r \in results[s], ExportResult(s, r)
      PROVE  Covered'
  BY <1>5 DEF ExportResult, Sample
<1>6. ASSUME NEW s \in Scrapers,
             CallCollect(s) \/ RLock(s) \/ CopyProbes(s)
               \/ CollectHistograms(s) \/ Finish(s)
      PROVE  Covered'
  BY <1>6, Zenon DEF CallCollect, RLock, CopyProbes, CollectHistograms, Finish
<1>7. CASE UNCHANGED vars
  BY <1>7 DEF vars
<1> QED
  BY <1>1, <1>2, <1>3, <1>4, <1>5, <1>6, <1>7 DEF Next, AddStep, CollectStep

LEMMA InvHolds == Spec => []Inv
<1>1. Inv /\ [Next]_vars => Inv'
  BY TypedStep, LockedStep, PairedStep, CopyStep, CoveredStep DEF Inv
<1> QED
  BY <1>1, InvInit, PTL DEF Spec
-----------------------------------------------------------------------------
(* Steps that export nothing. *)
Quiet ==
  \/ Tick \/ CallAdd \/ AddStep
  \/ \E s \in Scrapers :
       \/ CallCollect(s) \/ RLock(s) \/ CopyLatest(s) \/ CopyProbes(s)
       \/ CollectHistograms(s)

LEMMA StepKinds ==
  ASSUME Inv, [Next]_vars
  PROVE  \/ Quiet \/ UNCHANGED vars
         \/ \E s \in Scrapers : Finish(s)
         \/ \E s \in Scrapers : \E r \in results[s] : ExportResult(s, r)
  BY DEF Next, Quiet, CollectStep

LEMMA QuietKeeps == Quiet => UNCHANGED <<exported, crashed>>
  BY DEF Quiet, Tick, CallAdd, AddStep, Lock, WriteLatest, WriteProbe, Observe,
     CallCollect, RLock, CopyLatest, CopyProbes, CollectHistograms,
     scrapeVars

(* A result is exported with the probe it was added with: the labels of a  *)
(* sample never come from another result's lookup, and never from nil.     *)
ExportedWithItsProbe ==
  \A s \in Scrapers : \A e \in exported[s] : e.probe = e.res.n

(* Every sample has the labels of the probe its result was added with,     *)
(* although Add writes the two maps one after the other and Collect copies *)
(* them one after the other (exporter/measurement.go).                     *)
THEOREM ExportedWithItsProbeHolds == Spec => []ExportedWithItsProbe
<1>1. Init => ExportedWithItsProbe
  BY DEF Init, ExportedWithItsProbe
<1>2. Inv /\ ExportedWithItsProbe /\ [Next]_vars => ExportedWithItsProbe'
  <2> SUFFICES ASSUME Inv, ExportedWithItsProbe, [Next]_vars
               PROVE  ExportedWithItsProbe'
    OBVIOUS
  <2> USE DEF ExportedWithItsProbe, Inv, Typed
  <2>1. CASE UNCHANGED exported
    BY <2>1
  <2>2. ASSUME NEW s \in Scrapers, Finish(s) PROVE ExportedWithItsProbe'
    BY <2>2 DEF Finish
  <2>3. ASSUME NEW s \in Scrapers, NEW r \in results[s], ExportResult(s, r)
        PROVE  ExportedWithItsProbe'
    BY <2>3 DEF ExportResult, CopyAgrees
  <2> QED
    BY <2>1, <2>2, <2>3, StepKinds, QuietKeeps DEF vars, scrapeVars
<1> QED
  BY <1>1, <1>2, InvHolds, PTL DEF Spec

(* The histograms of a scrape contain every result the scrape exported,    *)
(* unless the histogram panicked on it: Collect reads them last.           *)
THEOREM HistogramsCoverExportHolds == Spec => []HistogramsCoverExport
<1>1. Init => HistogramsCoverExport
  BY DEF Init, HistogramsCoverExport
<1>2. Inv /\ HistogramsCoverExport /\ [Next]_vars => HistogramsCoverExport'
  <2> SUFFICES ASSUME Inv, HistogramsCoverExport, [Next]_vars
               PROVE  HistogramsCoverExport'
    OBVIOUS
  <2> USE DEF HistogramsCoverExport, Inv, Typed, addVars, mapVars, scrapeVars,
          Goto
  <2>1. ASSUME Tick \/ CallAdd \/ AddStep PROVE HistogramsCoverExport'
    BY <2>1
    DEF Tick, CallAdd, AddStep, Lock, WriteLatest, WriteProbe, Observe
  <2>2. ASSUME NEW s \in Scrapers,
               CallCollect(s) \/ RLock(s) \/ CopyLatest(s) \/ CopyProbes(s)
        PROVE  HistogramsCoverExport'
    BY <2>2, Zenon DEF CallCollect, RLock, CopyLatest, CopyProbes
  <2>3. ASSUME NEW s \in Scrapers, NEW r \in results[s], ExportResult(s, r)
        PROVE  HistogramsCoverExport'
    BY <2>3 DEF ExportResult
  <2>4. ASSUME NEW s \in Scrapers, CollectHistograms(s)
        PROVE  HistogramsCoverExport'
    BY <2>4 DEF CollectHistograms, Covered, Seen
  <2>5. ASSUME NEW s \in Scrapers, Finish(s) PROVE HistogramsCoverExport'
    BY <2>5 DEF Finish
  <2>6. CASE UNCHANGED vars
    BY <2>6 DEF vars
  <2> QED
    BY <2>1, <2>2, <2>3, <2>4, <2>5, <2>6 DEF Next, CollectStep
<1> QED
  BY <1>1, <1>2, InvHolds, PTL DEF Spec

(* The export loop panics only on a result on which the histogram had      *)
(* panicked in Add, or on the one coordinate of the probe the result was   *)
(* added with: no copy lacks a probe or has another result's.              *)
THEOREM OnlyBadResultsCrashHolds == Spec => []OnlyBadResultsCrash
<1>1. Init => OnlyBadResultsCrash
  BY DEF Init, OnlyBadResultsCrash
<1>2. Inv /\ OnlyBadResultsCrash /\ [Next]_vars => OnlyBadResultsCrash'
  <2> SUFFICES ASSUME Inv, OnlyBadResultsCrash, [Next]_vars
               PROVE  OnlyBadResultsCrash'
    OBVIOUS
  <2>1. CASE UNCHANGED <<exported, crashed>>
    BY <2>1 DEF OnlyBadResultsCrash
  <2>2. ASSUME ~crashed, NEW s \in Scrapers, Finish(s)
        PROVE  OnlyBadResultsCrash'
    BY <2>2 DEF Finish, OnlyBadResultsCrash
  <2>3. ASSUME NEW s \in Scrapers, NEW r \in results[s], ExportResult(s, r)
        PROVE  OnlyBadResultsCrash'
    <3>1. SUFFICES ASSUME crashed' PROVE OnlyBadResultsCrash'
      BY DEF OnlyBadResultsCrash
    <3>2. ~Stale(r) /\ ExportPanics(s, r)
      BY <2>3, <3>1, Zenon DEF ExportResult
    <3>3. r \in Result /\ copied[s][r.prb] = r.n
      BY <2>3 DEF Inv, Typed, CopyAgrees, ExportResult
    <3>4. r.bad \/ r.n \in Short
      BY <3>2, <3>3 DEF ExportPanics, Result
    <3>5. [res |-> r, probe |-> copied[s][r.prb]] \in exported'[s]
      BY <2>3, <3>2 DEF ExportResult, Inv, Typed
    <3> QED
      BY <3>3, <3>4, <3>5 DEF OnlyBadResultsCrash
  <2> QED
    BY <2>1, <2>2, <2>3, StepKinds, QuietKeeps DEF vars, scrapeVars, Next
<1> QED
  BY <1>1, <1>2, InvHolds, PTL DEF Spec

(* A result exported under a maximum age is at most that old when it is    *)
(* exported, up to the truncation to seconds, however long ago the scrape  *)
(* copied it.                                                              *)
ExportedNotStale ==
  [][\A s \in Scrapers : \A e \in exported'[s] \ exported[s] :
       MaxResultAge > 0 =>
         now - e.res.ts * TicksPerSecond < MaxResultAge + TicksPerSecond]_vars

(* A result that is exported under max_result_age is not older than that   *)
(* when it is exported, but for the truncation to whole seconds.           *)
THEOREM ExportedNotStaleHolds == Spec => ExportedNotStale
<1> DEFINE NotStale ==
      \A s \in Scrapers : \A e \in exported'[s] \ exported[s] :
        MaxResultAge > 0 =>
          now - e.res.ts * TicksPerSecond < MaxResultAge + TicksPerSecond
<1>1. ASSUME Inv, [Next]_vars PROVE NotStale
  <2>1. CASE UNCHANGED exported
    BY <2>1
  <2>2. ASSUME NEW s \in Scrapers, Finish(s) PROVE NotStale
    BY <2>2 DEF Finish, Inv, Typed
  <2>3. ASSUME NEW s \in Scrapers, NEW r \in results[s], ExportResult(s, r)
        PROVE  NotStale
    BY <1>1, <2>3, StaleIsOld, MeasurementAssumption
    DEF ExportResult, Inv, Typed
  <2> QED
    BY <1>1, <2>1, <2>2, <2>3, StepKinds, QuietKeeps DEF vars, scrapeVars
<1>2. Inv /\ [Next]_vars => [NotStale]_vars
  BY <1>1
<1> QED
  BY <1>2, InvHolds, PTL DEF Spec, ExportedNotStale

(* Every variable of a measurement and of its scrapes keeps its type. *)
THEOREM TypeOKHolds == Spec => []TypeOK
<1> DEFINE Rest == /\ arg \in Result \cup {None}
                   /\ readers \subseteq Scrapers
                   /\ crashed \in BOOLEAN
<1>1. Init => Rest
  BY Zenon DEF Init
<1>2. Inv /\ Rest /\ [Next]_vars => Rest'
  <2> SUFFICES ASSUME Inv, Rest, [Next]_vars PROVE Rest'
    OBVIOUS
  <2> USE DEF addVars, mapVars, scrapeVars
  <2>1. arg' \in Result \cup {None}
    <3>1. CASE UNCHANGED arg \/ arg' = None
      BY <3>1
    <3>2. CASE CallAdd
      BY <3>2, TypedStep DEF CallAdd, Inv, Typed
    <3> QED
      BY <3>1, <3>2 DEF Next, Tick, AddStep, Lock, WriteLatest, WriteProbe,
         Observe, CallCollect, CollectStep, RLock, CopyLatest, CopyProbes,
         ExportResult, CollectHistograms, Finish, vars
  <2>2. readers' \subseteq Scrapers
    BY Zenon DEF Next, Tick, CallAdd, AddStep, Lock, WriteLatest, WriteProbe,
       Observe, CallCollect, CollectStep, RLock, CopyLatest, CopyProbes,
       RUnlock, ExportResult, CollectHistograms, Finish, vars
  <2>3. crashed' \in BOOLEAN
    BY Zenon DEF Next, Tick, CallAdd, AddStep, Lock, WriteLatest, WriteProbe,
       Observe, CallCollect, CollectStep, RLock, CopyLatest, CopyProbes,
       ExportResult, CollectHistograms, Finish, vars
  <2> QED
    BY <2>1, <2>2, <2>3
<1>3. Inv /\ Rest => TypeOK
  BY DEF Inv, Typed, Sample, TypeOK
<1> QED
  BY <1>1, <1>2, <1>3, InvHolds, PTL DEF Spec
-----------------------------------------------------------------------------
(* What a scrape shows of a probe.  Results are numbered as they are added *)
(* (Numbered), so what is stored for a probe is the result that was there  *)
(* when the scrape was called, or a newer one; the invariant follows it    *)
(* through the copy and the export loop (Fresh).                           *)
Newer(r, q) == r = q \/ r.n > q.n

Numbered ==
  /\ wpc # "idle" => arg.n = added
  /\ \A p \in Probes : latest[p] # None =>
       /\ latest[p].n <= added
       /\ wpc \in {"lock", "latest"} => latest[p].n < added

(* A result of the same probe, no older than q, is still to be exported. *)
Pending(s, p, q) == \E r \in results[s] : r.prb = p /\ Newer(r, q)

(* What ScrapeIsFresh asks for. *)
Shown(s, p, q) ==
  \/ \E e \in exported[s] : e.res.prb = p /\ e.res.n >= q.n
  \/ \E r \in skipped[s] : r.prb = p /\ r.n >= q.n /\ Stale(r)

FreshAt(s, p, q) ==
  /\ spc[s] \in {"rlock", "copy"} => latest[p] # None /\ Newer(latest[p], q)
  /\ spc[s] = "copyProbes" => Pending(s, p, q)
  /\ spc[s] = "export" => Pending(s, p, q) \/ Shown(s, p, q)
  /\ spc[s] = "done" => Shown(s, p, q)

Fresh ==
  \A s \in Scrapers : \A p \in Probes : before[s][p] # None =>
    FreshAt(s, p, before[s][p])

LEMMA NumberedStep == Typed /\ Numbered /\ [Next]_vars => Numbered'
<1> SUFFICES ASSUME Typed, Numbered, [Next]_vars PROVE Numbered'
  OBVIOUS
<1> USE MeasurementAssumption DEF Typed, Numbered, addVars, mapVars
<1>1. ASSUME CallAdd PROVE Numbered'
  BY <1>1 DEF CallAdd, Result
<1>2. ASSUME Lock \/ WriteProbe \/ Observe PROVE Numbered'
  BY <1>2 DEF Lock, WriteProbe, Observe, Result
<1>3. ASSUME WriteLatest PROVE Numbered'
  BY <1>3 DEF WriteLatest, Result
<1>4. ASSUME UNCHANGED <<latest, addVars>> PROVE Numbered'
  BY <1>4
<1> QED
  BY <1>1, <1>2, <1>3, <1>4
  DEF Next, Tick, AddStep, CallCollect, CollectStep, RLock, CopyLatest,
      CopyProbes, ExportResult, CollectHistograms, Finish, vars

(* The clock only goes forward, so a result that is too old stays so. *)
LEMMA StaleStays ==
  ASSUME Typed, now' \in Nat, now <= now', NEW r \in Result, Stale(r)
  PROVE  Stale(r)'
<1>1. now \in Nat /\ r.ts \in Nat /\ Unix(MaxResultAge) \in Nat
  BY UnixBounds, MeasurementAssumption DEF Typed, Result
<1>2. Unix(now) \in Nat /\ Unix(now') \in Nat /\ Unix(now) <= Unix(now')
  BY <1>1, UnixBounds, UnixMonotone
<1> QED
  BY <1>1, <1>2 DEF Stale

LEMMA Clock ==
  ASSUME Typed, [Next]_vars
  PROVE  now' \in Nat /\ now <= now'
<1>1. now \in Nat
  BY MeasurementAssumption DEF Typed
<1>2. Tick \/ UNCHANGED now
  BY DEF Next, AddStep, Lock, WriteLatest, WriteProbe, Observe, CallAdd,
     CallCollect, CollectStep, RLock, CopyLatest, CopyProbes, ExportResult,
     CollectHistograms, Finish, vars
<1> QED
  BY <1>1, <1>2 DEF Tick

(* A turn of the export loop shows the result it takes, or it is too old.  *)
LEMMA ExportShows ==
  ASSUME Inv, NEW s \in Scrapers, NEW r \in results[s], ExportResult(s, r),
         NEW p \in Probes, NEW q \in Result,
         Pending(s, p, q) \/ Shown(s, p, q)
  PROVE  Pending(s, p, q)' \/ Shown(s, p, q)'
<1>1. /\ UNCHANGED now
      /\ results' = [results EXCEPT ![s] = @ \ {r}]
      /\ exported' = [exported EXCEPT ![s] =
           IF Stale(r) THEN @
           ELSE @ \cup {[res |-> r, probe |-> copied[s][r.prb]]}]
      /\ skipped' = [skipped EXCEPT ![s] =
           IF Stale(r) THEN @ \cup {r} ELSE @]
  BY DEF ExportResult, scrapeVars
<1>2. r \in Result
  BY DEF Inv, Typed
<1>3. exported[s] \subseteq exported'[s] /\ skipped[s] \subseteq skipped'[s]
  BY <1>1 DEF Inv, Typed
<1>4. CASE Shown(s, p, q)
  BY <1>1, <1>3, <1>4 DEF Shown, Stale
<1>5. CASE Pending(s, p, q)
  <2>1. PICK x \in results[s] : x.prb = p /\ Newer(x, q)
    BY <1>5 DEF Pending
  <2>2. CASE x # r
    BY <1>1, <2>1, <2>2 DEF Pending, Inv, Typed
  <2>3. ASSUME x = r PROVE r.prb = p /\ r.n >= q.n
    BY <1>2, <2>1, <2>3 DEF Newer, Result
  <2>4. CASE x = r /\ Stale(r)
    <3>1. r \in skipped'[s] /\ Stale(r)'
      BY <1>1, <2>4 DEF Inv, Typed, Stale
    <3> QED
      BY <2>3, <2>4, <3>1 DEF Shown
  <2>5. CASE x = r /\ ~Stale(r)
    <3>1. [res |-> r, probe |-> copied[s][r.prb]] \in exported'[s]
      BY <1>1, <2>5 DEF Inv, Typed
    <3> QED
      BY <2>3, <2>5, <3>1 DEF Shown
  <2> QED
    BY <2>2, <2>4, <2>5
<1> QED
  BY <1>4, <1>5

LEMMA FreshStep == Inv /\ Numbered /\ Fresh /\ [Next]_vars => Fresh'
<1> SUFFICES ASSUME Inv, Numbered, Fresh, [Next]_vars PROVE Fresh'
  OBVIOUS
<1> USE DEF addVars, mapVars, scrapeVars, Goto
<1>1. ASSUME NEW q \in Result, Stale(q) PROVE Stale(q)'
  BY <1>1, Clock, StaleStays DEF Inv
<1>2. ASSUME NEW s \in Scrapers, UNCHANGED <<results[s], exported[s],
               skipped[s]>>, NEW p \in Probes, NEW q \in Result
      PROVE  /\ Pending(s, p, q) => Pending(s, p, q)'
             /\ Shown(s, p, q) => Shown(s, p, q)'
  <2>1. \A r \in skipped[s] : r \in Result
    BY DEF Inv, Typed
  <2>2. \A r \in skipped[s] : Stale(r) => Stale(r)'
    BY <1>1, <2>1
  <2> QED
    BY <1>2, <2>2, Zenon DEF Pending, Shown
<1>3. \A s \in Scrapers : \A p \in Probes : before[s][p] # None =>
        before[s][p] \in Result
  BY DEF Inv, Typed
<1>4. ASSUME NEW s \in Scrapers,
             UNCHANGED <<results[s], exported[s], skipped[s], spc[s],
                         before[s]>>,
             \A p \in Probes :
               (before[s][p] # None /\ latest[p] # None
                  /\ Newer(latest[p], before[s][p])) =>
               latest'[p] # None /\ Newer(latest'[p], before[s][p])
      PROVE  \A p \in Probes : before'[s][p] # None =>
               FreshAt(s, p, before[s][p])'
  BY <1>2, <1>3, <1>4 DEF Fresh, FreshAt
<1>5. ASSUME WriteLatest PROVE Fresh'
  <2>1. /\ arg \in Result /\ arg # None /\ arg.n = added
        /\ UNCHANGED scrapeVars
        /\ latest' = [latest EXCEPT ![arg.prb] = arg]
        /\ wpc = "latest"
    BY <1>5, NoneAssumption DEF WriteLatest, Inv, Typed, Numbered
  <2>2. ASSUME NEW p \in Probes, NEW q \in Result, latest[p] # None,
               Newer(latest[p], q)
        PROVE  latest'[p] # None /\ Newer(latest'[p], q)
    <3>1. latest[p].n < added /\ latest[p] \in Result
      BY <2>1, <2>2 DEF Numbered, Inv, Typed
    <3> QED
      BY <2>1, <2>2, <3>1 DEF Newer, Inv, Typed, Result
  <2> QED
    BY <1>3, <1>4, <2>1, <2>2 DEF Fresh
<1>6. CASE UNCHANGED <<latest, scrapeVars>>
  BY <1>4, <1>6, Zenon DEF Fresh
<1>7. ASSUME NEW s \in Scrapers, CallCollect(s) \/ CollectStep(s)
      PROVE  Fresh'
  <2>1. /\ UNCHANGED latest
        /\ \A x \in Scrapers \ {s} :
             UNCHANGED <<results[x], exported[x], skipped[x], spc[x],
                         before[x]>>
    BY <1>7 DEF CallCollect, CollectStep, RLock, CopyLatest, CopyProbes,
       ExportResult, CollectHistograms, Finish, Inv, Typed
  <2>2. SUFFICES ASSUME NEW p \in Probes, before'[s][p] # None
                 PROVE  FreshAt(s, p, before[s][p])'
    BY <1>4, <2>1, Zenon DEF Fresh
  <2>3. ASSUME CallCollect(s) PROVE FreshAt(s, p, before[s][p])'
    BY <2>1, <2>2, <2>3 DEF CallCollect, FreshAt, Newer, Inv, Typed
  <2> DEFINE q == before[s][p]
  <2>4. ASSUME UNCHANGED before
        PROVE  q' = q /\ q \in Result /\ FreshAt(s, p, q)
    BY <1>3, <2>2, <2>4 DEF Fresh
  <2>5. ASSUME RLock(s) PROVE FreshAt(s, p, q)'
    BY <2>1, <2>4, <2>5 DEF RLock, FreshAt, Inv, Typed
  <2>6. ASSUME CopyLatest(s) PROVE FreshAt(s, p, q)'
    BY <2>1, <2>4, <2>6 DEF CopyLatest, FreshAt, Pending, Inv, Typed, Paired
  <2>7. ASSUME CopyProbes(s) PROVE FreshAt(s, p, q)'
    BY <2>1, <2>4, <2>7 DEF CopyProbes, FreshAt, Pending, Inv, Typed
  <2>8. ASSUME NEW r \in results[s], ExportResult(s, r)
        PROVE  FreshAt(s, p, q)'
    <3>1. UNCHANGED <<before, spc>> /\ spc[s] = "export"
      BY <2>8 DEF ExportResult
    <3>2. Pending(s, p, q) \/ Shown(s, p, q)
      BY <2>4, <3>1 DEF FreshAt
    <3>3. Pending(s, p, q)' \/ Shown(s, p, q)'
      BY <2>4, <2>8, <3>1, <3>2, ExportShows
    <3> QED
      BY <3>1, <3>3 DEF FreshAt
  <2>9. ASSUME CollectHistograms(s) PROVE FreshAt(s, p, q)'
    BY <1>2, <2>4, <2>9 DEF CollectHistograms, FreshAt, Pending, Inv, Typed
  <2>10. ASSUME Finish(s) PROVE FreshAt(s, p, q)'
    BY <2>2, <2>10 DEF Finish, Inv, Typed
  <2> QED
    BY <1>7, <2>3, <2>5, <2>6, <2>7, <2>8, <2>9, <2>10 DEF CollectStep
<1> QED
  BY <1>5, <1>6, <1>7
  DEF Next, Tick, CallAdd, AddStep, Lock, WriteProbe, Observe, vars

(* A scrape shows, for every probe, the result stored when it was called   *)
(* or a newer one, unless that is older than max_result_age: Collect loses *)
(* no probe, whatever is added while it runs (exporter/measurement.go).    *)
THEOREM ScrapeIsFreshHolds == Spec => []ScrapeIsFresh
<1>1. Init => Numbered /\ Fresh
  BY DEF Init, Numbered, Fresh, FreshAt
<1>2. Fresh => ScrapeIsFresh
  BY DEF Fresh, FreshAt, Shown, ScrapeIsFresh
<1> QED
  BY <1>1, <1>2, NumberedStep, FreshStep, InvHolds, PTL DEF Spec, Inv
-----------------------------------------------------------------------------
(* The refinement: the result is stored when Add writes latest, a scrape's *)
(* instant is its copy of latest, and the other steps are stutters.        *)
LEMMA PhaseMoves ==
  ASSUME Typed, NEW s \in Scrapers, NEW label, Goto(s, label)
  PROVE  [x \in Scrapers |-> Phase(spc[x])]'
           = [[x \in Scrapers |-> Phase(spc[x])] EXCEPT ![s] = Phase(label)]
<1>1. \A x \in Scrapers : spc'[x] = IF x = s THEN label ELSE spc[x]
  BY DEF Typed, Goto
<1>2. \A x \in Scrapers :
        Phase(spc[x])' = IF x = s THEN Phase(label) ELSE Phase(spc[x])
  BY <1>1 DEF Phase
<1> QED
  BY <1>2, Zenon

LEMMA PutStep ==
  ASSUME Inv, Numbered, WriteLatest
  PROVE  \E r \in Result : Snapshot!Put(r)
<1>1. /\ arg \in Result /\ arg.n = added
      /\ latest' = [latest EXCEPT ![arg.prb] = arg]
      /\ UNCHANGED <<now, spc, results, exported>>
  BY DEF Inv, Typed, Numbered, WriteLatest, scrapeVars
<1>2. \A p \in Probes : latest[p] # None => latest[p].n < arg.n
  BY <1>1 DEF WriteLatest, Numbered
<1>3. Snapshot!Put(arg)
  BY <1>1, <1>2 DEF Snapshot!Put
<1> QED
  BY <1>1, <1>3

LEMMA ShowStep ==
  ASSUME Inv, NEW s \in Scrapers, NEW r \in results[s], ExportResult(s, r)
  PROVE  Snapshot!Show(s, r) \/ Snapshot!Drop(s, r)
<1>1. /\ r \in Result /\ now \in Nat /\ MaxResultAge \in Nat
      /\ copied[s][r.prb] = r.n
      /\ [x \in Scrapers |-> Phase(spc[x])][s] = "showing"
      /\ UNCHANGED <<now, latest, spc>>
      /\ results' = [results EXCEPT ![s] = @ \ {r}]
  BY MeasurementAssumption
  DEF Inv, Typed, CopyAgrees, ExportResult, Phase, mapVars
<1>2. ASSUME Stale(r) PROVE Snapshot!Drop(s, r)
  <2>1. MaxResultAge > 0 /\ UNCHANGED exported
    BY <1>2 DEF Stale, ExportResult, Inv, Typed
  <2>2. now - r.ts * TicksPerSecond > MaxResultAge
    BY <1>1, <1>2, <2>1, StaleIsOld
  <2> QED
    BY <1>1, <2>1, <2>2 DEF Snapshot!Drop, Snapshot!Age
<1>3. ASSUME ~Stale(r) PROVE Snapshot!Show(s, r)
  <2>1. exported' = [exported EXCEPT ![s] =
                       @ \cup {[res |-> r, probe |-> r.n]}]
    BY <1>1, <1>3 DEF ExportResult
  <2>2. MaxResultAge > 0 =>
          now - r.ts * TicksPerSecond < MaxResultAge + TicksPerSecond
    BY <1>1, <1>3, StaleIsOld
  <2> QED
    BY <1>1, <2>1, <2>2 DEF Snapshot!Show, Snapshot!Age
<1> QED
  BY <1>2, <1>3

(* Scrapes are snapshots, for any number of scrapers, probes and results:  *)
(* Add, with its two writes, and Collect, with its two copies and its      *)
(* export loop, implement a store with atomic puts and scrapes that show   *)
(* it as it was at one instant (exporter/measurement.go).                  *)
THEOREM ImplementsSnapshotHolds == Spec => ImplementsSnapshot
<1>1. Init => Snapshot!Init
  BY DEF Init, Snapshot!Init, Phase
<1>2. ASSUME Inv, Numbered, [Next]_vars
      PROVE  [Snapshot!Next]_(Snapshot!vars)
  <2> USE <1>2 DEF addVars, mapVars, scrapeVars
  <2>1. CASE UNCHANGED <<now, latest, spc, results, exported>>
    BY <2>1 DEF Snapshot!vars
  <2>2. CASE Tick
    BY <2>2 DEF Tick, Snapshot!Next, Snapshot!Tick
  <2>3. CASE WriteLatest
    BY <2>3, PutStep DEF Snapshot!Next
  <2>4. ASSUME NEW s \in Scrapers, CallCollect(s) \/ CollectStep(s)
        PROVE  Snapshot!Scrape(s) \/ UNCHANGED Snapshot!vars
    <3> DEFINE phase == [x \in Scrapers |-> Phase(spc[x])]
    <3>1. Typed /\ phase[s] = Phase(spc[s])
      BY DEF Inv
    <3>2. ASSUME CallCollect(s) PROVE Snapshot!Call(s)
      <4>1. phase[s] = "idle" /\ phase' = [phase EXCEPT ![s] = "called"]
        BY <3>1, <3>2, PhaseMoves DEF CallCollect, Phase
      <4> QED
        BY <3>2, <4>1 DEF CallCollect, Snapshot!Call, Snapshot!Become
    <3>3. ASSUME RLock(s) \/ CopyProbes(s) PROVE UNCHANGED Snapshot!vars
      <4>1. PICK label : Goto(s, label) /\ Phase(label) = Phase(spc[s])
        BY <3>3 DEF RLock, CopyProbes, Phase
      <4>2. phase' = [phase EXCEPT ![s] = phase[s]]
        BY <3>1, <4>1, PhaseMoves
      <4>3. phase' = phase
        BY <4>2, Zenon
      <4> QED
        BY <3>3, <4>3 DEF RLock, CopyProbes, Snapshot!vars
    <3>4. ASSUME CopyLatest(s) PROVE Snapshot!Snap(s)
      <4>1. phase[s] = "called" /\ phase' = [phase EXCEPT ![s] = "showing"]
        BY <3>1, <3>4, PhaseMoves DEF CopyLatest, Phase
      <4> QED
        BY <3>4, <4>1 DEF CopyLatest, Snapshot!Snap, Snapshot!Become
    <3>5. ASSUME CollectHistograms(s) PROVE Snapshot!End(s)
      <4>1. phase[s] = "showing" /\ phase' = [phase EXCEPT ![s] = "done"]
        BY <3>1, <3>5, PhaseMoves DEF CollectHistograms, Phase
      <4> QED
        BY <3>5, <4>1 DEF CollectHistograms, Snapshot!End, Snapshot!Become
    <3>6. ASSUME Finish(s) PROVE Snapshot!Leave(s)
      <4>1. phase[s] = "done" /\ phase' = [phase EXCEPT ![s] = "idle"]
        BY <3>1, <3>6, PhaseMoves DEF Finish, Phase
      <4> QED
        BY <3>6, <4>1 DEF Finish, Snapshot!Leave, Snapshot!Become
    <3> QED
      BY <2>4, <3>2, <3>3, <3>4, <3>5, <3>6, ShowStep
      DEF CollectStep, Snapshot!Scrape
  <2>5. ASSUME CallAdd \/ Lock \/ WriteProbe \/ Observe \/ UNCHANGED vars
        PROVE  UNCHANGED <<now, latest, spc, results, exported>>
    BY <2>5 DEF CallAdd, Lock, WriteProbe, Observe, vars
  <2> QED
    BY <2>1, <2>2, <2>3, <2>4, <2>5 DEF Next, AddStep, Snapshot!Next
<1>3. Init => Numbered
  BY DEF Init, Numbered
<1> QED
  BY <1>1, <1>2, <1>3, NumberedStep, InvHolds, PTL
  DEF Spec, Inv, ImplementsSnapshot, Snapshot!Spec
-----------------------------------------------------------------------------
(* Add waits for scrapers that are copying the maps and for no others, ... *)
ReadersCopy ==
  readers = {s \in Scrapers : spc[s] \in {"copy", "copyProbes"}}

(* ... and no scraper joins them while it waits. *)
NotOvertaken == [][wpc = "lock" => readers' \subseteq readers]_vars

(* What is safe about AddEnds, for any number of scrapers: Add waits for a *)
(* set of scrapers that only shrinks, and each of them has one or two      *)
(* copies to make, which nothing blocks, before it leaves the set; the     *)
(* export loop is outside the lock (exporter/measurement.go).              *)
THEOREM NotOvertakenHolds == Spec => []ReadersCopy /\ NotOvertaken
<1>1. Init => ReadersCopy
  BY DEF Init, ReadersCopy
<1>2. Inv /\ ReadersCopy /\ [Next]_vars => ReadersCopy'
  <2> SUFFICES ASSUME Inv, ReadersCopy, [Next]_vars PROVE ReadersCopy'
    OBVIOUS
  <2> USE DEF ReadersCopy, addVars, mapVars, scrapeVars, Goto
  <2>1. CASE UNCHANGED <<readers, spc>>
    BY <2>1
  <2>2. ASSUME NEW s \in Scrapers, RLock(s) PROVE ReadersCopy'
    BY <2>2 DEF RLock, Inv, Typed
  <2>3. ASSUME NEW s \in Scrapers, CopyProbes(s) PROVE ReadersCopy'
    BY <2>3 DEF CopyProbes, RUnlock, Inv, Typed
  <2>4. ASSUME NEW s \in Scrapers,
               CallCollect(s) \/ CopyLatest(s) \/ CollectHistograms(s)
                 \/ Finish(s)
        PROVE  ReadersCopy'
    BY <2>4, Zenon
    DEF CallCollect, CopyLatest, CollectHistograms, Finish, Inv, Typed
  <2>5. ASSUME Tick \/ CallAdd \/ AddStep \/ UNCHANGED vars
        PROVE  UNCHANGED <<readers, spc>>
    BY <2>5 DEF Tick, CallAdd, AddStep, Lock, WriteLatest, WriteProbe,
       Observe, vars
  <2>6. ASSUME NEW s \in Scrapers, NEW r \in results[s], ExportResult(s, r)
        PROVE  UNCHANGED <<readers, spc>>
    BY <2>6 DEF ExportResult
  <2> QED
    BY <2>1, <2>2, <2>3, <2>4, <2>5, <2>6 DEF Next, CollectStep
<1>3. [Next]_vars => [wpc = "lock" => readers' \subseteq readers]_vars
  BY Zenon DEF Next, Tick, CallAdd, AddStep, Lock, WriteLatest, WriteProbe,
     Observe, CallCollect, CollectStep, RLock, MayRead, CopyLatest,
     CopyProbes, RUnlock, ExportResult, CollectHistograms, Finish, scrapeVars
<1> QED
  BY <1>1, <1>2, <1>3, InvHolds, PTL DEF Spec, NotOvertaken
=============================================================================
