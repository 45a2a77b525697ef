------------------------- MODULE RequestScrapeProofs -------------------------
(***************************************************************************)
(* A request for any number of measurements, whatever their pools do, and  *)
(* the pool of the measurement in focus.                                   *)
(***************************************************************************)
EXTENDS RequestScrape, FiniteSetTheorems, TLAPS

Measured == {i \in IDs : outcome[i] = "measured"}

Typed ==
  /\ gpc \in [IDs -> {"fetch", "probes", "add", "send", "done"}]
  /\ outcome \in [IDs -> {"none", "skipped", "measured"}]
  /\ res \in Seq(IDs)
  /\ missing \subseteq IDs
  /\ filter \in BOOLEAN
  /\ open \in BOOLEAN
  /\ ret \in {"none", "ok", "timeout"}

(* A goroutine is done once its measurement has an outcome, and the        *)
(* channel holds exactly the measured ones.                                *)
Counted ==
  /\ \A i \in IDs : outcome[i] # "none" <=> gpc[i] = "done"
  /\ \A i \in IDs : i \in Measured <=> \E k \in DOMAIN res : res[k] = i
  /\ Len(res) = Cardinality(Measured)
  /\ ~open => \A i \in IDs : gpc[i] = "done"
  /\ ret = "ok" => ~open

(* With the filter on, a measurement that lacks a probe panics in Add and  *)
(* is never sent.                                                          *)
Guarded ==
  /\ filter => \A i \in missing : gpc[i] # "send" /\ i \notin Measured
  /\ \A i \in missing : gpc[i] \notin {"fetch", "probes"}

Inv == Typed /\ Counted /\ Guarded

USE DEF Goto

LEMMA InvInit == Init => Inv
<1> SUFFICES ASSUME Init PROVE Inv
  OBVIOUS
<1>1. Measured = {}
  BY DEF Init, Measured
<1>2. Cardinality({}) = 0
  BY FS_EmptySet
<1> QED
  BY <1>1, <1>2 DEF Init, Inv, Typed, Counted, Guarded
-----------------------------------------------------------------------------
(* Every return but the last. *)
LEMMA SkipStep ==
  ASSUME Inv, NEW i \in IDs, gpc[i] # "done", Skip(i)
  PROVE  Inv'
<1>1. outcome[i] = "none"
  BY DEF Inv, Counted, Typed
<1>2. Measured' = Measured
  BY <1>1 DEF Skip, Measured, Inv, Typed
<1> QED
  BY <1>1, <1>2 DEF Inv, Typed, Counted, Guarded, Skip

LEMMA TakeStep ==
  ASSUME Inv, NEW i \in IDs, Take(i)
  PROVE  Inv'
<1>1. outcome[i] = "none" /\ i \notin Measured
  BY DEF Inv, Counted, Typed, Measured, Take
<1>2. Measured' = Measured \cup {i}
  BY <1>1 DEF Take, Measured, Inv, Typed
<1>3. Cardinality(Measured') = Cardinality(Measured) + 1
  <2>1. IsFiniteSet(Measured)
    BY ScrapeAssumption, FS_Subset DEF Measured
  <2> QED
    BY <1>1, <1>2, <2>1, FS_AddElement
<1>4. /\ res' \in Seq(IDs)
      /\ Len(res') = Len(res) + 1
      /\ \A k \in 1 .. Len(res) : res'[k] = res[k]
      /\ res'[Len(res) + 1] = i
  BY DEF Take, Inv, Typed
<1>5. Typed'
  BY <1>4 DEF Take, Inv, Typed
<1>6. \A j \in IDs : j \in Measured' <=> \E k \in DOMAIN res' : res'[k] = j
  BY <1>2, <1>4 DEF Inv, Typed, Counted
<1>7. Counted'
  BY <1>3, <1>4, <1>6 DEF Take, Inv, Typed, Counted
<1>8. Guarded'
  BY <1>2 DEF Take, Inv, Typed, Guarded
<1> QED
  BY <1>5, <1>7, <1>8 DEF Inv

LEMMA ProbesStep ==
  ASSUME Inv, NEW i \in IDs, Probes(i)
  PROVE  Inv'
<1>1. missing' = missing \/ missing' = missing \cup {i}
  BY Zenon DEF Probes
<1>2. gpc[i] = "probes" /\ gpc' = [gpc EXCEPT ![i] = "add"]
      /\ UNCHANGED <<filter, open, res, ret, outcome>>
  BY DEF Probes
<1>3. i \notin Measured
  BY <1>2 DEF Inv, Counted, Measured
<1> QED
  BY <1>1, <1>2, <1>3 DEF Inv, Typed, Counted, Guarded, Measured

LEMMA GoOnStep ==
  ASSUME Inv, NEW i \in IDs, Fetch(i) \/ AddAll(i)
  PROVE  Inv'
<1>1. /\ gpc[i] \in {"fetch", "add"}
      /\ \/ gpc' = [gpc EXCEPT ![i] = "probes"] /\ gpc[i] = "fetch"
         \/ gpc' = [gpc EXCEPT ![i] = "send"] /\ (filter => i \notin missing)
      /\ UNCHANGED <<filter, missing, open, res, ret, outcome>>
  BY DEF Fetch, AddAll
<1>2. Measured' = Measured /\ Typed'
  BY <1>1 DEF Inv, Typed, Measured
<1>3. \A j \in IDs : gpc'[j] = "done" <=> gpc[j] = "done"
  BY <1>1 DEF Inv, Typed
<1>4. Counted'
  BY <1>1, <1>2, <1>3 DEF Inv, Counted
<1>5. Guarded'
  BY <1>1, <1>2 DEF Inv, Typed, Guarded, Measured
<1> QED
  BY <1>2, <1>4, <1>5 DEF Inv

LEMMA CloseStep ==
  ASSUME Inv, Close \/ TakeClosed \/ TimedOut
  PROVE  Inv'
<1>1. /\ UNCHANGED <<filter, gpc, missing, res, outcome>>
      /\ \/ (\A i \in IDs : gpc[i] = "done") /\ open' = FALSE /\ ret' = ret
         \/ ~open /\ open' = open /\ ret' = "ok"
         \/ ret' = "timeout" /\ open' = open
  BY DEF Close, TakeClosed, TimedOut
<1>2. Measured' = Measured
  BY <1>1 DEF Measured
<1>3. Typed'
  <2>1. open' \in BOOLEAN /\ ret' \in {"none", "ok", "timeout"}
    BY <1>1, Zenon DEF Inv, Typed
  <2> QED
    BY <1>1, <2>1, Zenon DEF Inv, Typed
<1>5. Guarded'
  BY <1>1, <1>2 DEF Inv, Typed, Guarded
<1>4. Counted'
  BY <1>1, <1>2 DEF Inv, Counted
<1> QED
  BY <1>3, <1>4, <1>5 DEF Inv

LEMMA OtherStep ==
  ASSUME Inv, Tick \/ PoolStep \/ Fail \/ Export \/ UNCHANGED vars
  PROVE  Inv'
<1>1. UNCHANGED <<filter, gpc, missing, open, res, ret, outcome>>
  BY DEF Tick, PoolStep, Fail, Export, vars
<1> QED
  BY <1>1 DEF Inv, Typed, Counted, Guarded, Measured

LEMMA InvStep == Inv /\ [Next]_vars => Inv'
<1> SUFFICES ASSUME Inv, [Next]_vars PROVE Inv'
  OBVIOUS
<1>1. ASSUME NEW i \in IDs, FetchFails(i) \/ ProbesFail(i) \/ AddPanics(i)
      PROVE  Inv'
  BY <1>1, SkipStep DEF FetchFails, ProbesFail, AddPanics, Panic
<1> QED
  BY <1>1, GoOnStep, CloseStep, OtherStep, TakeStep, ProbesStep
  DEF Next, Goroutine, Collect, Handler

LEMMA InvHolds == Spec => []Inv
  BY InvInit, InvStep, PTL DEF Spec
-----------------------------------------------------------------------------
(* A request that does not time out collects every measurement that was    *)
(* not skipped, and no measurement twice: the WaitGroup of                 *)
(* MeasurementResults (atlas/request_strategy.go) closes the channel after *)
(* the last goroutine.                                                     *)
THEOREM CompleteUnlessTimedOutHolds == Spec => []CompleteUnlessTimedOut
<1>1. Inv => CompleteUnlessTimedOut
  BY DEF Inv, Counted, Measured, CompleteUnlessTimedOut
<1> QED
  BY <1>1, InvHolds, PTL

(* With filter_invalid_results on, a result without a probe is stopped in  *)
(* Add, whose panic is recovered, and never reaches the export, where the  *)
(* nil probe would end the process.                                        *)
THEOREM FilterStopsMissingHolds == Spec => []FilterStopsMissing
<1>1. Init => FilterStopsMissing
  BY DEF Init, FilterStopsMissing
<1>2. Inv /\ FilterStopsMissing /\ [Next]_vars => FilterStopsMissing'
  <2> SUFFICES ASSUME Inv, FilterStopsMissing, [Next]_vars
               PROVE  FilterStopsMissing'
    OBVIOUS
  <2> USE DEF FilterStopsMissing
  <2>1. CASE UNCHANGED <<filter, crashed>>
    BY <2>1
  <2>2. ASSUME Export PROVE FilterStopsMissing'
    <3>1. filter => \A k \in DOMAIN res : res[k] \notin missing
      BY DEF Inv, Typed, Counted, Guarded
    <3> QED
      BY <2>2, <3>1 DEF Export
  <2>3. ASSUME NEW i \in IDs, Goroutine(i) PROVE UNCHANGED <<filter, crashed>>
    BY <2>3 DEF Goroutine, FetchFails, ProbesFail, AddPanics, Panic, Skip,
                Fetch, Probes, AddAll
  <2>4. ASSUME Tick \/ PoolStep \/ Collect \/ Fail \/ UNCHANGED vars
        PROVE  UNCHANGED <<filter, crashed>>
    BY <2>4 DEF Tick, PoolStep, Collect, Close, Take, TakeClosed, TimedOut,
                Fail, vars
  <2> QED
    BY <2>1, <2>2, <2>3, <2>4, Zenon DEF Next, Handler
<1> QED
  BY <1>1, <1>2, InvHolds, PTL DEF Spec
-----------------------------------------------------------------------------
(* The pool of probe lookups, for any results and any number of consumers. *)
(* Where each id is decides both theorems: an id that was sent is with a   *)
(* consumer, in the map, answered with an error document, or the error has *)
(* been returned (Placed); the channels are closed one after the other     *)
(* (Ordered).                                                              *)

(* The producer has sent the ids of the results it is past. *)
Sent == added = {Results[i] : i \in 1 .. next - 1}

(* What a consumer holds in each of its states. *)
Held ==
  \A c \in Consumers :
    /\ cpc[c] = "lookup" => work[c] \in added
    /\ cpc[c] = "out" => work[c] \in added \cup {ZeroID}

(* An id is sent once, so its lookup has one outcome. *)
Holds(c, i) == cpc[c] \in {"lookup", "out"} /\ work[c] = i
Once ==
  /\ zeroed \subseteq added
  /\ zeroed \cap probes = {}
  /\ \A i \in Pool!Ids : \A c \in Consumers : Holds(c, i) =>
       /\ i \notin probes \cup zeroed
       /\ \A d \in Consumers : Holds(d, i) => d = c

(* An id in a consumer's hands, or one it gave up. *)
WithConsumer(i) ==
  \E c \in workers : cpc[c] = "err" \/ Holds(c, i)

Placed ==
  /\ \A i \in added :
       \/ poolRet = "error" \/ i \in probes \cup zeroed \/ WithConsumer(i)
  /\ probes \subseteq added \cup {ZeroID}

(* ids closed, then consumers done, then probes closed, then success. *)
Ordered ==
  /\ ~idOpen => next > Len(Results)
  /\ \A c \in workers : cpc[c] = "done" => ~idOpen
  /\ ~outOpen => \A c \in workers : cpc[c] = "done"
  /\ poolRet = "ok" => ~outOpen

PoolInv == Pool!TypeOK /\ Sent /\ Held /\ Once /\ Placed /\ Ordered

LEMMA PoolInvInit == Pool!Init => PoolInv
<1> SUFFICES ASSUME Pool!Init PROVE PoolInv
  OBVIOUS
<1>1. Len(Results) \in Nat
  BY PoolAssumption DEF Pool!PoolConstants
<1> QED
  BY <1>1
  DEF Pool!Init, PoolInv, Pool!TypeOK, Sent, Held, Once, Placed, Ordered, Holds

USE DEF Pool!producerVars, Pool!consumerVars, Pool!Repeated, Pool!Wanted,
        Pool!AllSent, Pool!Drained, Pool!AllDone, Pool!Offers, Pool!SeesClosed

LEMMA PoolSkipStep ==
  ASSUME PoolInv, Pool!Skip
  PROVE  PoolInv'
<1>1. Len(Results) \in Nat /\ DOMAIN Results = 1 .. Len(Results)
  BY PoolAssumption DEF Pool!PoolConstants
<1>2. Pool!TypeOK' /\ Held' /\ Once' /\ Placed' /\ Ordered'
  BY <1>1
  DEF PoolInv, Pool!TypeOK, Held, Once, Holds, Placed, WithConsumer, Ordered,
      Pool!Skip
<1>3. Sent'
  BY <1>1 DEF PoolInv, Pool!TypeOK, Sent, Pool!Skip
<1> QED
  BY <1>2, <1>3 DEF PoolInv

LEMMA PoolProduceStep ==
  ASSUME PoolInv, NEW c \in workers, Pool!Produce(c)
  PROVE  PoolInv'
<1>1. Len(Results) \in Nat /\ DOMAIN Results = 1 .. Len(Results)
  BY PoolAssumption DEF Pool!PoolConstants
<1>2. c \in Consumers /\ Results[next] \in Pool!Ids
  BY <1>1 DEF PoolInv, Pool!TypeOK, Pool!Ids, Pool!Produce
<1>3. Pool!TypeOK' /\ Held'
  BY <1>1, <1>2 DEF PoolInv, Pool!TypeOK, Held, Pool!Produce
<1>4. Sent'
  BY <1>1 DEF PoolInv, Pool!TypeOK, Sent, Pool!Produce
<1>5. Once'
  BY <1>2, PoolAssumption
  DEF PoolInv, Pool!TypeOK, Held, Once, Holds, Placed, Pool!Produce,
      Pool!PoolConstants
<1>6. Placed'
  BY <1>2 DEF PoolInv, Pool!TypeOK, Placed, WithConsumer, Holds, Pool!Produce
<1>7. Ordered'
  BY <1>1, <1>2 DEF PoolInv, Pool!TypeOK, Ordered, Pool!Produce
<1> QED
  BY <1>3, <1>4, <1>5, <1>6, <1>7 DEF PoolInv

LEMMA PoolLookupStep ==
  ASSUME PoolInv, NEW c \in workers,
         Pool!Lookup(c) \/ Pool!LookupFails(c)
  PROVE  PoolInv'
<1>1. c \in Consumers /\ work[c] \in added /\ work[c] \in Pool!Ids
  BY DEF PoolInv, Pool!TypeOK, Held, Pool!Lookup, Pool!LookupFails
<1>2. Pool!TypeOK' /\ Held' /\ Sent' /\ Ordered'
  BY <1>1
  DEF PoolInv, Pool!TypeOK, Held, Sent, Ordered, Pool!Lookup, Pool!LookupFails
<1>3. Once'
  BY <1>1, PoolAssumption
  DEF PoolInv, Pool!TypeOK, Held, Once, Holds, Pool!Lookup, Pool!LookupFails,
      Pool!PoolConstants
<1>4. Placed'
  BY <1>1
  DEF PoolInv, Pool!TypeOK, Placed, WithConsumer, Holds, Pool!Lookup,
      Pool!LookupFails
<1> QED
  BY <1>2, <1>3, <1>4 DEF PoolInv

LEMMA PoolTakeStep ==
  ASSUME PoolInv, NEW c \in workers,
         Pool!TakeProbe(c) \/ Pool!TakeError(c) \/ Pool!ConsumerDone(c)
  PROVE  PoolInv'
<1>1. c \in Consumers
  BY DEF PoolInv, Pool!TypeOK
<1>2. Pool!TypeOK' /\ Held' /\ Sent' /\ Ordered'
  BY <1>1, PoolAssumption
  DEF PoolInv, Pool!TypeOK, Held, Sent, Ordered, Pool!PoolConstants,
      Pool!TakeProbe, Pool!TakeError, Pool!ConsumerDone
<1>3. Once'
  BY <1>1, PoolAssumption
  DEF PoolInv, Pool!TypeOK, Held, Once, Holds, Pool!PoolConstants,
      Pool!TakeProbe, Pool!TakeError, Pool!ConsumerDone
<1>4. Placed'
  BY <1>1 DEF PoolInv, Pool!TypeOK, Held, Placed, WithConsumer, Holds,
              Pool!TakeProbe, Pool!TakeError, Pool!ConsumerDone
<1> QED
  BY <1>2, <1>3, <1>4 DEF PoolInv

LEMMA PoolCloseStep ==
  ASSUME PoolInv, Pool!CloseIds \/ Pool!CloseOut \/ Pool!TakeClosed
  PROVE  PoolInv'
<1>1. Pool!TypeOK'
  BY Zenon DEF PoolInv, Pool!TypeOK, Pool!CloseIds, Pool!CloseOut,
               Pool!TakeClosed
<1>2. Ordered' /\ Held' /\ Sent' /\ Once' /\ Placed'
  BY DEF PoolInv, Ordered, Held, Sent, Once, Holds, Placed, WithConsumer,
         Pool!CloseIds, Pool!CloseOut, Pool!TakeClosed
<1> QED
  BY <1>1, <1>2 DEF PoolInv

LEMMA PoolInvStep == PoolInv /\ [Pool!Next]_(Pool!vars) => PoolInv'
<1> SUFFICES ASSUME PoolInv, [Pool!Next]_(Pool!vars) PROVE PoolInv'
  OBVIOUS
<1>1. CASE UNCHANGED Pool!vars
  BY <1>1 DEF Pool!vars, PoolInv, Pool!TypeOK, Held, Sent, Once, Holds, Placed,
              WithConsumer, Ordered
<1> QED
  BY <1>1, PoolSkipStep, PoolProduceStep, PoolLookupStep, PoolTakeStep,
     PoolCloseStep
  DEF Pool!Next, Pool!Consumer

(* The goroutines of a request's pool take the steps of ProbePool and no   *)
(* others: nothing else in the request touches them.                       *)
LEMMA PoolImplemented == Spec => Pool!Spec
<1>1. Init => Pool!Init
  BY DEF Init
<1>2. [Next]_vars => [Pool!Next]_(Pool!vars)
  <2>1. ASSUME Next PROVE Pool!Next \/ UNCHANGED poolVars
    BY <2>1 DEF Next, Tick, PoolStep, Goroutine, FetchFails, Fetch,
       ProbesFail, Probes, AddPanics, Panic, AddAll, Skip, Collect, Close,
       Take, TakeClosed, TimedOut, Handler, Fail, Export
  <2>2. UNCHANGED poolVars => UNCHANGED Pool!vars
    BY DEF poolVars, Pool!vars
  <2> QED
    BY <2>1, <2>2 DEF vars
<1> QED
  BY <1>1, <1>2, PTL DEF Spec, Pool!Spec

LEMMA PoolInvHolds == Spec => []PoolInv
<1>1. Pool!Spec => []PoolInv
  BY PoolInvInit, PoolInvStep, PTL DEF Pool!Spec
<1> QED
  BY <1>1, PoolImplemented, PTL

(* No consumer can send on the probe channel once it is closed, not even   *)
(* when the request has timed out and left the pool behind: the goroutine  *)
(* that closes it waits for all of them (startConsumers in                 *)
(* atlas/helper.go).                                                       *)
THEOREM NoSendOnClosedHolds == Spec => []NoSendOnClosed
<1>1. PoolInv => NoSendOnClosed
  BY DEF PoolInv, Ordered, NoSendOnClosed, Pool!NoSendOnClosed
<1> QED
  BY <1>1, PoolInvHolds, PTL

(* probesForResults succeeds only with the probes of all results in its    *)
(* map, but for the ids the API answered with an error document.           *)
THEOREM CompleteOnSuccessHolds == Spec => []CompleteOnSuccess
<1>1. PoolInv => CompleteOnSuccess
  <2> SUFFICES ASSUME PoolInv, poolRet = "ok", workers # {}
               PROVE  probes \ {ZeroID} = Pool!Ids \ zeroed /\ ~idOpen
    BY DEF CompleteOnSuccess, Pool!CompleteOnSuccess
  <2>1. /\ \A c \in workers : cpc[c] = "done"
        /\ ~idOpen /\ next > Len(Results)
    BY DEF PoolInv, Ordered
  <2>2. Len(Results) \in Nat /\ DOMAIN Results = 1 .. Len(Results)
    BY PoolAssumption DEF Pool!PoolConstants
  <2>3. added = Pool!Ids
    BY <2>1, <2>2 DEF PoolInv, Pool!TypeOK, Sent, Pool!Ids
  <2>4. Pool!Ids \subseteq probes \cup zeroed
    BY <2>1, <2>3 DEF PoolInv, Placed, WithConsumer, Holds
  <2> QED
    BY <2>1, <2>4, PoolAssumption
    DEF PoolInv, Pool!TypeOK, Once, Pool!PoolConstants
<1> QED
  BY <1>1, PoolInvHolds, PTL

(* Every variable of the request and of its pool keeps its type. *)
THEOREM TypeOKHolds == Spec => []TypeOK
<1> DEFINE Clock == now \in 0 .. MaxNow
           Client == /\ reply \in {"none", "metrics", "error", "nothing"}
                     /\ crashed \in {"no", "missing", "document"}
<1>1. Init => Clock /\ Client
  <2>1. Init => Clock
    BY ScrapeAssumption DEF Init
  <2>2. Init => Client
    BY Zenon DEF Init
  <2> QED
    BY <2>1, <2>2
<1>2. Clock /\ Client /\ [Next]_vars => Clock' /\ Client'
  <2> SUFFICES ASSUME Clock, Client, [Next]_vars PROVE Clock' /\ Client'
    OBVIOUS
  <2>1. CASE UNCHANGED <<now, reply, crashed>>
    BY <2>1
  <2>2. ASSUME NEW i \in IDs, Goroutine(i)
        PROVE  UNCHANGED <<now, reply, crashed>>
    BY <2>2 DEF Goroutine, FetchFails, ProbesFail, AddPanics, Panic, Skip,
                Fetch, Probes, AddAll
  <2>3. ASSUME PoolStep \/ Collect \/ UNCHANGED vars
        PROVE  UNCHANGED <<now, reply, crashed>>
    BY <2>3 DEF PoolStep, Collect, Close, Take, TakeClosed, TimedOut, vars
  <2>4. ASSUME Tick PROVE Clock' /\ Client'
    <3>1. Clock'
      BY <2>4, ScrapeAssumption DEF Tick
    <3> QED
      BY <2>4, <3>1, Zenon DEF Tick
  <2>5. ASSUME Handler PROVE Clock' /\ Client'
    BY <2>5, Zenon DEF Handler, Fail, Export, Respond
  <2> QED
    BY <2>1, <2>2, <2>3, <2>4, <2>5, Zenon DEF Next
<1>3. Inv /\ PoolInv /\ Clock /\ Client => TypeOK
  BY DEF Inv, Typed, PoolInv, TypeOK
<1> QED
  BY <1>1, <1>2, <1>3, InvHolds, PoolInvHolds, PTL DEF Spec

(* The caller of probesForResults never waits for a pool in which no       *)
(* goroutine can move, with any number of workers and none: a lookup that  *)
(* is over is received, and one that is not goes on (atlas/helper.go).     *)
THEOREM NeverStuckHolds == Spec => []NeverStuck
<1>1. PoolInv => NeverStuck
  <2> SUFFICES ASSUME PoolInv, poolRet = "none",
                      ~ \E c \in workers : \/ cpc[c] = "lookup"
                                           \/ Pool!Offers(c, "out")
                                           \/ Pool!Offers(c, "err")
               PROVE  \/ Pool!Repeated \/ Pool!AllSent \/ Pool!AllDone
                      \/ Pool!SeesClosed
                      \/ \E c \in workers : Pool!Wanted(c) \/ Pool!Drained(c)
    BY DEF NeverStuck, Pool!NeverStuck
  <2>1. \A c \in workers : cpc[c] \in {"range", "done"}
    BY DEF PoolInv, Pool!TypeOK
  <2>2. Len(Results) \in Nat
    BY PoolAssumption DEF Pool!PoolConstants
  <2> QED
    BY <2>1, <2>2 DEF PoolInv, Pool!TypeOK, Ordered
<1> QED
  BY <1>1, PoolInvHolds, PTL
-----------------------------------------------------------------------------
(* What a pool has left to do.  An id not yet looked at counts 4, so that  *)
(* handing it to a consumer (which then counts 4 instead of 1) uses some   *)
(* up; so does everything else a goroutine of the pool can do.             *)
Alive == {c \in workers : cpc[c] # "done"}
Busy  == {c \in workers : cpc[c] \in {"lookup", "out", "err"}}
Asking == {c \in workers : cpc[c] = "lookup"}
Flag(b) == IF b THEN 1 ELSE 0
InHand == Cardinality(Alive) + 2 * Cardinality(Busy) + Cardinality(Asking)
Left ==
  4 * (Len(Results) + 1 - next) + InHand
    + Flag(idOpen) + Flag(outOpen) + Flag(poolRet = "none")

LEMMA FiniteHands ==
  ASSUME PoolInv
  PROVE  /\ IsFiniteSet(Alive) /\ IsFiniteSet(Busy) /\ IsFiniteSet(Asking)
         /\ Cardinality(Alive) \in Nat
         /\ Cardinality(Busy) \in Nat
         /\ Cardinality(Asking) \in Nat
<1>1. IsFiniteSet(Consumers)
  BY ScrapeAssumption
<1>2. IsFiniteSet(Alive) /\ IsFiniteSet(Busy) /\ IsFiniteSet(Asking)
  <2>1. /\ Alive \subseteq Consumers /\ Busy \subseteq Consumers
        /\ Asking \subseteq Consumers
    BY DEF PoolInv, Pool!TypeOK, Alive, Busy, Asking
  <2> QED
    BY <1>1, <2>1, FS_Subset
<1> QED
  BY <1>2, FS_CardinalityType

LEMMA LeftIsNat ==
  ASSUME PoolInv
  PROVE  /\ Len(Results) \in Nat /\ next \in Nat
         /\ InHand \in Nat /\ Left \in Nat
<1>1. Len(Results) \in Nat
  BY PoolAssumption DEF Pool!PoolConstants
<1>2. next \in Nat /\ Len(Results) + 1 - next \in Nat
  <2>1. next \in 1 .. Len(Results) + 1
    BY DEF PoolInv, Pool!TypeOK
  <2> QED
    BY <1>1, <2>1
<1>3. InHand \in Nat
  BY FiniteHands DEF InHand
<1>4. Flag(idOpen) \in Nat /\ Flag(outOpen) \in Nat
        /\ Flag(poolRet = "none") \in Nat
  BY DEF Flag
<1> QED
  BY <1>1, <1>2, <1>3, <1>4 DEF Left

(* How a step of one consumer changes what is in the consumers' hands. *)
LEMMA HandStep ==
  ASSUME PoolInv, NEW c \in workers, UNCHANGED workers,
         NEW pc \in {"range", "lookup", "out", "err", "done"},
         cpc' = [cpc EXCEPT ![c] = pc]
  PROVE  /\ cpc[c] = "range" /\ pc = "lookup" => InHand' = InHand + 3
         /\ cpc[c] = "range" /\ pc = "done" => InHand' = InHand - 1
         /\ cpc[c] = "lookup" /\ pc \in {"out", "err"} => InHand' = InHand - 1
         /\ cpc[c] \in {"out", "err"} /\ pc = "range" => InHand' = InHand - 2
<1> USE FiniteHands
<1>1. /\ c \in Consumers
      /\ \A d \in workers : cpc'[d] = IF d = c THEN pc ELSE cpc[d]
  BY DEF PoolInv, Pool!TypeOK
<1>2. ASSUME cpc[c] = "range", pc = "lookup" PROVE InHand' = InHand + 3
  <2>1. /\ Alive' = Alive
        /\ Busy' = Busy \cup {c} /\ c \notin Busy
        /\ Asking' = Asking \cup {c} /\ c \notin Asking
    BY <1>1, <1>2 DEF Alive, Busy, Asking
  <2>2. /\ Cardinality(Busy') = Cardinality(Busy) + 1
        /\ Cardinality(Asking') = Cardinality(Asking) + 1
    BY <2>1, FS_AddElement, Zenon
  <2> QED
    BY <2>1, <2>2 DEF InHand
<1>3. ASSUME cpc[c] = "range", pc = "done" PROVE InHand' = InHand - 1
  <2>1. Alive' = Alive \ {c} /\ c \in Alive /\ Busy' = Busy /\ Asking' = Asking
    BY <1>1, <1>3 DEF Alive, Busy, Asking
  <2>2. Cardinality(Alive') = Cardinality(Alive) - 1
    BY <2>1, FS_RemoveElement, Zenon
  <2> QED
    BY <2>1, <2>2 DEF InHand
<1>4. ASSUME cpc[c] = "lookup", pc \in {"out", "err"}
      PROVE  InHand' = InHand - 1
  <2>1. /\ Asking' = Asking \ {c} /\ c \in Asking
        /\ Alive' = Alive /\ Busy' = Busy
    BY <1>1, <1>4 DEF Alive, Busy, Asking
  <2>2. Cardinality(Asking') = Cardinality(Asking) - 1
    BY <2>1, FS_RemoveElement, Zenon
  <2> QED
    BY <2>1, <2>2 DEF InHand
<1>5. ASSUME cpc[c] \in {"out", "err"}, pc = "range"
      PROVE  InHand' = InHand - 2
  <2>1. Busy' = Busy \ {c} /\ c \in Busy /\ Alive' = Alive /\ Asking' = Asking
    BY <1>1, <1>5 DEF Alive, Busy, Asking
  <2>2. Cardinality(Busy') = Cardinality(Busy) - 1
    BY <2>1, FS_RemoveElement, Zenon
  <2> QED
    BY <2>1, <2>2 DEF InHand
<1> QED
  BY <1>2, <1>3, <1>4, <1>5

(* The pool cannot run for ever: every step of the producer, a consumer,   *)
(* the closing goroutine or the caller (atlas/helper.go) uses up some of   *)
(* the natural number that Left is.  As NeverStuck says that one of them   *)
(* can step until probesForResults has returned, the call returns if the   *)
(* lookups do, whatever they return, for any results and any pool size.    *)
THEOREM PoolAdvances == Spec => [][Left' < Left /\ Left \in Nat]_poolVars
<1>1. ASSUME PoolInv, Pool!Next PROVE Left \in Nat /\ Left' < Left
  <2> USE <1>1 DEF Flag
  <2>1. /\ Len(Results) \in Nat /\ next \in Nat
        /\ InHand \in Nat /\ Left \in Nat
    BY LeftIsNat, Zenon
  <2>2. ASSUME UNCHANGED <<workers, cpc>> PROVE InHand' = InHand
    BY <2>2 DEF InHand, Alive, Busy, Asking
  <2>3. CASE Pool!Skip
    BY <2>1, <2>2, <2>3 DEF Pool!Skip, Left
  <2>4. CASE Pool!CloseIds
    BY <2>1, <2>2, <2>4 DEF Pool!CloseIds, Left
  <2>5. CASE Pool!CloseOut
    BY <2>1, <2>2, <2>5 DEF Pool!CloseOut, Left
  <2>6. CASE Pool!TakeClosed
    BY <2>1, <2>2, <2>6 DEF Pool!TakeClosed, Left
  <2>7. ASSUME NEW c \in workers, Pool!Produce(c) PROVE Left' < Left
    <3>1. InHand' = InHand + 3
      BY <2>7, HandStep, Zenon DEF Pool!Produce
    <3>2. next' = next + 1 /\ UNCHANGED <<idOpen, outOpen, poolRet>>
      BY <2>7 DEF Pool!Produce
    <3> QED
      BY <2>1, <3>1, <3>2 DEF Left
  <2>8. ASSUME NEW c \in workers, Pool!Lookup(c) \/ Pool!LookupFails(c)
        PROVE  Left' < Left
    <3>1. InHand' = InHand - 1
      BY <2>8, HandStep DEF Pool!Lookup, Pool!LookupFails
    <3>2. UNCHANGED <<next, idOpen, outOpen, poolRet>>
      BY <2>8 DEF Pool!Lookup, Pool!LookupFails, Pool!producerVars
    <3> QED
      BY <2>1, <3>1, <3>2 DEF Left
  <2>9. ASSUME NEW c \in workers, Pool!ConsumerDone(c) PROVE Left' < Left
    <3>1. InHand' = InHand - 1
      BY <2>9, HandStep, Zenon DEF Pool!ConsumerDone
    <3>2. UNCHANGED <<next, idOpen, outOpen, poolRet>>
      BY <2>9 DEF Pool!ConsumerDone, Pool!producerVars
    <3> QED
      BY <2>1, <3>1, <3>2 DEF Left
  <2>10. ASSUME NEW c \in workers, Pool!TakeProbe(c) \/ Pool!TakeError(c)
         PROVE  Left' < Left
    <3>1. InHand' = InHand - 2
      BY <2>10, HandStep DEF Pool!TakeProbe, Pool!TakeError
    <3>2. UNCHANGED <<next, idOpen, outOpen>> /\ poolRet = "none"
      BY <2>10 DEF Pool!TakeProbe, Pool!TakeError
    <3> QED
      BY <2>1, <3>1, <3>2 DEF Left
  <2> QED
    BY <2>1, <2>3, <2>4, <2>5, <2>6, <2>7, <2>8, <2>9, <2>10
    DEF Pool!Next, Pool!Consumer
<1>2. UNCHANGED Pool!vars => UNCHANGED poolVars
  BY DEF Pool!vars, poolVars
<1>3. PoolInv /\ [Pool!Next]_(Pool!vars)
        => [Left' < Left /\ Left \in Nat]_poolVars
  BY <1>1, <1>2
<1> QED
  BY <1>3, PoolInvHolds, PoolImplemented, PTL DEF Pool!Spec
=============================================================================
