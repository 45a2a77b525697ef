------------------------------ MODULE ProbePool ------------------------------
(***************************************************************************)
(* probesForResults (atlas/helper.go): a producer sends the distinct probe *)
(* ids of the results on one unbuffered channel, a pool of consumers looks *)
(* them up and sends probes or errors on two more, a goroutine closes the  *)
(* probe channel when all consumers are done, and the caller selects.      *)
(***************************************************************************)
EXTENDS Naturals, Sequences

CONSTANTS
  Consumers,   \* goroutines a pool can have
  Results,     \* the probe ids of the results, in order
  ZeroID,      \* ID of a probe decoded from an API error document
  None         \* no id

Ids == {Results[i] : i \in DOMAIN Results}

(* What a caller has to provide. *)
PoolConstants ==
  /\ Results \in Seq(Ids)
  /\ ZeroID \notin Ids
  /\ None \notin Ids \cup {ZeroID}

VARIABLES
  workers,  \* the consumers started; none if worker.count is 0
  next,     \* index of the result the producer is at
  added,    \* ids it has sent
  idOpen,   \* its channel is open
  cpc,      \* control state of each consumer
  work,     \* the id or the probe a consumer holds
  outOpen,  \* the probe channel is open
  ret,      \* what probesForResults returned: "none", "ok" or "error"
  probes,   \* the IDs in the map it builds
  zeroed    \* auxiliary: ids the API answered with an error document

producerVars == <<next, added, idOpen>>
consumerVars == <<cpc, work>>
vars == <<workers, producerVars, consumerVars, outOpen, ret, probes, zeroed>>

Init ==
  /\ workers \in SUBSET Consumers
  /\ next = 1
  /\ added = {}
  /\ idOpen = TRUE
  /\ cpc = [c \in Consumers |-> "range"]
  /\ work = [c \in Consumers |-> None]
  /\ outOpen = TRUE
  /\ ret = "none"
  /\ probes = {}
  /\ zeroed = {}
-----------------------------------------------------------------------------
(* What the goroutines wait for. *)

(* The producer: the probe of this result was sent before; a consumer is   *)
(* ready for the id; there are no more results.                            *)
Repeated == next <= Len(Results) /\ Results[next] \in added
Wanted(c) ==
  next <= Len(Results) /\ Results[next] \notin added /\ cpc[c] = "range"
AllSent == idOpen /\ next > Len(Results)

(* A consumer: its range loop finds the channel closed.  wg.Wait(): all of *)
(* them are done.                                                          *)
Drained(c) == cpc[c] = "range" /\ ~idOpen
AllDone == outOpen /\ \A c \in workers : cpc[c] = "done"

(* The caller's select: a consumer sends on one of its two channels, or    *)
(* the probe channel is closed.                                            *)
Offers(c, channel) == ret = "none" /\ cpc[c] = channel

(* Fault: the closed channel is not recognised. *)
IgnoreClose == FALSE

SeesClosed == ret = "none" /\ ~outOpen
-----------------------------------------------------------------------------
(* Producer *)

Skip ==
  /\ Repeated
  /\ next' = next + 1
  /\ UNCHANGED <<workers, added, idOpen, consumerVars, outOpen, ret, probes,
                 zeroed>>

(* ch <- m.PrbId(), received by a consumer's range loop. *)
Produce(c) ==
  /\ Wanted(c)
  /\ cpc' = [cpc EXCEPT ![c] = "lookup"]
  /\ work' = [work EXCEPT ![c] = Results[next]]
  /\ added' = added \cup {Results[next]}
  /\ next' = next + 1
  /\ UNCHANGED <<workers, idOpen, outOpen, ret, probes, zeroed>>

CloseIds ==
  /\ AllSent
  /\ idOpen' = FALSE
  /\ UNCHANGED <<workers, next, added, consumerVars, outOpen, ret, probes,
                 zeroed>>
-----------------------------------------------------------------------------
(* Consumers *)

(* probeForID returns a probe.  probe.Get does not look at the status code *)
(* of the answer, so an error document becomes a probe with ID zero.       *)
Lookup(c) ==
  /\ cpc[c] = "lookup"
  /\ cpc' = [cpc EXCEPT ![c] = "out"]
  /\ \/ UNCHANGED <<work, zeroed>>
     \/ /\ work' = [work EXCEPT ![c] = ZeroID]
        /\ zeroed' = zeroed \cup {work[c]}
  /\ UNCHANGED <<workers, producerVars, outOpen, ret, probes>>

LookupFails(c) ==
  /\ cpc[c] = "lookup"
  /\ cpc' = [cpc EXCEPT ![c] = "err"]
  /\ work' = [work EXCEPT ![c] = None]
  /\ UNCHANGED <<workers, producerVars, outOpen, ret, probes, zeroed>>

ConsumerDone(c) ==
  /\ Drained(c)
  /\ cpc' = [cpc EXCEPT ![c] = "done"]
  /\ UNCHANGED <<workers, producerVars, work, outOpen, ret, probes, zeroed>>

(* Fault: the channel is closed as soon as the ids are. *)
CloseOutEarly ==
  /\ outOpen
  /\ ~idOpen
  /\ outOpen' = FALSE
  /\ UNCHANGED <<workers, producerVars, consumerVars, ret, probes, zeroed>>

CloseOut ==
  /\ AllDone
  /\ outOpen' = FALSE
  /\ UNCHANGED <<workers, producerVars, consumerVars, ret, probes, zeroed>>
-----------------------------------------------------------------------------
(* The caller's select *)

TakeProbe(c) ==
  /\ Offers(c, "out")
  /\ cpc' = [cpc EXCEPT ![c] = "range"]
  /\ probes' = probes \cup {work[c]}
  /\ work' = [work EXCEPT ![c] = None]
  /\ UNCHANGED <<workers, producerVars, outOpen, ret, zeroed>>

(* Fault: an error is logged and the loop goes on. *)
IgnoreError(c) ==
  /\ Offers(c, "err")
  /\ cpc' = [cpc EXCEPT ![c] = "range"]
  /\ UNCHANGED <<workers, producerVars, work, outOpen, ret, probes, zeroed>>

(* The first error is returned; nobody receives from then on. *)
TakeError(c) ==
  /\ Offers(c, "err")
  /\ cpc' = [cpc EXCEPT ![c] = "range"]
  /\ ret' = "error"
  /\ UNCHANGED <<workers, producerVars, work, outOpen, probes, zeroed>>

TakeClosed ==
  /\ SeesClosed
  /\ ret' = "ok"
  /\ UNCHANGED <<workers, producerVars, consumerVars, outOpen, probes, zeroed>>
-----------------------------------------------------------------------------
Consumer(c) ==
  Produce(c) \/ Lookup(c) \/ LookupFails(c) \/ ConsumerDone(c)
    \/ TakeProbe(c) \/ TakeError(c)

Next == Skip \/ CloseIds \/ CloseOut \/ TakeClosed
          \/ \E c \in workers : Consumer(c)

Spec == Init /\ [][Next]_vars
-----------------------------------------------------------------------------
(* Type invariant of the three channels' ends. *)
TypeOK ==
  /\ workers \subseteq Consumers
  /\ next \in 1 .. Len(Results) + 1
  /\ added \subseteq Ids
  /\ idOpen \in BOOLEAN
  /\ cpc \in [Consumers -> {"range", "lookup", "out", "err", "done"}]
  /\ work \in [Consumers -> Ids \cup {ZeroID, None}]
  /\ outOpen \in BOOLEAN
  /\ ret \in {"none", "ok", "error"}
  /\ probes \subseteq Ids \cup {ZeroID}
  /\ zeroed \subseteq Ids

(* A successful return comes after every lookup: the map has the probe of  *)
(* every result, but for ids the API answered with an error document.      *)
(* getMeasurementForID relies on it: it uses the map without a check.      *)
(* (With worker.count = 0 the map is empty and the producer is left.)      *)
CompleteOnSuccess ==
  (ret = "ok" /\ workers # {}) =>
    /\ probes \ {ZeroID} = Ids \ zeroed
    /\ ~idOpen

(* No consumer sends on the probe channel after it was closed, which would *)
(* panic outside every recover and end the process.                        *)
NoSendOnClosed ==
  ~outOpen => \A c \in workers : cpc[c] \notin {"lookup", "out"}

(* Whatever the lookups return and in whichever order, the caller is never *)
(* left waiting by a pool in which nobody can move.                        *)
NeverStuck ==
  ret = "none" =>
    \/ Repeated \/ AllSent \/ AllDone \/ SeesClosed
    \/ \E c \in workers :
         \/ Wanted(c) \/ cpc[c] = "lookup" \/ Drained(c)
         \/ Offers(c, "out") \/ Offers(c, "err")
=============================================================================
