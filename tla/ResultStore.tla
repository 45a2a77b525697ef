----------------------------- MODULE ResultStore -----------------------------
(***************************************************************************)
(* The results that travel through the streaming strategy and the map of   *)
(* exporter.Measurement objects they end up in (streamingStrategy.add in   *)
(* atlas/stream_strategy.go, Measurement.Add in exporter/measurement.go).  *)
(*                                                                         *)
(* A result is abstracted to its receipt number n (the order in which the  *)
(* workers took results off their streams), the worker it came through,    *)
(* the map key strconv.Itoa(MsmId()), its probe, and what the processing   *)
(* code will find in it:                                                   *)
(*   "result"      a decoded result of a supported measurement type        *)
(*   "unsupported" a decoded result measurementForType has no case for     *)
(*   "badBounds"   a result of a supported type whose configured histogram *)
(*                 bounds prometheus.NewHistogram panics on (two are equal)*)
(*   "poison"      a result a histogram panics on while it processes it    *)
(*                 (a null element in its list of replies, say)            *)
(*   "parseError"  a Result carrying only a ParseError: every accessor     *)
(*                 returns its zero value, so MsmId() and PrbId() are 0    *)
(*                 and Type() is the empty string                          *)
(***************************************************************************)
EXTENDS Naturals

CONSTANTS
  Workers,                \* one streaming worker per configured measurement
  Keys,                   \* keys of streamingStrategy.measurements
  ZeroKey,                \* strconv.Itoa(0)
  Probes,                 \* probe ids
  Kinds,                  \* the kinds of result the streams deliver
  FilterInvalidResults,   \* cfg.FilterInvalidResults
  MaxReceived             \* bound: results delivered by all streams together

ASSUME StoreAssumption ==
  /\ ZeroKey \notin Keys
  /\ Kinds \subseteq {"result", "unsupported", "badBounds", "poison",
                       "parseError"}
  /\ FilterInvalidResults \in BOOLEAN
  /\ MaxReceived \in Nat

Result ==
  [n : 1 .. MaxReceived, src : Workers, key : Keys \cup {ZeroKey},
   prb : Probes, kind : Kinds]

(* exporter.Measurement: latest holds per probe the receipt number of the  *)
(* stored result (0 when there is none), observed counts the completed     *)
(* ProcessResult calls of its histograms.  A measurement that is not in    *)
(* the map has created = FALSE.                                            *)
Measurement ==
  [created : BOOLEAN, latest : [Probes -> Nat], observed : Nat]

Absent ==
  [created |-> FALSE, latest |-> [p \in Probes |-> 0], observed |-> 0]

(* measurementForType fails on every type it has no case for, and panics   *)
(* if the histogram cannot be created.                                     *)
Supported(r) == r.kind \in {"result", "poison"}

(* Measurement.Add without a validator accepts every result, else those    *)
(* IsValid holds of: the probe has an ASN for the address family, and a    *)
(* traceroute has more than one hop.                                       *)
Accepts(valid) == FilterInvalidResults => valid

(* Fault: the measurement object is replaced instead of updated. *)
RecreateStored(mes, r) ==
  [created  |-> TRUE,
   latest   |-> [Absent.latest EXCEPT ![r.prb] = r.n],
   observed |-> IF r.kind = "poison" THEN 0 ELSE 1]

(* Measurement.Add on an accepted result. *)
Stored(mes, r) ==
  [created  |-> TRUE,
   latest   |-> [mes.latest EXCEPT ![r.prb] = r.n],
   observed |-> IF r.kind = "poison" THEN mes.observed ELSE mes.observed + 1]

(* streamingStrategy.add: create the object if needed, then Measurement.Add *)
AddTo(store, r, valid) ==
  IF Accepts(valid)
    THEN [store EXCEPT ![r.key] = Stored(@, r)]
    ELSE [store EXCEPT ![r.key].created = TRUE]
=============================================================================
