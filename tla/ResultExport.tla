---------------------------- MODULE ResultExport -----------------------------
(***************************************************************************)
(* Concurrent scrapes export one measurement of any type: the collector    *)
(* (collector.go) calls Export for the stored results in map order, and    *)
(* the registry of the scrape keeps a sample or rejects it.  Scrapes share *)
(* the package variable certFingerprint of sslcert, without a lock.        *)
(*                                                                         *)
(* The results are stored already: Add and the copying are the module      *)
(* Measurement.                                                            *)
(***************************************************************************)
EXTENDS ResultTypes

CONSTANTS
  Scrapers,   \* requests that scrape at the same time
  ProbeIds,   \* Result.PrbId()
  Docs,       \* Docs[i]: the documents the API can give for probe i, or Nil
  Results,    \* Results[t]: results of type t
  None        \* no result

(* What the decoder builds: lists are sequences, options are bytes.  The   *)
(* API's document for a probe bears its id; an error document has none,    *)
(* and no ASN either.                                                      *)
ASSUME ExportAssumption ==
  /\ \A r \in Results["ping"] :
       r.replies \in Seq(Int \cup {Nil}) /\ r.min \in Int
  /\ \A r \in Results["http"] : r.parts \in Seq(Elements(r.parts))
  /\ \A r \in Results["dns"] : r.answer # Nil =>
       /\ r.answer.options \in Seq(Elements(r.answer.options))
       /\ \A o \in Elements(r.answer.options) \ {Nil} : o \in Seq(0 .. 255)
  /\ \A i \in ProbeIds : \A d \in Docs[i] \ {Nil} :
       d.id = i \/ (d.asn4 = 0 /\ d.asn6 = 0)

VARIABLES
  type,         \* Result.Type() of the measurement
  filter,       \* cfg.FilterInvalidResults
  nsidEnabled,  \* cfg.DNS.NSIDEnabled
  docs,         \* the document each result was added with
  latest,       \* Measurement.latest
  certFingerprint,
  spc,          \* control state of each scrape
  at,           \* the probe whose result it exports
  todo,         \* the probes whose result it has still to export
  series,       \* the series its registry has accepted
  rejected,     \* the series its registry has rejected
  prints,       \* auxiliary: fingerprint it exported for each probe
  alone,        \* auxiliary: no other scrape has overlapped it
  crashed       \* "no", or what ended the process: "export" or "race"

config == <<type, filter, nsidEnabled, docs, latest>>
vars == <<config, certFingerprint, spc, at, todo, series, rejected, prints,
          alone, crashed>>

(* Add refuses what the validator refuses. *)
Added(offered) ==
  [i \in ProbeIds |->
     IF /\ offered[i] # None
        /\ filter => docs[i] # Nil /\ IsValid(type, offered[i], docs[i])
       THEN offered[i] ELSE None]

(* Only the request strategy adds results without a probe, and it drops    *)
(* the measurement when Add panics: in the validator, which asks the       *)
(* probe, or in the histogram.                                             *)
NilPassedAdd ==
  ~filter /\ \A i \in ProbeIds :
                latest[i] # None => ~ProcessPanics(type, latest[i])

Init ==
  /\ type \in Types
  /\ filter \in BOOLEAN
  /\ nsidEnabled \in IF type = "dns" THEN BOOLEAN ELSE {FALSE}
  /\ docs \in {d \in [ProbeIds -> UNION {Docs[i] : i \in ProbeIds}] :
                 \A i \in ProbeIds : d[i] \in Docs[i]}
  /\ \E offered \in [ProbeIds -> Results[type] \cup {None}] :
       latest = Added(offered)
  /\ (\E i \in ProbeIds : docs[i] = Nil) => NilPassedAdd
  /\ certFingerprint = ""
  /\ spc = [s \in Scrapers |-> "idle"]
  /\ at = [s \in Scrapers |-> None]
  /\ todo = [s \in Scrapers |-> {}]
  /\ series = [s \in Scrapers |-> {}]
  /\ rejected = [s \in Scrapers |-> {}]
  /\ prints = [s \in Scrapers |-> {}]
  /\ alone = [s \in Scrapers |-> FALSE]
  /\ crashed = "no"
-----------------------------------------------------------------------------
Goto(s, label) == spc' = [spc EXCEPT ![s] = label]

Active == {s \in Scrapers : spc[s] # "idle"}

(* A request has its own registry; Collect copies the stored results.      *)
Begin(s) ==
  /\ spc[s] = "idle"
  /\ Goto(s, "export")
  /\ todo' = [todo EXCEPT ![s] = {i \in ProbeIds : latest[i] # None}]
  /\ series' = [series EXCEPT ![s] = {}]
  /\ rejected' = [rejected EXCEPT ![s] = {}]
  /\ prints' = [prints EXCEPT ![s] = {}]
  /\ alone' = [x \in Scrapers |-> x = s /\ Active = {}]
  /\ UNCHANGED <<config, certFingerprint, at, crashed>>

(* The samples of one turn of Export that the registry refuses: the series *)
(* was collected before.  (NewRegistry does not compare with Describe.)    *)
Refused(s, sent, k) ==
  {<<sent[k].labels, m>> : m \in
     {m \in sent[k].metrics :
        \/ <<sent[k].labels, m>> \in series[s]
        \/ \E j \in 1 .. k - 1 :
             sent[j].labels = sent[k].labels /\ m \in sent[j].metrics}}

(* Registry.Gather collects what Export sends; an error does not end the   *)
(* scrape (promhttp.ContinueOnError).                                      *)
Gather(s, i, sent) ==
  /\ series' = [series EXCEPT ![s] = @ \cup
       UNION {{<<sent[k].labels, m>> : m \in sent[k].metrics} :
                k \in DOMAIN sent}]
  /\ rejected' = [rejected EXCEPT ![s] = @ \cup
       UNION {Refused(s, sent, k) : k \in DOMAIN sent}]
  /\ todo' = [todo EXCEPT ![s] = @ \ {i}]

(* Export of the result of probe i, for the types without shared state.    *)
(* A panic is in a goroutine of the registry, which has no recover.        *)
ExportResult(s, i) ==
  /\ spc[s] = "export"
  /\ i \in todo[s]
  /\ type # "sslcert"
  /\ \/ /\ ExportPanics(type, latest[i], docs[i], nsidEnabled)
        /\ crashed' = "export"
        /\ UNCHANGED <<todo, series, rejected>>
     \/ /\ ~ExportPanics(type, latest[i], docs[i], nsidEnabled)
        /\ Gather(s, i, Export(type, latest[i], docs[i], nsidEnabled, ""))
        /\ UNCHANGED crashed
  /\ UNCHANGED <<config, certFingerprint, spc, at, prints, alone>>
-----------------------------------------------------------------------------
(* sslcert.Export: the certificate's fingerprint goes through the variable *)

(* Fault: the label is read before the certificate was decoded. *)
LabelsFirst(s, i) ==
  /\ spc[s] = "export"
  /\ i \in todo[s]
  /\ type = "sslcert"
  /\ at' = [at EXCEPT ![s] = i]
  /\ Goto(s, "label")
  /\ UNCHANGED <<config, certFingerprint, todo, series, rejected, prints,
                 alone, crashed>>

(* The first certificate, if any, is decoded.                              *)
DecodeCert(s, i) ==
  /\ spc[s] = "export"
  /\ i \in todo[s]
  /\ type = "sslcert"
  /\ at' = [at EXCEPT ![s] = i]
  /\ Goto(s, IF OwnFingerprint(latest[i]) = Nil THEN "label" ELSE "write")
  /\ UNCHANGED <<config, certFingerprint, todo, series, rejected, prints,
                 alone, crashed>>

WriteFingerprint(s) ==
  /\ spc[s] = "write"
  /\ certFingerprint' = OwnFingerprint(latest[at[s]])
  /\ Goto(s, "label")
  /\ UNCHANGED <<config, at, todo, series, rejected, prints, alone, crashed>>

(* The string is a pointer and a length.  All fingerprints have the same   *)
(* length, so a read that races with a write sees one of the two values,   *)
(* unless the old one is empty: a nil pointer with the new length.         *)
Torn(s) ==
  certFingerprint = "" /\ \E x \in Scrapers \ {s} : spc[x] = "write"

(* The labels are made: the probe is asked, and the variable is read.      *)
ReadFingerprint(s) ==
  /\ spc[s] = "label"
  /\ \/ /\ ExportPanics(type, latest[at[s]], docs[at[s]], nsidEnabled)
        /\ crashed' = "export"
        /\ UNCHANGED <<spc, todo, series, rejected, prints>>
     \/ /\ ~ExportPanics(type, latest[at[s]], docs[at[s]], nsidEnabled)
        /\ Torn(s)
        /\ crashed' = "race"
        /\ UNCHANGED <<spc, todo, series, rejected, prints>>
     \/ /\ ~ExportPanics(type, latest[at[s]], docs[at[s]], nsidEnabled)
        /\ Gather(s, at[s], Export(type, latest[at[s]], docs[at[s]],
                                   nsidEnabled, certFingerprint))
        /\ prints' = [prints EXCEPT ![s] = @ \cup {<<at[s], certFingerprint>>}]
        /\ Goto(s, "export")
        /\ UNCHANGED crashed
  /\ UNCHANGED <<config, certFingerprint, at, alone>>
-----------------------------------------------------------------------------
End(s) ==
  /\ spc[s] = "export"
  /\ todo[s] = {}
  /\ Goto(s, "idle")
  /\ UNCHANGED <<config, certFingerprint, at, todo, series, rejected, prints,
                 alone, crashed>>

Next ==
  /\ crashed = "no"
  /\ \E s \in Scrapers :
       \/ Begin(s) \/ WriteFingerprint(s) \/ ReadFingerprint(s) \/ End(s)
       \/ \E i \in ProbeIds : ExportResult(s, i) \/ DecodeCert(s, i)

Spec == Init /\ [][Next]_vars
-----------------------------------------------------------------------------
Stored == {i \in ProbeIds : latest[i] # None}

(* Type invariant of the scrapes. *)
TypeOK ==
  /\ type \in Types
  /\ \A s \in Scrapers :
       /\ spc[s] \in {"idle", "export", "write", "label"}
       /\ spc[s] \in {"write", "label"} => at[s] \in todo[s]
       /\ todo[s] \subseteq Stored
  /\ crashed \in {"no", "export", "race"}

(* Two stored results whose probe is unknown: error documents, which are   *)
(* told apart by nothing.                                                  *)
UnknownTwice ==
  \E i, j \in {k \in Stored : docs[k] # Nil} :
    i # j /\ docs[i].id = docs[j].id

(* An http result that lists one target twice.                             *)
ListedTwice(r) ==
  \E j, k \in DOMAIN r.parts :
    j # k /\ r.parts[j] # Nil /\ r.parts[k] # Nil
      /\ <<r.parts[j].dst, r.parts[j].af, r.parts[j].method>>
           = <<r.parts[k].dst, r.parts[k].af, r.parts[k].method>>

(* Every sample a scrape sends is of a metric Describe announced, and its  *)
(* registry keeps it: no other sample has its labels.  Two ways to lose    *)
(* one are left: an http result with the same target twice, and, without   *)
(* the filter, two probes the API had no document for.                     *)
NothingRejected ==
  \A s \in Scrapers :
    /\ \A x \in series[s] : x[2] \in Describe[type]
    /\ rejected[s] # {} =>
         \/ type = "http" /\ \E i \in Stored : ListedTwice(latest[i])
         \/ ~filter /\ UnknownTwice

(* A scrape panics in Export only on a result it is to export for which    *)
(* Add had panicked already, in the histogram; or whose probe document has *)
(* one coordinate, which Latitude does not expect; or, without the filter, *)
(* that has no probe.  A missing answer, an empty list or an NSID of       *)
(* arbitrary bytes never ends the process.                                 *)
ExportPanicCauses ==
  crashed = "export" =>
    \E s \in Scrapers : \E i \in todo[s] :
      \/ ProcessPanics(type, latest[i])
      \/ docs[i] # Nil /\ docs[i].coords = 1
      \/ docs[i] = Nil /\ ~filter

(* A ping result whose reported minimum is that of its replies.            *)
MinIsOfReplies(r) ==
  LET rtts == {x \in Elements(r.replies) \ {Nil} : x > 0}
  IN  IF rtts = {} THEN r.min <= 0 ELSE r.min = Min(rtts)

(* The histogram counts what the gauges show: the round trip times it      *)
(* observed of a result are those exported with success 1, one by one.     *)
(* ping observes every reply and exports the minimum the probe reports:    *)
(* where that agrees with the replies, some are observed iff success is 1. *)
HistogramAgrees ==
  \A i \in {k \in Stored : docs[k] # Nil} :
    (Options[type].histogram /\ ~ProcessPanics(type, latest[i])) =>
      LET sent == Export(type, latest[i], docs[i], nsidEnabled, "")
          ok   == Pick(sent, {k \in DOMAIN sent :
                                sent[k].success /\ sent[k].rtt > 0})
          seen == ProcessResult(type, latest[i])
      IN  IF type = "ping"
            THEN MinIsOfReplies(latest[i]) => (seen # <<>> <=> ok # <<>>)
          ELSE seen = [k \in DOMAIN ok |-> ok[k].rtt]

(* With filter_invalid_results no series is exported with ASN 0.  http is  *)
(* the exception: its validator looks at the result, which has no address  *)
(* family, and its labels at that of each part.                            *)
FilteredHasASN ==
  (filter /\ type # "http") =>
    \A s \in Scrapers : \A x \in series[s] : x[1][3] > 0

(* A scrape that no other one overlaps exports every certificate under its *)
(* own fingerprint, although the label goes through a package variable.    *)
(* (A result without a certificate is exported under whichever fingerprint *)
(* was written last.)                                                      *)
AloneOwnFingerprint ==
  \A s \in Scrapers : alone[s] =>
    \A x \in prints[s] : OwnFingerprint(latest[x[1]]) \in {Nil, x[2]}
=============================================================================
