------------------------- MODULE ResultExportProofs --------------------------
(***************************************************************************)
(* What scrapes of a measurement export, for any scrapers, probes and      *)
(* results.                                                                *)
(*                                                                         *)
(* The fingerprint label: while a scrape is alone nobody else writes the   *)
(* variable (Solo), so what it reads is what it wrote, if its certificate  *)
(* made it write (Own).  The NSID label: every byte becomes ASCII.  The    *)
(* registry: a series it holds bears the id of a probe that was exported   *)
(* already (FromDone).  The histograms: what they observe of a list is     *)
(* what is exported of it, by induction on its length.                     *)
(***************************************************************************)
EXTENDS ResultExport, NaturalsInduction, WellFoundedInduction, TLAPS

Typed ==
  /\ spc \in [Scrapers -> {"idle", "export", "write", "label"}]
  /\ at \in [Scrapers -> ProbeIds \cup {None}]
  /\ DOMAIN prints = Scrapers

Solo ==
  \A s \in Scrapers : alone[s] => \A x \in Scrapers \ {s} : spc[x] = "idle"

Own ==
  \A s \in Scrapers : (alone[s] /\ spc[s] = "label") =>
    OwnFingerprint(latest[at[s]]) \in {Nil, certFingerprint}

Inv == Typed /\ Solo /\ Own /\ AloneOwnFingerprint

USE DEF Goto, config

LEMMA BeginStep ==
  ASSUME Inv, NEW s \in Scrapers, Begin(s)
  PROVE  Inv'
<1>1. \A x \in Scrapers : alone'[x] => x = s /\ Active = {}
  BY Zenon DEF Begin
<1>2. spc' = [spc EXCEPT ![s] = "export"] /\ UNCHANGED at
      /\ prints' = [prints EXCEPT ![s] = {}]
  BY DEF Begin
<1>3. Typed'
  BY <1>2 DEF Inv, Typed
<1>4. Solo' /\ Own' /\ AloneOwnFingerprint'
  BY <1>1, <1>2 DEF Inv, Typed, Solo, Own, AloneOwnFingerprint, Active
<1> QED
  BY <1>3, <1>4 DEF Inv

LEMMA ReadStep ==
  ASSUME Inv, NEW s \in Scrapers, ReadFingerprint(s)
  PROVE  Inv'
<1>1. CASE UNCHANGED <<spc, prints>>
  BY <1>1 DEF ReadFingerprint, Inv, Typed, Solo, Own, AloneOwnFingerprint
<1>2. CASE /\ prints' = [prints EXCEPT ![s] =
                           @ \cup {<<at[s], certFingerprint>>}]
           /\ spc' = [spc EXCEPT ![s] = "export"]
  <2>1. /\ spc[s] = "label"
        /\ UNCHANGED <<latest, certFingerprint, at, alone>>
    BY DEF ReadFingerprint
  <2>2. Typed' /\ Solo' /\ Own'
    BY <1>2, <2>1 DEF Inv, Typed, Solo, Own
  <2>3. AloneOwnFingerprint'
    BY <1>2, <2>1 DEF Inv, Typed, Own, AloneOwnFingerprint
  <2> QED
    BY <2>2, <2>3 DEF Inv
<1> QED
  BY <1>1, <1>2 DEF ReadFingerprint

(* A scrape no other one overlaps exports each certificate under its own   *)
(* fingerprint, although it goes through the package variable              *)
(* certFingerprint (sslcert/exporter.go).                                  *)
THEOREM AloneOwnFingerprintHolds == Spec => []AloneOwnFingerprint
<1>1. Init => Inv
  <2> SUFFICES ASSUME Init PROVE Inv
    OBVIOUS
  <2>1. \A s \in Scrapers : spc[s] = "idle" /\ prints[s] = {}
    BY Zenon DEF Init
  <2>2. Typed
    BY Zenon DEF Init, Typed
  <2> QED
    BY <2>1, <2>2 DEF Inv, Solo, Own, AloneOwnFingerprint
<1>2. Inv /\ [Next]_vars => Inv'
  <2> SUFFICES ASSUME Inv, [Next]_vars PROVE Inv'
    OBVIOUS
  <2> USE DEF Inv, Typed, Solo, Own, AloneOwnFingerprint
  <2>1. ASSUME NEW s \in Scrapers, WriteFingerprint(s) PROVE Inv'
    BY <2>1 DEF WriteFingerprint
  <2>2. ASSUME NEW s \in Scrapers, End(s) PROVE Inv'
    BY <2>2 DEF End
  <2>3. ASSUME NEW s \in Scrapers, NEW i \in ProbeIds, ExportResult(s, i)
        PROVE  Inv'
    BY <2>3, Zenon DEF ExportResult
  <2>4. ASSUME NEW s \in Scrapers, NEW i \in ProbeIds, DecodeCert(s, i)
        PROVE  Inv'
    BY <2>4 DEF DecodeCert
  <2>5. CASE UNCHANGED vars
    BY <2>5 DEF vars
  <2> QED
    BY <2>1, <2>2, <2>3, <2>4, <2>5, BeginStep, ReadStep DEF Next
<1>3. Inv => AloneOwnFingerprint
  BY DEF Inv
<1> QED
  BY <1>1, <1>2, <1>3, PTL DEF Spec
-----------------------------------------------------------------------------
(* What one call of Export sends *)

(* One turn of a type's loop: labels of probe p, described metrics.        *)
Turn(t, r, p, x) ==
  /\ x.labels[1] = p.id
  /\ x.metrics \subseteq Describe[t]
  /\ t # "http" => x.labels[3] = ASNForIPVersion(p, r.af)

LEMMA Described ==
  /\ Describe["ping"] = PingDescribe
  /\ Describe["traceroute"] = TracerouteDescribe
  /\ Describe["ntp"] = NtpDescribe
  /\ Describe["dns"] = DnsDescribe
  /\ Describe["http"] = HttpDescribe
  /\ Describe["sslcert"] = SslcertDescribe
  BY DEF Describe

LEMMA SentTurn ==
  ASSUME NEW t \in Types \ {"http"}, NEW r, NEW p, NEW more, NEW ok, NEW rtt,
         NEW ms, ms \subseteq Describe[t]
  PROVE  LET x == Sent(Labels(p, r.dst, r.af, more), ok, rtt, ms)
         IN  Turn(t, r, p, x)
  BY DEF Turn, Sent, Labels

LEMMA OneTurn ==
  ASSUME NEW t \in Types \ {"http"}, NEW r, NEW p, NEW nsid, NEW print
  PROVE  \E x : Export(t, r, p, nsid, print) = <<x>> /\ Turn(t, r, p, x)
<1>1. CASE t = "ping"
  BY <1>1, SentTurn, Described, ZenonT(30)
  DEF Export, PingExport, PingDescribe, If
<1>2. CASE t = "traceroute"
  BY <1>2, SentTurn, Described, Zenon
  DEF Export, TracerouteExport, TracerouteDescribe, If
<1>3. CASE t = "ntp"
  BY <1>3, SentTurn, Described, Zenon
  DEF Export, NtpExport, NtpDescribe, If
<1>4. CASE t = "dns"
  BY <1>4, SentTurn, Described, ZenonT(30)
  DEF Export, DnsExport, DnsDescribe, If
<1>5. CASE t = "sslcert"
  BY <1>5, SentTurn, Described, Zenon
  DEF Export, SslcertExport, SslcertDescribe, If
<1> QED
  BY <1>1, <1>2, <1>3, <1>4, <1>5 DEF Types

LEMMA HttpTurns ==
  ASSUME NEW r, NEW p, NEW nsid, NEW print
  PROVE  LET sent == Export("http", r, p, nsid, print)
         IN  /\ DOMAIN sent = DOMAIN r.parts
             /\ \A k \in DOMAIN sent :
                  /\ Turn("http", r, p, sent[k])
                  /\ sent[k].labels[2] = r.parts[k].dst
                  /\ sent[k].labels[4] = r.parts[k].af
                  /\ sent[k].labels[5] = r.parts[k].method
<1>1. Export("http", r, p, nsid, print) = HttpExport(r, p)
  BY DEF Export
<1>2. DOMAIN HttpExport(r, p) = DOMAIN r.parts
  BY DEF HttpExport
<1>3. ASSUME NEW k \in DOMAIN r.parts
      PROVE  /\ Turn("http", r, p, HttpExport(r, p)[k])
             /\ HttpExport(r, p)[k].labels[2] = r.parts[k].dst
             /\ HttpExport(r, p)[k].labels[4] = r.parts[k].af
             /\ HttpExport(r, p)[k].labels[5] = r.parts[k].method
  BY Described DEF HttpExport, Turn, HttpDescribe, Sent, Labels, If
<1> QED
  BY <1>1, <1>2, <1>3
-----------------------------------------------------------------------------
(* The NSID label is valid UTF-8, whatever the bytes of the option.        *)

(* A nonempty set of numbers has a least element. *)
LEMMA LeastNat ==
  ASSUME NEW T, T \subseteq Nat, T # {}
  PROVE  \E m \in T : \A k \in T : m <= k
<1> DEFINE R == {p \in Nat \X Nat : p[1] < p[2]}
<1>1. IsWellFoundedOn(R, Nat)
  BY NatLessThanWellFounded DEF OpToRel
<1>2. \A x, y \in Nat : y < x => <<y, x>> \in R
  OBVIOUS
<1> HIDE DEF R
<1>3. PICK x \in T : \A y \in T : <<y, x>> \notin R
  BY <1>1, WFMin, Zenon
<1>4. ASSUME NEW y \in T PROVE ~(y < x)
  BY <1>2, <1>3, Zenon
<1> QED
  BY <1>4

LEMMA SeqElement ==
  ASSUME NEW S, NEW s \in Seq(S)
  PROVE  /\ Len(s) \in Nat /\ DOMAIN s = 1 .. Len(s)
         /\ \A n \in DOMAIN s : s[n] \in S
  OBVIOUS

LEMMA HexDigit ==
  ASSUME NEW bytes \in Seq(0 .. 255), NEW n \in 1 .. Len(bytes)
  PROVE  /\ bytes[n] \in 0 .. 255
         /\ bytes[n] \div 16 \in 0 .. 15
         /\ bytes[n] % 16 \in 0 .. 15
<1>1. bytes[n] \in 0 .. 255
  BY SeqElement, ZenonT(60)
<1>2. ASSUME NEW x \in 0 .. 255
      PROVE  x \div 16 \in 0 .. 15 /\ x % 16 \in 0 .. 15
  OBVIOUS
<1> QED
  BY <1>1, <1>2, Zenon

LEMMA HexEncodeASCII ==
  ASSUME NEW bytes \in Seq(0 .. 255)
  PROVE  \A b \in Elements(HexEncode(bytes)) : b \in 0 .. 127
<1> DEFINE Digit(d) == IF d < 10 THEN 48 + d ELSE 87 + d
<1>1. ASSUME NEW d \in 0 .. 15 PROVE Digit(d) \in 0 .. 127
  OBVIOUS
<1>2. ASSUME NEW k \in 1 .. 2 * Len(bytes)
      PROVE  HexEncode(bytes)[k] \in 0 .. 127
  <2>1. HexEncode(bytes)[k]
          = IF k % 2 = 1 THEN Digit(bytes[(k + 1) \div 2] \div 16)
                         ELSE Digit(bytes[k \div 2] % 16)
    BY Zenon DEF HexEncode
  <2> HIDE DEF Digit
  <2>2. Len(bytes) \in Nat
    OBVIOUS
  <2>3. k % 2 = 1 => (k + 1) \div 2 \in 1 .. Len(bytes)
    BY <2>2
  <2>4. k % 2 # 1 => k \div 2 \in 1 .. Len(bytes)
    BY <2>2
  <2>5. CASE k % 2 = 1
    <3>1. bytes[(k + 1) \div 2] \div 16 \in 0 .. 15
      BY <2>3, <2>5, HexDigit
    <3>2. HexEncode(bytes)[k] = Digit(bytes[(k + 1) \div 2] \div 16)
      BY <2>1, <2>5, Zenon
    <3> QED
      BY <1>1, <3>1, <3>2, Zenon
  <2>6. CASE k % 2 # 1
    <3>1. bytes[k \div 2] % 16 \in 0 .. 15
      BY <2>4, <2>6, HexDigit
    <3>2. HexEncode(bytes)[k] = Digit(bytes[k \div 2] % 16)
      BY <2>1, <2>6, Zenon
    <3> QED
      BY <1>1, <3>1, <3>2, ZenonT(30)
  <2> QED
    BY <2>5, <2>6, Zenon
<1>3. DOMAIN HexEncode(bytes) = 1 .. 2 * Len(bytes)
  BY DEF HexEncode
<1> QED
  BY <1>2, <1>3, ZenonT(30) DEF Elements

LEMMA NsidASCII ==
  ASSUME NEW options, options \in Seq(Elements(options)),
         \A o \in Elements(options) \ {Nil} : o \in Seq(0 .. 255)
  PROVE  \A b \in Elements(ExtractNsid(options)) : b \in 0 .. 127
<1> DEFINE nsids == {k \in DOMAIN options : options[k] # Nil}
           raw == options[Min(nsids)]
<1>1. CASE nsids = {}
  BY <1>1 DEF ExtractNsid, Elements
<1>2. CASE nsids # {}
  <2>1. nsids \subseteq Nat
    OBVIOUS
  <2>2. \E m \in nsids : \A k \in nsids : m <= k
    BY <1>2, <2>1, LeastNat, Zenon
  <2>3. Min(nsids) \in nsids
    BY <2>2, Zenon DEF Min
  <2>4. raw \in Seq(0 .. 255)
    BY <2>3 DEF Elements
  <2>5. ExtractNsid(options)
          = IF IsASCIIPrintable(raw) THEN raw ELSE HexEncode(raw)
    BY <1>2, Zenon DEF ExtractNsid
  <2>6. ASSUME IsASCIIPrintable(raw)
        PROVE  \A b \in Elements(raw) : b \in 0 .. 127
    <3> SUFFICES ASSUME NEW b \in Elements(raw) PROVE b \in 0 .. 127
      BY Zenon
    <3>1. b >= 32 /\ b <= 126
      BY <2>6, Zenon DEF IsASCIIPrintable
    <3>2. PICK n \in DOMAIN raw : b = raw[n]
      BY Zenon DEF Elements
    <3> HIDE DEF raw, nsids
    <3>3. b \in 0 .. 255
      BY <2>4, <3>2, SeqElement, ZenonT(30)
    <3> QED
      BY <3>1, <3>3
  <2> QED
    BY <2>4, <2>5, <2>6, HexEncodeASCII, Zenon
<1> QED
  BY <1>1, <1>2, Zenon

LEMMA DnsLabel ==
  ASSUME NEW r \in Results["dns"], NEW nsid
  PROVE  ~LabelPanics(Nsid(r, nsid))
<1> DEFINE text == IF nsid /\ r.answer # Nil
                     THEN ExtractNsid(r.answer.options) ELSE <<>>
<1>1. Nsid(r, nsid) = text
  BY DEF Nsid
<1>2. ASSUME NEW b \in Elements(text) PROVE b \in 0 .. 127
  <2>1. CASE r.answer # Nil
    <3>1. /\ r.answer.options \in Seq(Elements(r.answer.options))
          /\ \A o \in Elements(r.answer.options) \ {Nil} :
               o \in Seq(0 .. 255)
      BY <2>1, ExportAssumption, Zenon
    <3>2. \A c \in Elements(ExtractNsid(r.answer.options)) : c \in 0 .. 127
      BY <3>1, NsidASCII, Zenon
    <3>3. CASE nsid
      BY <2>1, <3>2, <3>3, Zenon
    <3>4. CASE ~nsid
      BY <3>4 DEF Elements
    <3> QED
      BY <3>3, <3>4, Zenon
  <2>2. CASE r.answer = Nil
    BY <2>2 DEF Elements
  <2> QED
    BY <2>1, <2>2, Zenon
<1> HIDE DEF text
<1>3. ASSUME NEW b \in Elements(text) PROVE ~(b > 127)
  <2>1. b \in 0 .. 127
    BY <1>2
  <2> QED
    BY <2>1
<1> QED
  BY <1>1, <1>3, Zenon DEF LabelPanics
-----------------------------------------------------------------------------
(* The registry of a scrape.  A series in it bears the id of a probe the   *)
(* scrape is through with (FromDone), so a sample of the next probe is new *)
(* unless two probes share an id.                                          *)

(* What does not change: a stored result is one of its type, and with the  *)
(* filter on its validator has accepted it.                                *)
Configured ==
  /\ type \in Types
  /\ \A i \in Stored :
       /\ latest[i] \in Results[type]
       /\ docs[i] \in Docs[i]
       /\ filter => /\ docs[i] # Nil
                    /\ ASNForIPVersion(docs[i], latest[i].af) > 0

Walking ==
  /\ todo \in [Scrapers -> SUBSET Stored]
  /\ DOMAIN series = Scrapers /\ DOMAIN rejected = Scrapers
  /\ spc \in [Scrapers -> {"idle", "export", "write", "label"}]
  /\ DOMAIN at = Scrapers
  /\ \A s \in Scrapers : spc[s] \in {"write", "label"} =>
       at[s] \in todo[s] /\ type = "sslcert"

FromDone ==
  \A s \in Scrapers : \A x \in series[s] :
    \E i \in Stored \ todo[s] : docs[i] # Nil /\ x[1][1] = docs[i].id

Reasons ==
  \/ type = "http" /\ \E i \in Stored : ListedTwice(latest[i])
  \/ ~filter /\ UnknownTwice

WalkInv ==
  /\ Configured /\ Walking /\ FromDone
  /\ FilteredHasASN /\ NothingRejected /\ ExportPanicCauses

(* With the filter on no stored result has an error document for a probe,  *)
(* so the ids differ.                                                      *)
LEMMA FilterTellsApart ==
  ASSUME Configured, filter PROVE ~UnknownTwice
<1>1. ASSUME NEW i \in Stored PROVE docs[i].id = i
  <2>1. docs[i] # Nil /\ ASNForIPVersion(docs[i], latest[i].af) > 0
    BY DEF Configured
  <2>2. docs[i].id = i \/ (docs[i].asn4 = 0 /\ docs[i].asn6 = 0)
    BY <2>1, ExportAssumption DEF Configured, Stored
  <2>3. ASSUME docs[i].asn4 = 0, docs[i].asn6 = 0
        PROVE  ASNForIPVersion(docs[i], latest[i].af) = 0
    BY <2>3, Zenon DEF ASNForIPVersion
  <2>4. ~(0 > 0)
    OBVIOUS
  <2> QED
    BY <2>1, <2>2, <2>3, <2>4, Zenon
<1> QED
  BY <1>1, Zenon DEF UnknownTwice

(* What an Export that does not panic sends for the result of probe i. *)
Proper(i, sent) ==
  /\ \A k \in DOMAIN sent :
       /\ docs[i] # Nil
       /\ sent[k].labels[1] = docs[i].id
       /\ sent[k].metrics \subseteq Describe[type]
       /\ (filter /\ type # "http") => sent[k].labels[3] > 0
  /\ \A k \in DOMAIN sent : \A h \in 1 .. k - 1 :
       sent[h].labels = sent[k].labels =>
         type = "http" /\ ListedTwice(latest[i])

LEMMA ExportProper ==
  ASSUME Configured, NEW i \in Stored, NEW print,
         ~ExportPanics(type, latest[i], docs[i], nsidEnabled)
  PROVE  Proper(i, Export(type, latest[i], docs[i], nsidEnabled, print))
<1> DEFINE sent == Export(type, latest[i], docs[i], nsidEnabled, print)
<1>1. CASE type # "http"
  <2>1. type \in Types \ {"http"}
    BY <1>1 DEF Configured
  <2>2. PICK x : sent = <<x>> /\ Turn(type, latest[i], docs[i], x)
    BY <2>1, OneTurn, Zenon
  <2>6. docs[i] # Nil
    BY <1>1, Zenon DEF ExportPanics, ProbePanics
  <2> HIDE DEF sent
  <2>3. DOMAIN sent = {1} /\ sent[1] = x
    BY <2>2
  <2>4. filter => x.labels[3] > 0
    BY <1>1, <2>2, Zenon DEF Configured, Turn
  <2>5. 1 .. 1 - 1 = {}
    OBVIOUS
  <2> QED
    BY <1>1, <2>2, <2>3, <2>4, <2>5, <2>6, Zenon DEF Proper, Turn, sent
<1>2. CASE type = "http"
  <2> DEFINE parts == latest[i].parts
  <2>1. parts \in Seq(Elements(parts)) /\ Nil \notin Elements(parts)
    BY <1>2, ExportAssumption, Zenon
    DEF Configured, ExportPanics, HttpWalkPanics
  <2>2. /\ DOMAIN sent = DOMAIN parts
        /\ \A k \in DOMAIN sent :
             /\ Turn("http", latest[i], docs[i], sent[k])
             /\ sent[k].labels[2] = parts[k].dst
             /\ sent[k].labels[4] = parts[k].af
             /\ sent[k].labels[5] = parts[k].method
    <3>1. sent = Export("http", latest[i], docs[i], nsidEnabled, print)
      BY <1>2
    <3> HIDE DEF sent
    <3> QED
      BY <3>1, HttpTurns
  <2>5. parts # <<>> => docs[i] # Nil
    BY <1>2, Zenon DEF ExportPanics, ProbePanics
  <2> HIDE DEF sent, parts
  <2>6. ASSUME NEW k \in DOMAIN sent PROVE docs[i] # Nil
    BY <2>2, <2>5, <2>6
  <2>3. Len(parts) \in Nat /\ DOMAIN parts = 1 .. Len(parts)
    BY <2>1, SeqElement
  <2>4. ASSUME NEW k \in DOMAIN sent, NEW h \in 1 .. k - 1,
               sent[h].labels = sent[k].labels
        PROVE  ListedTwice(latest[i])
    <3>1. h \in DOMAIN parts /\ k \in DOMAIN parts /\ h # k
      BY <2>2, <2>3, <2>4
    <3>2. parts[h] # Nil /\ parts[k] # Nil
      BY <2>1, <3>1, Zenon DEF Elements
    <3>3. /\ parts[h].dst = parts[k].dst /\ parts[h].af = parts[k].af
          /\ parts[h].method = parts[k].method
      BY <2>2, <2>4, <3>1, Zenon
    <3> QED
      BY <3>1, <3>2, <3>3, Zenon DEF ListedTwice, parts
  <2> QED
    BY <1>2, <2>2, <2>4, <2>6, Zenon DEF Proper, Turn, sent
<1> QED
  BY <1>1, <1>2, Zenon

(* The registry takes what a proper Export sends.                          *)
LEMMA GatherStep ==
  ASSUME WalkInv, NEW s \in Scrapers, NEW i \in todo[s], NEW sent,
         Proper(i, sent), Gather(s, i, sent), UNCHANGED config,
         spc' = [spc EXCEPT ![s] = "export"], UNCHANGED <<at, crashed>>,
         crashed = "no"
  PROVE  WalkInv'
<1>1. /\ series' = [series EXCEPT ![s] = @ \cup
           UNION {{<<sent[k].labels, m>> : m \in sent[k].metrics} :
                    k \in DOMAIN sent}]
      /\ rejected' = [rejected EXCEPT ![s] = @ \cup
           UNION {Refused(s, sent, k) : k \in DOMAIN sent}]
      /\ todo' = [todo EXCEPT ![s] = @ \ {i}]
  BY DEF Gather
<1>2. Stored' = Stored /\ i \in Stored
  BY DEF Stored, WalkInv, Walking
<1>3. Configured' /\ ExportPanicCauses'
  BY <1>2 DEF WalkInv, Configured, ExportPanicCauses
<1>4. Walking'
  BY <1>1, <1>2 DEF WalkInv, Walking
<1>5. ASSUME NEW x \in series'[s], x \notin series[s]
      PROVE  \E k \in DOMAIN sent : /\ x[1] = sent[k].labels
                                    /\ x[2] \in sent[k].metrics
  BY <1>1, <1>5 DEF WalkInv, Walking
<1>6. FromDone'
  <2> SUFFICES ASSUME NEW z \in Scrapers, NEW x \in series'[z]
               PROVE  \E h \in Stored \ todo'[z] :
                        docs[h] # Nil /\ x[1][1] = docs[h].id
    BY <1>2 DEF FromDone
  <2>1. i \notin todo'[s] /\ todo'[z] \subseteq todo[z]
    BY <1>1 DEF WalkInv, Walking
  <2>2. CASE x \in series[z]
    BY <2>1, <2>2 DEF WalkInv, FromDone
  <2>3. CASE x \notin series[z]
    <3>1. z = s
      BY <1>1, <2>3 DEF WalkInv, Walking
    <3>2. docs[i] # Nil /\ x[1][1] = docs[i].id
      BY <1>5, <2>3, <3>1 DEF Proper
    <3> QED
      BY <1>2, <2>1, <3>1, <3>2
  <2> QED
    BY <2>2, <2>3
<1>7. FilteredHasASN'
  <2> SUFFICES ASSUME filter, type # "http", NEW z \in Scrapers,
                      NEW x \in series'[z]
               PROVE  x[1][3] > 0
    BY DEF FilteredHasASN
  <2>1. CASE x \in series[z]
    BY <2>1 DEF WalkInv, FilteredHasASN
  <2>2. CASE x \notin series[z]
    <3>1. z = s
      BY <1>1, <2>2 DEF WalkInv, Walking
    <3> QED
      BY <1>5, <2>2, <3>1 DEF Proper
  <2> QED
    BY <2>1, <2>2
<1>8. NothingRejected'
  <2>1. Reasons => Reasons'
    BY <1>2 DEF Reasons, UnknownTwice
  <2>2. ASSUME NEW k \in DOMAIN sent, NEW y \in Refused(s, sent, k)
        PROVE  Reasons
    <3>1. PICK m \in sent[k].metrics :
            \/ <<sent[k].labels, m>> \in series[s]
            \/ \E h \in 1 .. k - 1 :
                 sent[h].labels = sent[k].labels /\ m \in sent[h].metrics
      BY <2>2, Zenon DEF Refused
    <3>3. CASE <<sent[k].labels, m>> \in series[s]
      <4>1. PICK h \in Stored \ todo[s] :
              docs[h] # Nil /\ sent[k].labels[1] = docs[h].id
        BY <3>3 DEF WalkInv, FromDone
      <4>2. docs[i] # Nil /\ docs[h].id = docs[i].id /\ h # i
        BY <4>1 DEF Proper
      <4> QED
        BY <1>2, <4>1, <4>2, FilterTellsApart, Zenon DEF WalkInv, Reasons,
           UnknownTwice
    <3>4. CASE \E h \in 1 .. k - 1 : sent[h].labels = sent[k].labels
      BY <1>2, <3>4, Zenon DEF Proper, Reasons
    <3> QED
      BY <3>1, <3>3, <3>4
  <2>6. ASSUME NEW z \in Scrapers, NEW x \in series'[z]
        PROVE  x[2] \in Describe[type]
    <3>1. CASE x \in series[z]
      BY <3>1 DEF WalkInv, NothingRejected
    <3>2. CASE x \notin series[z]
      <4>1. z = s
        BY <1>1, <3>2 DEF WalkInv, Walking
      <4> QED
        BY <1>5, <3>2, <4>1 DEF Proper
    <3> QED
      BY <3>1, <3>2
  <2>3. SUFFICES ASSUME NEW z \in Scrapers, rejected'[z] # {}
                 PROVE  Reasons'
    BY <2>6 DEF NothingRejected, Reasons
  <2>4. CASE rejected[z] # {}
    BY <2>1, <2>4 DEF WalkInv, NothingRejected, Reasons
  <2>5. CASE rejected[z] = {}
    <3>1. z = s
      BY <1>1, <2>3, <2>5 DEF WalkInv, Walking
    <3>2. \E k \in DOMAIN sent : Refused(s, sent, k) # {}
      BY <1>1, <2>3, <2>5, <3>1 DEF WalkInv, Walking
    <3> QED
      BY <2>1, <2>2, <3>2
  <2> QED
    BY <2>4, <2>5
<1> QED
  BY <1>3, <1>4, <1>6, <1>7, <1>8 DEF WalkInv

(* What makes Export panic is one of the causes that are left. *)
LEMMA PanicCause ==
  ASSUME Configured, NEW i \in Stored,
         ExportPanics(type, latest[i], docs[i], nsidEnabled)
  PROVE  \/ ProcessPanics(type, latest[i])
         \/ docs[i] # Nil /\ docs[i].coords = 1
         \/ docs[i] = Nil /\ ~filter
<1>1. type = "dns" => latest[i] \in Results["dns"]
  BY DEF Configured
<1>2. filter => docs[i] # Nil
  BY DEF Configured
<1>3. type # "dns" \/ ~LabelPanics(Nsid(latest[i], nsidEnabled))
  BY <1>1, DnsLabel, Zenon
<1> QED
  BY <1>2, <1>3, Zenon DEF ExportPanics, ProbePanics, ProcessPanics

(* The panic of an Export, where nothing else changes. *)
LEMMA PanicStep ==
  ASSUME WalkInv, NEW s \in Scrapers, NEW i \in todo[s],
         ExportPanics(type, latest[i], docs[i], nsidEnabled),
         UNCHANGED <<config, spc, at, todo, series, rejected>>
  PROVE  WalkInv'
<1>1. Stored' = Stored /\ i \in Stored
  BY DEF Stored, WalkInv, Walking
<1>2. Configured' /\ Walking' /\ FromDone' /\ FilteredHasASN'
  BY <1>1, ZenonT(30)
  DEF WalkInv, Configured, Walking, FromDone, FilteredHasASN
<1>3. NothingRejected'
  BY <1>1 DEF WalkInv, NothingRejected, UnknownTwice
<1>4. ExportPanicCauses'
  BY <1>1, PanicCause, Zenon DEF WalkInv, ExportPanicCauses
<1> QED
  BY <1>2, <1>3, <1>4 DEF WalkInv

LEMMA ExportStep ==
  ASSUME WalkInv, crashed = "no", NEW s \in Scrapers, NEW i \in ProbeIds,
         ExportResult(s, i)
  PROVE  WalkInv'
<1> DEFINE Panics == ExportPanics(type, latest[i], docs[i], nsidEnabled)
           sent == Export(type, latest[i], docs[i], nsidEnabled, "")
<1>1. /\ i \in todo[s] /\ i \in Stored /\ spc[s] = "export"
      /\ UNCHANGED <<config, spc, at>>
  BY Zenon DEF ExportResult, WalkInv, Walking
<1>2. CASE Panics
  <2>1. UNCHANGED <<config, spc, at, todo, series, rejected>>
    BY <1>1, <1>2, Zenon DEF ExportResult
  <2> QED
    BY <1>1, <1>2, <2>1, PanicStep, Zenon
<1>3. CASE ~Panics
  <2>1. Gather(s, i, sent) /\ UNCHANGED crashed
    BY <1>3, Zenon DEF ExportResult
  <2>2. Proper(i, sent)
    BY <1>1, <1>3, ExportProper, Zenon DEF WalkInv
  <2> HIDE DEF Panics, sent
  <2>3. spc' = [spc EXCEPT ![s] = "export"]
    BY <1>1 DEF WalkInv, Walking
  <2> QED
    BY <1>1, <2>1, <2>2, <2>3, GatherStep, Zenon
<1> QED
  BY <1>2, <1>3

LEMMA ReadStepWalk ==
  ASSUME WalkInv, crashed = "no", NEW s \in Scrapers, ReadFingerprint(s)
  PROVE  WalkInv'
<1> DEFINE i == at[s]
           Panics == ExportPanics(type, latest[i], docs[i], nsidEnabled)
           sent == Export(type, latest[i], docs[i], nsidEnabled,
                          certFingerprint)
<1>1. /\ i \in todo[s] /\ i \in Stored /\ type = "sslcert"
      /\ UNCHANGED <<config, at>>
  BY DEF ReadFingerprint, WalkInv, Walking
<1>2. CASE crashed' = "race" /\ UNCHANGED <<spc, todo, series, rejected>>
  <2>1. Stored' = Stored
    BY <1>1 DEF Stored
  <2> HIDE DEF sent
  <2>2. Configured' /\ Walking' /\ FromDone' /\ FilteredHasASN'
    BY <1>1, <1>2, <2>1, ZenonT(30)
    DEF WalkInv, Configured, Walking, FromDone, FilteredHasASN
  <2>3. NothingRejected' /\ ExportPanicCauses'
    BY <1>1, <1>2, <2>1
    DEF WalkInv, NothingRejected, UnknownTwice, ExportPanicCauses
  <2> QED
    BY <2>2, <2>3 DEF WalkInv
<1>3. CASE /\ ~Panics
           /\ Gather(s, i, sent) /\ UNCHANGED crashed
           /\ spc' = [spc EXCEPT ![s] = "export"]
  <2>2. Proper(i, sent)
    BY <1>1, <1>3, ExportProper, Zenon DEF WalkInv
  <2> HIDE DEF sent, i, Panics
  <2> QED
    BY <1>1, <1>3, <2>2, GatherStep, Zenon
<1>4. CASE Panics /\ UNCHANGED <<spc, todo, series, rejected>>
  <2>1. UNCHANGED <<config, spc, at, todo, series, rejected>>
    BY <1>1, <1>4, Zenon
  <2> QED
    BY <1>1, <1>4, <2>1, PanicStep, Zenon
<1> QED
  BY <1>2, <1>3, <1>4, Zenon DEF ReadFingerprint

LEMMA WalkInvInit == Init => WalkInv
<1> SUFFICES ASSUME Init PROVE WalkInv
  OBVIOUS
<1>1. PICK offered \in [ProbeIds -> Results[type] \cup {None}] :
        latest = Added(offered)
  BY Zenon DEF Init
<1>2. \A i \in Stored :
        /\ latest[i] = offered[i] /\ offered[i] # None
        /\ filter => docs[i] # Nil /\ IsValid(type, offered[i], docs[i])
  BY <1>1 DEF Added, Stored
<1>3. type \in Types /\ \A i \in ProbeIds : docs[i] \in Docs[i]
  BY Zenon DEF Init
<1>4. \A r, p : IsValid(type, r, p) => ASNForIPVersion(p, r.af) > 0
  BY Zenon DEF IsValid, TracerouteIsValid, DefaultIsValid
<1>5. Configured
  BY <1>1, <1>2, <1>3, <1>4, Zenon DEF Configured, Stored
<1>6. /\ \A s \in Scrapers : /\ series[s] = {} /\ rejected[s] = {}
                             /\ spc[s] = "idle"
      /\ todo = [s \in Scrapers |-> {}] /\ DOMAIN series = Scrapers
      /\ DOMAIN rejected = Scrapers /\ DOMAIN at = Scrapers
      /\ spc = [s \in Scrapers |-> "idle"]
      /\ crashed = "no"
  BY Zenon DEF Init
<1> QED
  BY <1>5, <1>6 DEF WalkInv, Walking, FromDone, FilteredHasASN,
     NothingRejected, ExportPanicCauses

LEMMA WalkInvStep == WalkInv /\ [Next]_vars => WalkInv'
<1> SUFFICES ASSUME WalkInv, [Next]_vars PROVE WalkInv'
  OBVIOUS
<1>1. ASSUME UNCHANGED <<config, crashed>>,
             crashed = "no" \/ UNCHANGED todo
      PROVE  Stored' = Stored /\ Configured' /\ ExportPanicCauses'
  <2>1. Stored' = Stored /\ Configured'
    BY <1>1, Zenon DEF Stored, WalkInv, Configured
  <2>2. CASE crashed = "no"
    BY <1>1, <2>1, <2>2 DEF ExportPanicCauses
  <2>3. CASE UNCHANGED todo
    BY <1>1, <2>1, <2>3, Zenon DEF WalkInv, ExportPanicCauses
  <2> QED
    BY <1>1, <2>1, <2>2, <2>3
<1>2. ASSUME crashed = "no", NEW s \in Scrapers, Begin(s) PROVE WalkInv'
  <2>1. /\ UNCHANGED <<config, crashed, at>>
        /\ spc' = [spc EXCEPT ![s] = "export"]
        /\ todo' = [todo EXCEPT ![s] = Stored]
        /\ series' = [series EXCEPT ![s] = {}]
        /\ rejected' = [rejected EXCEPT ![s] = {}]
    BY <1>2 DEF Begin, Stored
  <2>2. Walking' /\ FromDone' /\ FilteredHasASN'
    BY <1>1, <1>2, <2>1 DEF WalkInv, Walking, FromDone, FilteredHasASN
  <2>3. NothingRejected'
    BY <1>1, <1>2, <2>1
    DEF WalkInv, Walking, NothingRejected, UnknownTwice
  <2> QED
    BY <1>1, <1>2, <2>1, <2>2, <2>3 DEF WalkInv
<1>3. ASSUME UNCHANGED <<config, crashed, todo, series, rejected>>, Walking'
      PROVE  WalkInv'
  <2>1. FromDone' /\ FilteredHasASN'
    BY <1>1, <1>3 DEF WalkInv, FromDone, FilteredHasASN
  <2>2. NothingRejected'
    BY <1>1, <1>3 DEF WalkInv, NothingRejected, UnknownTwice
  <2> QED
    BY <1>1, <1>3, <2>1, <2>2 DEF WalkInv
<1>4. ASSUME NEW s \in Scrapers, WriteFingerprint(s) \/ End(s)
      PROVE  WalkInv'
  BY <1>1, <1>3, <1>4 DEF WriteFingerprint, End, WalkInv, Walking
<1>5. ASSUME NEW s \in Scrapers, NEW i \in ProbeIds, DecodeCert(s, i)
      PROVE  WalkInv'
  <2>1. spc'[s] \in {"label", "write"}
        /\ \E l \in {"label", "write"} : spc' = [spc EXCEPT ![s] = l]
    BY <1>5, Zenon DEF DecodeCert, WalkInv, Walking
  <2>2. /\ UNCHANGED <<config, crashed, todo, series, rejected>>
        /\ at' = [at EXCEPT ![s] = i] /\ i \in todo[s] /\ type = "sslcert"
    BY <1>5 DEF DecodeCert
  <2>3. Walking'
    BY <1>1, <2>1, <2>2 DEF WalkInv, Walking
  <2> QED
    BY <1>3, <2>2, <2>3
<1>6. CASE UNCHANGED vars
  BY <1>1, <1>3, <1>6 DEF vars, WalkInv, Walking
<1> QED
  BY <1>2, <1>4, <1>5, <1>6, ExportStep, ReadStepWalk DEF Next

LEMMA WalkInvHolds == Spec => []WalkInv
  BY WalkInvInit, WalkInvStep, PTL DEF Spec

(* No sample of a scrape is lost: the registry keeps everything Export     *)
(* sends, but for an http result that lists one target twice and, without  *)
(* filter_invalid_results, for two probes the API had no document for.     *)
THEOREM NothingRejectedHolds == Spec => []NothingRejected
<1>1. WalkInv => NothingRejected
  BY DEF WalkInv
<1> QED
  BY <1>1, WalkInvHolds, PTL

(* With filter_invalid_results no series of the types but http has ASN 0:  *)
(* the validator Add calls and the labels look at the same address family. *)
THEOREM FilteredHasASNHolds == Spec => []FilteredHasASN
<1>1. WalkInv => FilteredHasASN
  BY DEF WalkInv
<1> QED
  BY <1>1, WalkInvHolds, PTL

(* Export panics only on a result on which the histogram had panicked in   *)
(* Add, on a probe document with one coordinate (Latitude, probe.go) or,   *)
(* without filter_invalid_results, on a missing probe.  No NSID makes it   *)
(* panic: extractNsid (dns/exporter.go) gives ASCII for whatever bytes.    *)
THEOREM ExportPanicCausesHold == Spec => []ExportPanicCauses
<1>1. WalkInv => ExportPanicCauses
  BY DEF WalkInv
<1> QED
  BY <1>1, WalkInvHolds, PTL

LEMMA CrashedTyped ==
  ASSUME crashed \in {"no", "export", "race"}, [Next]_vars
  PROVE  crashed' \in {"no", "export", "race"}
<1>1. UNCHANGED crashed \/ crashed' \in {"export", "race"}
  BY Zenon DEF Next, Begin, WriteFingerprint, ReadFingerprint, End,
     ExportResult, DecodeCert, vars
<1> QED
  BY <1>1

(* The type of the measurement, and where each scrape is, keep their type: *)
(* a scrape labels only a result it has still to export.                   *)
THEOREM TypeOKHolds == Spec => []TypeOK
<1> DEFINE C == crashed \in {"no", "export", "race"}
<1>1. Init => C
  BY Zenon DEF Init
<1>2. C /\ [Next]_vars => C'
  BY CrashedTyped
<1>3. WalkInv /\ C => TypeOK
  BY DEF WalkInv, Configured, Walking, TypeOK
<1> QED
  BY <1>1, <1>2, <1>3, WalkInvHolds, PTL DEF Spec

(* A scrape at the read, another at the write of certFingerprint. *)
RaceNeedsTwo ==
  crashed = "race" =>
    /\ type = "sslcert"
    /\ \E s \in Scrapers : \E x \in Scrapers \ {s} :
         spc[s] = "label" /\ spc[x] = "write"

(* The torn read of certFingerprint that ends the process takes two        *)
(* scrapes of an sslcert measurement, one between decoding its certificate *)
(* and writing the variable (sslcert/exporter.go): scrapes that do not     *)
(* overlap cannot meet it.                                                 *)
THEOREM RaceNeedsTwoHolds == Spec => []RaceNeedsTwo
<1>1. Init => RaceNeedsTwo
  BY Zenon DEF Init, RaceNeedsTwo
<1>2. WalkInv /\ RaceNeedsTwo /\ [Next]_vars => RaceNeedsTwo'
  <2> SUFFICES ASSUME WalkInv, RaceNeedsTwo, [Next]_vars, crashed' = "race"
               PROVE  RaceNeedsTwo'
    BY DEF RaceNeedsTwo
  <2>1. CASE UNCHANGED vars
    BY <2>1 DEF vars, RaceNeedsTwo
  <2>2. CASE Next
    <3>1. PICK s \in Scrapers : ReadFingerprint(s) /\ crashed = "no"
      BY <2>2, Zenon
      DEF Next, Begin, WriteFingerprint, End, ExportResult, DecodeCert
    <3>2. /\ spc[s] = "label" /\ Torn(s) /\ UNCHANGED <<spc, type>>
      BY <3>1, Zenon DEF ReadFingerprint
    <3>3. type = "sslcert"
      BY <3>2 DEF WalkInv, Walking
    <3> QED
      BY <3>2, <3>3, Zenon DEF Torn, RaceNeedsTwo
  <2> QED
    BY <2>1, <2>2
<1> QED
  BY <1>1, <1>2, WalkInvHolds, PTL DEF Spec
-----------------------------------------------------------------------------
(* What Pick returns *)

Keeps(f, s, K, n) ==
  /\ f \in [0 .. n -> Seq(Elements(s))]
  /\ f[0] = <<>>
  /\ \A k \in 1 .. n :
       f[k] = IF k \in K THEN Append(f[k - 1], s[k]) ELSE f[k - 1]

LEMMA KeepsExist ==
  ASSUME NEW s, s \in Seq(Elements(s)), NEW K
  PROVE  \E f : Keeps(f, s, K, Len(s))
<1> DEFINE N == {n \in Nat : n <= Len(s) /\ ~\E f : Keeps(f, s, K, n)}
<1>1. /\ Len(s) \in Nat /\ DOMAIN s = 1 .. Len(s)
      /\ \A k \in DOMAIN s : s[k] \in Elements(s)
  BY SeqElement
<1>2. SUFFICES ASSUME N # {} PROVE FALSE
  BY <1>1
<1>3. PICK n \in N : \A j \in N : n <= j
  <2>1. N \subseteq Nat
    OBVIOUS
  <2> HIDE DEF N
  <2> QED
    BY <1>2, <2>1, LeastNat, Zenon
<1>4. n # 0
  <2>1. Keeps([k \in 0 .. 0 |-> <<>>], s, K, 0)
    BY DEF Keeps
  <2> QED
    BY <2>1
<1>5. PICK f : Keeps(f, s, K, n - 1)
  BY <1>1, <1>3, <1>4
<1> DEFINE last == IF n \in K THEN Append(f[n - 1], s[n]) ELSE f[n - 1]
<1>6. n \in Nat \ {0} /\ s[n] \in Elements(s)
  BY <1>1, <1>4
<1>7. f[n - 1] \in Seq(Elements(s))
  BY <1>5, <1>6 DEF Keeps
<1>8. last \in Seq(Elements(s))
  BY <1>6, <1>7
<1>9. Keeps([k \in 0 .. n |-> IF k = n THEN last ELSE f[k]], s, K, n)
  <2> DEFINE g == [k \in 0 .. n |-> IF k = n THEN last ELSE f[k]]
  <2> HIDE DEF last
  <2>1. g \in [0 .. n -> Seq(Elements(s))]
    BY <1>5, <1>6, <1>8 DEF Keeps
  <2>2. g[0] = <<>>
    BY <1>5, <1>6 DEF Keeps
  <2>3. ASSUME NEW k \in 1 .. n
        PROVE  g[k] = IF k \in K THEN Append(g[k - 1], s[k]) ELSE g[k - 1]
    <3>1. CASE k = n
      BY <1>6, <3>1 DEF last
    <3>2. CASE k # n
      <4>1. k \in 1 .. n - 1 /\ k - 1 \in 0 .. n - 1
        BY <1>6, <3>2
      <4>2. g[k] = f[k] /\ g[k - 1] = f[k - 1]
        BY <1>6, <3>2, <4>1
      <4>3. f[k] = IF k \in K THEN Append(f[k - 1], s[k]) ELSE f[k - 1]
        BY <1>5, <4>1, Zenon DEF Keeps
      <4> HIDE DEF g
      <4> QED
        BY <4>2, <4>3, Zenon
    <3> QED
      BY <3>1, <3>2
  <2> QED
    BY <2>1, <2>2, <2>3, Zenon DEF Keeps
<1> QED
  BY <1>9

LEMMA PickKeeps ==
  ASSUME NEW s, s \in Seq(Elements(s)), NEW K
  PROVE  \E f : Keeps(f, s, K, Len(s)) /\ Pick(s, K) = f[Len(s)]
<1> DEFINE n == Len(s)
           Body(g) == [k \in 0 .. n |->
                         IF k = 0 THEN <<>>
                         ELSE IF k \in K THEN Append(g[k - 1], s[k])
                         ELSE g[k - 1]]
           kept == CHOOSE g : g = Body(g)
<1>1. n \in Nat
  BY SeqElement
<1>2. PICK f : Keeps(f, s, K, n)
  BY KeepsExist, Zenon
<1>3. f = Body(f)
  <2>1. f = [k \in 0 .. n |-> f[k]]
    BY <1>2 DEF Keeps
  <2>2. ASSUME NEW k \in 0 .. n
        PROVE  f[k] = IF k = 0 THEN <<>>
                      ELSE IF k \in K THEN Append(f[k - 1], s[k])
                      ELSE f[k - 1]
    <3> HIDE DEF n
    <3>1. CASE k = 0
      BY <1>2, <3>1, Zenon DEF Keeps
    <3>2. CASE k # 0
      <4>1. k \in 1 .. n
        BY <1>1, <3>2
      <4> QED
        BY <1>2, <3>2, <4>1, Zenon DEF Keeps
    <3> QED
      BY <3>1, <3>2
  <2> QED
    BY <2>1, <2>2, Zenon
<1>4. kept = Body(kept)
  BY <1>3, Zenon
<1>5. Pick(s, K) = kept[n]
  BY Zenon DEF Pick
<1>6. \A k \in 0 .. n :
        kept[k] = IF k = 0 THEN <<>>
                  ELSE IF k \in K THEN Append(kept[k - 1], s[k])
                  ELSE kept[k - 1]
  BY <1>4, Zenon
<1> HIDE DEF kept, n
<1>7. ASSUME NEW k \in 0 .. n PROVE kept[k] = f[k]
  <2> DEFINE N == {j \in 0 .. n : kept[j] # f[j]}
  <2>1. SUFFICES ASSUME N # {} PROVE FALSE
    OBVIOUS
  <2>2. PICK j \in N : \A i \in N : j <= i
    <3>1. N \subseteq Nat
      OBVIOUS
    <3> HIDE DEF N
    <3> QED
      BY <2>1, <3>1, LeastNat, Zenon
  <2>3. j \in 0 .. n /\ kept[j] # f[j]
    OBVIOUS
  <2>4. j # 0
    BY <1>2, <1>6, <2>3, Zenon DEF Keeps
  <2>5. j \in 1 .. n /\ j - 1 \in 0 .. n /\ ~(j <= j - 1)
    BY <1>1, <2>3, <2>4
  <2>6. kept[j - 1] = f[j - 1]
    BY <2>2, <2>5, Zenon
  <2> QED
    BY <1>2, <1>6, <2>3, <2>4, <2>5, <2>6, Zenon DEF Keeps
<1>8. n \in 0 .. n
  BY <1>1
<1> QED
  BY <1>2, <1>5, <1>7, <1>8, Zenon DEF n

LEMMA PickOne ==
  ASSUME NEW x, NEW K
  PROVE  Pick(<<x>>, K) = IF 1 \in K THEN <<x>> ELSE <<>>
<1> DEFINE s == <<x>>
<1>1. s \in Seq(Elements(s)) /\ Len(s) = 1 /\ s[1] = x
  BY DEF Elements
<1> HIDE DEF s
<1>2. PICK f : Keeps(f, s, K, 1) /\ Pick(s, K) = f[1]
  BY <1>1, PickKeeps, Zenon
<1>3. f[1] = IF 1 \in K THEN Append(f[0], s[1]) ELSE f[0]
  <2>1. 1 \in 1 .. 1 /\ 1 - 1 = 0
    OBVIOUS
  <2> QED
    BY <1>2, <2>1, Zenon DEF Keeps
<1>4. f[0] = <<>>
  BY <1>2 DEF Keeps
<1>5. Append(<<>>, x) = <<x>>
  OBVIOUS
<1> QED
  BY <1>1, <1>2, <1>3, <1>4, <1>5, Zenon DEF s

LEMMA AppendSome ==
  ASSUME NEW S, NEW s \in Seq(S), NEW x \in S
  PROVE  Append(s, x) # <<>>
<1>1. Len(Append(s, x)) = Len(s) + 1 /\ Len(s) \in Nat
  OBVIOUS
<1>2. Len(<<>>) = 0
  OBVIOUS
<1> QED
  BY <1>1, <1>2

(* Pick returns something iff it is asked for a position there is. *)
LEMMA PickSome ==
  ASSUME NEW s, s \in Seq(Elements(s)), NEW K, K \subseteq DOMAIN s
  PROVE  Pick(s, K) = <<>> <=> K = {}
<1> DEFINE n == Len(s)
<1>1. n \in Nat /\ DOMAIN s = 1 .. n
      /\ \A k \in DOMAIN s : s[k] \in Elements(s)
  BY SeqElement
<1>2. PICK f : Keeps(f, s, K, n) /\ Pick(s, K) = f[n]
  BY PickKeeps
<1> HIDE DEF n
<1> DEFINE Empty(k) == f[k] = <<>> <=> \A j \in K : j > k
<1>3. ASSUME NEW k \in 0 .. n PROVE Empty(k)
  <2> DEFINE N == {j \in 0 .. n : ~Empty(j)}
  <2>1. SUFFICES ASSUME N # {} PROVE FALSE
    OBVIOUS
  <2>2. PICK m \in N : \A i \in N : m <= i
    <3>1. N \subseteq Nat
      OBVIOUS
    <3> HIDE DEF N
    <3> QED
      BY <2>1, <3>1, LeastNat, Zenon
  <2>3. m \in 0 .. n /\ ~Empty(m)
    OBVIOUS
  <2>4. Empty(0)
    BY <1>1, <1>2 DEF Keeps
  <2>5. m \in 1 .. n /\ m - 1 \in 0 .. n /\ ~(m <= m - 1)
    BY <1>1, <2>3, <2>4
  <2>6. Empty(m - 1)
    BY <2>2, <2>5, Zenon
  <2> HIDE DEF N
  <2>7. /\ f[m] = IF m \in K THEN Append(f[m - 1], s[m]) ELSE f[m - 1]
        /\ f[m - 1] \in Seq(Elements(s))
    BY <1>2, <2>5, Zenon DEF Keeps
  <2>8. CASE m \in K
    <3>1. Append(f[m - 1], s[m]) # <<>>
      BY <1>1, <2>5, <2>7, AppendSome, Zenon
    <3>2. ~(m > m)
      BY <2>5
    <3> QED
      BY <2>3, <2>7, <2>8, <3>1, <3>2, Zenon
  <2>9. CASE m \notin K
    <3>1. \A j \in K : j > m <=> j > m - 1
      BY <1>1, <2>5, <2>9
    <3> QED
      BY <2>3, <2>6, <2>7, <2>9, <3>1, Zenon
  <2> QED
    BY <2>8, <2>9
<1>4. n \in 0 .. n /\ \A j \in K : ~(j > n)
  BY <1>1
<1> QED
  BY <1>2, <1>3, <1>4, Zenon

(* Picking the same positions of two lists that agree on them. *)
Alike(s, t) ==
  /\ Len(s) = Len(t)
  /\ \A i \in 1 .. Len(s) : s[i].rtt = t[i].rt

LEMMA AppendAlike ==
  ASSUME NEW A, NEW B, NEW s \in Seq(A), NEW t \in Seq(B), Alike(s, t),
         NEW x \in A, NEW y \in B, x.rtt = y.rt
  PROVE  Alike(Append(s, x), Append(t, y))
  BY DEF Alike

LEMMA PickAlike ==
  ASSUME NEW s, s \in Seq(Elements(s)), NEW t, t \in Seq(Elements(t)),
         Alike(s, t), NEW K
  PROVE  /\ Pick(s, K) \in Seq(Elements(s))
         /\ Pick(t, K) \in Seq(Elements(t))
         /\ Alike(Pick(s, K), Pick(t, K))
<1> DEFINE n == Len(s)
<1>1. /\ n \in Nat /\ Len(t) = n /\ DOMAIN s = 1 .. n /\ DOMAIN t = 1 .. n
      /\ \A k \in 1 .. n : s[k] \in Elements(s) /\ t[k] \in Elements(t)
  BY SeqElement DEF Alike
<1>2. PICK f : Keeps(f, s, K, n) /\ Pick(s, K) = f[n]
  BY PickKeeps
<1>3. PICK g : Keeps(g, t, K, n) /\ Pick(t, K) = g[n]
  BY <1>1, PickKeeps
<1>4. \A k \in 1 .. n : s[k].rtt = t[k].rt
  BY DEF Alike
<1> HIDE DEF n
<1>5. ASSUME NEW k \in 0 .. n PROVE Alike(f[k], g[k])
  <2> DEFINE N == {j \in 0 .. n : ~Alike(f[j], g[j])}
  <2>1. SUFFICES ASSUME N # {} PROVE FALSE
    OBVIOUS
  <2>2. PICK m \in N : \A i \in N : m <= i
    <3>1. N \subseteq Nat
      OBVIOUS
    <3> HIDE DEF N
    <3> QED
      BY <2>1, <3>1, LeastNat, Zenon
  <2>3. m \in 0 .. n /\ ~Alike(f[m], g[m])
    OBVIOUS
  <2>4. Alike(f[0], g[0])
    BY <1>2, <1>3 DEF Keeps, Alike
  <2>5. m \in 1 .. n /\ m - 1 \in 0 .. n /\ ~(m <= m - 1)
    BY <1>1, <2>3, <2>4
  <2>6. Alike(f[m - 1], g[m - 1])
    BY <2>2, <2>5, Zenon
  <2> HIDE DEF N
  <2>7. /\ f[m] = IF m \in K THEN Append(f[m - 1], s[m]) ELSE f[m - 1]
        /\ f[m - 1] \in Seq(Elements(s))
        /\ g[m] = IF m \in K THEN Append(g[m - 1], t[m]) ELSE g[m - 1]
        /\ g[m - 1] \in Seq(Elements(t))
    BY <1>2, <1>3, <2>5, Zenon DEF Keeps
  <2>8. Alike(Append(f[m - 1], s[m]), Append(g[m - 1], t[m]))
    BY <1>1, <1>4, <2>5, <2>6, <2>7, AppendAlike, Zenon
  <2> QED
    BY <2>3, <2>6, <2>7, <2>8, Zenon
<1>6. n \in 0 .. n
  BY <1>1
<1> QED
  BY <1>2, <1>3, <1>5, <1>6, Zenon DEF Keeps
-----------------------------------------------------------------------------
(* The histogram and the gauges *)

Succeeded(sent) ==
  {k \in DOMAIN sent : sent[k].success /\ sent[k].rtt > 0}

(* For the types with one turn. *)
LEMMA PickSent ==
  ASSUME NEW x
  PROVE  Pick(<<x>>, Succeeded(<<x>>))
           = IF x.success /\ x.rtt > 0 THEN <<x>> ELSE <<>>
<1>1. 1 \in DOMAIN <<x>> /\ <<x>>[1] = x
  OBVIOUS
<1>2. 1 \in Succeeded(<<x>>) <=> (x.success /\ x.rtt > 0)
  BY <1>1, Zenon DEF Succeeded
<1> QED
  BY <1>2, PickOne, Zenon

LEMMA PingMinPositive ==
  ASSUME NEW r, r.replies \in Seq(Int \cup {Nil}), r.min \in Int,
         Nil \notin Elements(r.replies), MinIsOfReplies(r)
  PROVE  r.min > 0 <=> \E k \in DOMAIN r.replies : r.replies[k] > 0
<1> DEFINE rtts == {x \in Elements(r.replies) \ {Nil} : x > 0}
<1>1. \A k \in DOMAIN r.replies : r.replies[k] \in Int
  BY SeqElement DEF Elements
<1>2. \A x \in rtts : x \in Nat /\ x > 0
  BY <1>1 DEF Elements
<1>3. rtts = {} <=> ~\E k \in DOMAIN r.replies : r.replies[k] > 0
  BY Zenon DEF Elements
<1>4. IF rtts = {} THEN r.min <= 0 ELSE r.min = Min(rtts)
  BY Zenon DEF MinIsOfReplies
<1> HIDE DEF rtts
<1>5. CASE rtts = {}
  <2>1. r.min <= 0
    BY <1>4, <1>5
  <2>2. ~(r.min > 0)
    BY <2>1
  <2> QED
    BY <1>3, <1>5, <2>2, Zenon
<1>6. CASE rtts # {}
  <2>1. \E m \in rtts : \A k \in rtts : m <= k
    BY <1>2, <1>6, LeastNat
  <2>2. Min(rtts) \in rtts
    BY <2>1, Zenon DEF Min
  <2> QED
    BY <1>2, <1>3, <1>4, <1>6, <2>2, Zenon
<1> QED
  BY <1>5, <1>6

LEMMA PingAgrees ==
  ASSUME NEW r \in Results["ping"], NEW p, ~PingProcessPanics(r),
         MinIsOfReplies(r)
  PROVE  PingProcess(r) # <<>>
           <=> Pick(PingExport(r, p), Succeeded(PingExport(r, p))) # <<>>
<1> DEFINE K == {k \in DOMAIN r.replies : r.replies[k] > 0}
<1>1. /\ r.replies \in Seq(Int \cup {Nil}) /\ r.min \in Int
      /\ Nil \notin Elements(r.replies)
  BY ExportAssumption, Zenon DEF PingProcessPanics
<1>2. r.replies \in Seq(Elements(r.replies))
  BY <1>1 DEF Elements
<1>3. PingProcess(r) # <<>> <=> K # {}
  BY <1>2, PickSome, Zenon DEF PingProcess
<1>4. K # {} <=> r.min > 0
  BY <1>1, PingMinPositive, Zenon
<1>5. PICK x : /\ PingExport(r, p) = <<x>>
               /\ x.success = (r.min > 0) /\ x.rtt = r.min
  <2>1. PICK labels, metrics :
          PingExport(r, p)
            = <<Sent(labels, r.min > 0, r.min, metrics)>>
    BY Zenon DEF PingExport
  <2> DEFINE y == Sent(labels, r.min > 0, r.min, metrics)
  <2>2. y.success = (r.min > 0) /\ y.rtt = r.min
    BY DEF Sent
  <2> QED
    BY <2>1, <2>2, Zenon
<1>6. Pick(<<x>>, Succeeded(<<x>>))
        = IF r.min > 0 THEN <<x>> ELSE <<>>
  BY <1>5, PickSent, Zenon
<1>7. <<x>> # <<>>
  OBVIOUS
<1> QED
  BY <1>3, <1>4, <1>5, <1>6, <1>7, Zenon

Rtts(s) == [k \in DOMAIN s |-> s[k].rtt]

LEMMA RttsOf ==
  ASSUME NEW x PROVE Rtts(<<x>>) = <<x.rtt>> /\ Rtts(<<>>) = <<>>
  BY DEF Rtts

LEMMA TracerouteAgrees ==
  ASSUME NEW r, NEW p
  PROVE  TracerouteProcess(r)
           = Rtts(Pick(TracerouteExport(r, p),
                       Succeeded(TracerouteExport(r, p))))
<1>1. PICK x : /\ TracerouteExport(r, p) = <<x>>
               /\ x.success = ProcessLastHop(r).success
               /\ x.rtt = ProcessLastHop(r).rtt
  <2>1. PICK labels, metrics :
          TracerouteExport(r, p)
            = <<Sent(labels, ProcessLastHop(r).success,
                     ProcessLastHop(r).rtt, metrics)>>
    BY Zenon DEF TracerouteExport
  <2> DEFINE y == Sent(labels, ProcessLastHop(r).success,
                       ProcessLastHop(r).rtt, metrics)
  <2>2. /\ y.success = ProcessLastHop(r).success
        /\ y.rtt = ProcessLastHop(r).rtt
    BY DEF Sent
  <2> QED
    BY <2>1, <2>2, Zenon
<1>2. TracerouteProcess(r)
        = IF x.success /\ x.rtt > 0 THEN <<x.rtt>> ELSE <<>>
  BY <1>1, Zenon DEF TracerouteProcess
<1> QED
  BY <1>1, <1>2, PickSent, RttsOf, Zenon

LEMMA DnsAgrees ==
  ASSUME NEW r, NEW p, NEW nsid
  PROVE  DnsProcess(r)
           = Rtts(Pick(DnsExport(r, p, nsid),
                       Succeeded(DnsExport(r, p, nsid))))
<1> DEFINE rtt == IF r.answer # Nil THEN r.answer.rt ELSE 0
<1>1. PICK x : /\ DnsExport(r, p, nsid) = <<x>>
               /\ x.success = (rtt > 0) /\ x.rtt = rtt
  <2>1. PICK labels, metrics :
          DnsExport(r, p, nsid)
            = <<Sent(labels, rtt > 0, rtt, metrics)>>
    BY Zenon DEF DnsExport
  <2> DEFINE y == Sent(labels, rtt > 0, rtt, metrics)
  <2>2. y.success = (rtt > 0) /\ y.rtt = rtt
    BY DEF Sent
  <2> QED
    BY <2>1, <2>2, Zenon
<1>2. DnsProcess(r) = IF rtt > 0 THEN <<rtt>> ELSE <<>>
  <2>1. ~(0 > 0)
    OBVIOUS
  <2> QED
    BY <2>1, Zenon DEF DnsProcess
<1> QED
  BY <1>1, <1>2, PickSent, RttsOf, Zenon

LEMMA HttpAgrees ==
  ASSUME NEW r \in Results["http"], NEW p
  PROVE  HttpProcess(r)
           = Rtts(Pick(HttpExport(r, p), Succeeded(HttpExport(r, p))))
<1> DEFINE sent == HttpExport(r, p)
           K == {k \in DOMAIN r.parts : r.parts[k].rt > 0}
<1>1. r.parts \in Seq(Elements(r.parts))
  BY ExportAssumption, Zenon
<1>2. /\ DOMAIN sent = DOMAIN r.parts
      /\ sent = [k \in DOMAIN sent |-> sent[k]]
      /\ \A k \in DOMAIN r.parts :
           /\ sent[k].success = (r.parts[k].rt > 0)
           /\ sent[k].rtt = r.parts[k].rt
  BY Zenon DEF HttpExport, Sent
<1>3. Succeeded(sent) = K
  BY <1>2, Zenon DEF Succeeded
<1> HIDE DEF sent, K
<1>4. Len(r.parts) \in Nat /\ DOMAIN r.parts = 1 .. Len(r.parts)
  BY <1>1, SeqElement
<1>5. sent \in Seq(Elements(sent)) /\ Len(sent) = Len(r.parts)
  BY <1>2, <1>4 DEF Elements
<1>6. Alike(sent, r.parts)
  BY <1>2, <1>4, <1>5, Zenon DEF Alike
<1> DEFINE ok == Pick(sent, K)
           seen == Pick(r.parts, K)
<1>7. ok \in Seq(Elements(sent)) /\ seen \in Seq(Elements(r.parts))
      /\ Alike(ok, seen)
  BY <1>1, <1>5, <1>6, PickAlike, Zenon
<1>8. HttpProcess(r) = [k \in DOMAIN seen |-> seen[k].rt]
  BY Zenon DEF HttpProcess, K
<1> HIDE DEF ok, seen
<1>9. Rtts(ok) = [k \in DOMAIN seen |-> seen[k].rt]
  BY <1>7 DEF Alike, Rtts
<1> QED
  BY <1>3, <1>8, <1>9, Zenon DEF ok, sent

(* The histogram of a measurement observes the round trip times its gauges *)
(* are exported with, one by one (ProcessResult and Export of each type,   *)
(* which walk the same lists in code of their own); for ping, if the       *)
(* minimum the probe reports is that of its replies.                       *)
THEOREM HistogramAgreesHolds == Spec => []HistogramAgrees
<1>1. WalkInv => HistogramAgrees
  <2> SUFFICES ASSUME WalkInv, NEW i \in Stored, Options[type].histogram,
                      ~ProcessPanics(type, latest[i])
               PROVE  LET sent == Export(type, latest[i], docs[i],
                                         nsidEnabled, "")
                          ok   == Pick(sent, Succeeded(sent))
                          seen == ProcessResult(type, latest[i])
                      IN  IF type = "ping"
                            THEN MinIsOfReplies(latest[i]) =>
                                   (seen # <<>> <=> ok # <<>>)
                          ELSE seen = Rtts(ok)
    BY Zenon DEF HistogramAgrees, Succeeded, Rtts
  <2>1. type \in Types /\ latest[i] \in Results[type]
    BY Zenon DEF WalkInv, Configured
  <2>2. CASE type = "ping"
    <3>1. ~PingProcessPanics(latest[i])
      BY <2>2, Zenon DEF ProcessPanics
    <3> QED
      BY <2>1, <2>2, <3>1, PingAgrees, Zenon DEF Export, ProcessResult
  <2>3. CASE type = "traceroute"
    BY <2>3, TracerouteAgrees, Zenon DEF Export, ProcessResult
  <2>4. CASE type = "dns"
    BY <2>4, DnsAgrees, Zenon DEF Export, ProcessResult
  <2>5. CASE type = "http"
    BY <2>1, <2>5, HttpAgrees, Zenon DEF Export, ProcessResult
  <2>6. type \notin {"ntp", "sslcert"}
    <3>1. ~Options["ntp"].histogram /\ ~Options["sslcert"].histogram
      BY DEF Options, NtpOptions, SslcertOptions
    <3> QED
      BY <3>1, Zenon
  <2> QED
    BY <2>1, <2>2, <2>3, <2>4, <2>5, <2>6, Zenon DEF Types
<1> QED
  BY <1>1, WalkInvHolds, PTL
=============================================================================
