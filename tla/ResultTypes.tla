----------------------------- MODULE ResultTypes -----------------------------
(***************************************************************************)
(* The six measurement types: what their Export sends for one result, what *)
(* Describe announced, what their histogram observes, which validator they *)
(* use, and where they panic.                                              *)
(*                                                                         *)
(* A result has the probe's address family af and destination dst, and the *)
(* fields its type adds.  A probe document has an id, an ASN per family    *)
(* (0: none) and a number of coordinates; Nil stands for a probe the       *)
(* lookups did not find.  Country, latitude and longitude, dst_name, uri   *)
(* and protocol follow from the probe or from the destination and are left *)
(* out of the labels, as is the measurement id; metric values are kept as  *)
(* success and rtt.                                                        *)
(***************************************************************************)
EXTENDS Integers, Sequences, FiniteSetsExt

CONSTANT Nil   \* null in a decoded list, a missing sub-document or probe

Types == {"ping", "traceroute", "ntp", "dns", "http", "sslcert"}

Elements(s) == {s[k] : k \in DOMAIN s}

(* What a loop over s appends: its elements at the positions K, in order.  *)
Pick(s, K) ==
  LET kept[k \in 0 .. Len(s)] ==
        IF k = 0 THEN <<>>
        ELSE IF k \in K THEN Append(kept[k - 1], s[k]) ELSE kept[k - 1]
  IN  kept[Len(s)]

(* Probe.ASNForIPVersion *)
ASNForIPVersion(p, v) == IF v = 6 THEN p.asn6 ELSE p.asn4

(* Every Export asks the probe for its id and its latitude.  A nil probe   *)
(* has neither; Latitude checks that there is a coordinate and reads the   *)
(* second.                                                                 *)
ProbePanics(p) == p # Nil => p.coords = 1

(* Fault: the probe is not among the labels.                               *)
LabelsWithoutProbe(p, dst, af, more) ==
  <<0, dst, ASNForIPVersion(p, af), af, more>>

(* The label values that tell series of one metric apart.                  *)
Labels(p, dst, af, more) == <<p.id, dst, ASNForIPVersion(p, af), af, more>>

(* One turn of Export: one sample for each of the metrics, all with the    *)
(* same labels.  rtt is the exported round trip time, 0 if there is none.  *)
Sent(labels, success, rtt, metrics) ==
  [labels |-> labels, success |-> success, rtt |-> rtt, metrics |-> metrics]

If(cond, set) == IF cond THEN set ELSE {}

(* prometheus.NewHistogram panics unless the bounds increase.              *)
NewHistogramPanics(bounds) ==
  \E k \in 1 .. Len(bounds) - 1 : bounds[k] >= bounds[k + 1]
-----------------------------------------------------------------------------
(* ping: replies is PingResults(), as round trip times, and min is Min(),  *)
(* a field of its own that the probe reports                               *)

PingDescribe == {"success", "min_latency", "max_latency", "avg_latency",
                 "sent", "received", "dup", "ttl", "size"}

PingExport(r, p) ==
  LET ok == r.min > 0
  IN  <<Sent(Labels(p, r.dst, r.af, ""), ok, r.min,
          {"success", "sent", "received", "dup", "ttl", "size"}
            \cup If(ok, {"min_latency", "max_latency", "avg_latency"}))>>

PingBuckets(buckets) == IF buckets = Nil THEN <<10, 20, 50, 100>> ELSE buckets

PingProcessPanics(r) == Nil \in Elements(r.replies)
PingProcess(r) ==
  Pick(r.replies, {k \in DOMAIN r.replies : r.replies[k] > 0})

PingOptions == [histogram |-> TRUE, validator |-> "default"]
-----------------------------------------------------------------------------
(* traceroute: hops is TracerouteResults(), each a list of replies         *)

TracerouteDescribe == {"success", "hops", "rtt"}

LastHop(r) == r.hops[Len(r.hops)]

(* Every reply has a turn of the loop, but the time is always the last's.  *)
ProcessLastHop(r) ==
  IF r.hops = <<>> \/ LastHop(r) = <<>> THEN [success |-> FALSE, rtt |-> 0]
  ELSE [success |-> \E reply \in Elements(LastHop(r)) : reply.from = r.dst,
        rtt |-> LastHop(r)[Len(LastHop(r))].rtt]

ProcessLastHopPanics(r) ==
  r.hops # <<>> /\ (LastHop(r) # Nil => Nil \in Elements(LastHop(r)))

TracerouteExport(r, p) ==
  LET hop == ProcessLastHop(r)
  IN  <<Sent(Labels(p, r.dst, r.af, ""), hop.success, hop.rtt,
          {"success", "hops"} \cup If(hop.rtt > 0, {"rtt"}))>>

TracerouteBuckets(buckets) ==
  IF buckets = Nil THEN <<10, 20, 50, 100>> ELSE buckets

(* Fault: the round trip time to an unreached destination is observed.     *)
ObservesUnreached(r) ==
  LET hop == ProcessLastHop(r) IN IF hop.rtt > 0 THEN <<hop.rtt>> ELSE <<>>

TracerouteProcess(r) ==
  LET hop == ProcessLastHop(r)
  IN  IF hop.success /\ hop.rtt > 0 THEN <<hop.rtt>> ELSE <<>>

TracerouteOptions == [histogram |-> TRUE, validator |-> "traceroute"]
-----------------------------------------------------------------------------
(* ntp *)

NtpDescribe == {"poll", "precision", "root_delay", "root_dispersion",
                "ntp_version"}

NtpExport(r, p) == <<Sent(Labels(p, r.dst, r.af, ""), TRUE, 0, NtpDescribe)>>

NtpOptions == [histogram |-> FALSE, validator |-> "default"]
-----------------------------------------------------------------------------
(* dns: answer is DnsResult(), options the EDNS0 options of its message,   *)
(* the bytes of each NSID and Nil for every other one                      *)

DnsDescribe == {"success", "rtt"}

(* Fault: bytes above 126 pass.                                            *)
NotControl(bytes) == \A b \in Elements(bytes) : b >= 32

IsASCIIPrintable(bytes) == \A b \in Elements(bytes) : b >= 32 /\ b <= 126

(* hex.EncodeToString, as the bytes of the text                            *)
HexEncode(bytes) ==
  LET Digit(d) == IF d < 10 THEN 48 + d ELSE 87 + d
  IN  [k \in 1 .. 2 * Len(bytes) |->
         IF k % 2 = 1 THEN Digit(bytes[(k + 1) \div 2] \div 16)
                      ELSE Digit(bytes[k \div 2] % 16)]

(* The first NSID, as it is when that is printable, else in hex.           *)
ExtractNsid(options) ==
  LET nsids == {k \in DOMAIN options : options[k] # Nil}
      raw   == options[Min(nsids)]
  IN  IF nsids = {} THEN <<>>
      ELSE IF IsASCIIPrintable(raw) THEN raw ELSE HexEncode(raw)

Nsid(r, nsidEnabled) ==
  IF nsidEnabled /\ r.answer # Nil THEN ExtractNsid(r.answer.options)
  ELSE <<>>

DnsExport(r, p, nsidEnabled) ==
  LET rtt == IF r.answer # Nil THEN r.answer.rt ELSE 0
  IN  <<Sent(Labels(p, r.dst, r.af, Nsid(r, nsidEnabled)), rtt > 0, rtt,
          {"success"} \cup If(rtt > 0, {"rtt"}))>>

DnsBuckets(buckets) == IF buckets = Nil THEN <<10, 20, 50, 100>> ELSE buckets

DnsProcess(r) ==
  IF r.answer # Nil /\ r.answer.rt > 0 THEN <<r.answer.rt>> ELSE <<>>

DnsOptions == [histogram |-> TRUE, validator |-> "default"]
-----------------------------------------------------------------------------
(* http: parts is HttpResults(); each has its own family and destination,  *)
(* and the result itself has none (af = 0)                                 *)

HttpDescribe == {"success", "result", "version", "body_size", "header_size",
                 "rtt", "dns_error"}

HttpExport(r, p) ==
  [k \in DOMAIN r.parts |->
     LET h == r.parts[k]
     IN  Sent(Labels(p, h.dst, h.af, h.method), h.rt > 0, h.rt,
           {"result", "version", "body_size", "header_size", "dns_error",
            "success"} \cup If(h.rt > 0, {"rtt"}))]

HttpBuckets(buckets) ==
  IF buckets = Nil THEN <<100, 200, 500, 1000>> ELSE buckets

(* Export and ProcessResult walk the same list.                            *)
HttpWalkPanics(r) == Nil \in Elements(r.parts)

HttpProcess(r) ==
  LET seen == Pick(r.parts, {k \in DOMAIN r.parts : r.parts[k].rt > 0})
  IN  [k \in DOMAIN seen |-> seen[k].rt]

HttpOptions == [histogram |-> TRUE, validator |-> "default"]
-----------------------------------------------------------------------------
(* sslcert: cert is Cert(), as the fingerprint of each certificate, Nil    *)
(* where pem.Decode finds no block                                         *)

SslcertDescribe == {"success", "rtt", "version", "alert_level",
                    "alert_description"}

(* The certificate Export takes the fingerprint of, or Nil.                *)
OwnFingerprint(r) == IF Len(r.cert) > 0 THEN r.cert[1] ELSE Nil

SslcertExport(r, p, certFingerprint) ==
  <<Sent(Labels(p, r.dst, r.af, certFingerprint), r.rt > 0, r.rt,
      {"version", "alert_level", "alert_description", "success"}
        \cup If(r.rt > 0, {"rtt"}))>>

SslcertOptions == [histogram |-> FALSE, validator |-> "default"]
-----------------------------------------------------------------------------
(* measurementForType: the type decides which of the above is called       *)

Options ==
  [ping |-> PingOptions, traceroute |-> TracerouteOptions, ntp |-> NtpOptions,
   dns |-> DnsOptions, http |-> HttpOptions, sslcert |-> SslcertOptions]

(* Measurement.Describe; the histogram's own metric never collides.        *)
Describe ==
  [ping |-> PingDescribe, traceroute |-> TracerouteDescribe,
   ntp |-> NtpDescribe, dns |-> DnsDescribe, http |-> HttpDescribe,
   sslcert |-> SslcertDescribe]

(* Fault: every family is checked against the ASN for IPv4.                *)
ChecksFamily4(r, p) == p.asn4 > 0

DefaultIsValid(r, p) == ASNForIPVersion(p, r.af) > 0

TracerouteIsValid(r, p) ==
  ASNForIPVersion(p, r.af) > 0 /\ Len(r.hops) > 1

IsValid(t, r, p) ==
  IF Options[t].validator = "traceroute" THEN TracerouteIsValid(r, p)
  ELSE DefaultIsValid(r, p)

(* nsid is cfg.DNS.NSIDEnabled, print the package variable of sslcert.     *)
Export(t, r, p, nsid, print) ==
  CASE t = "ping" -> PingExport(r, p)
    [] t = "traceroute" -> TracerouteExport(r, p)
    [] t = "ntp" -> NtpExport(r, p)
    [] t = "dns" -> DnsExport(r, p, nsid)
    [] t = "http" -> HttpExport(r, p)
    [] t = "sslcert" -> SslcertExport(r, p, print)

(* prometheus.MustNewConstMetric panics on a label that is not UTF-8; the  *)
(* NSID is the only label that is built from raw bytes.                    *)
LabelPanics(nsid) == \E b \in Elements(nsid) : b > 127

(* http asks the probe once per part, the others once per result.          *)
ExportPanics(t, r, p, nsid) ==
  \/ ProbePanics(p) /\ (t = "http" => r.parts # <<>>)
  \/ t = "traceroute" /\ ProcessLastHopPanics(r)
  \/ t = "http" /\ HttpWalkPanics(r)
  \/ t = "dns" /\ LabelPanics(Nsid(r, nsid))

ProcessPanics(t, r) ==
  \/ t = "ping" /\ PingProcessPanics(r)
  \/ t = "traceroute" /\ ProcessLastHopPanics(r)
  \/ t = "http" /\ HttpWalkPanics(r)

(* The round trip times the histogram observes.                            *)
ProcessResult(t, r) ==
  CASE t = "ping" -> PingProcess(r)
    [] t = "traceroute" -> TracerouteProcess(r)
    [] t = "dns" -> DnsProcess(r)
    [] t = "http" -> HttpProcess(r)
    [] OTHER -> <<>>
=============================================================================
