--------------------------- MODULE MCResultExport ----------------------------
(* Two probes, one of them without IPv6.  The lookup may have found none,  *)
(* an error document, or one with a single coordinate; for each type there *)
(* are the results on which its code branches.                             *)
EXTENDS ResultExport, TLC

Doc(id, asn4, asn6, coords) ==
  [id |-> id, asn4 |-> asn4, asn6 |-> asn6, coords |-> coords]
Zero == Doc(0, 0, 0, 0)
TwoDocs == << {Doc(1, 64500, 64501, c) : c \in {1, 2}} \cup {Zero, Nil},
              {Doc(2, 64500, 0, c) : c \in {1, 2}} \cup {Zero, Nil} >>

Ping(af, min, replies) ==
  [af |-> af, dst |-> "d", min |-> min, replies |-> replies]
Trace(hops) == [af |-> 4, dst |-> "d", hops |-> hops]
Dns(af, answer) == [af |-> af, dst |-> "d", answer |-> answer]
Http(parts) == [af |-> 0, parts |-> parts]
Cert(af, rt, cert) == [af |-> af, dst |-> "d", rt |-> rt, cert |-> cert]

From(x, rtt) == [from |-> x, rtt |-> rtt]
Part(dst, af, rt) == [dst |-> dst, af |-> af, method |-> "GET", rt |-> rt]
Answer(rt, options) == [rt |-> rt, options |-> options]

AllResults ==
  [ping |-> {Ping(4, -1, <<>>), Ping(4, 3, <<3, 0, 7>>), Ping(6, 5, <<5>>),
             Ping(4, -1, <<5>>), Ping(4, 3, <<3, Nil>>)},
   traceroute |-> {Trace(<<>>), Trace(<<<<From("d", 5)>>>>),
      Trace(<<<<From("a", 1)>>, <<From("d", 5), From("b", 6)>>>>),
      Trace(<<<<From("a", 1)>>, <<From("d", 5), From("*", 0)>>>>),
      Trace(<<<<From("a", 1)>>, <<From("b", 6)>>>>),
      Trace(<<<<From("a", 1)>>, <<>>>>),
      Trace(<<<<From("a", 1)>>, <<From("d", 5), Nil>>>>),
      Trace(<<<<From("a", 1)>>, Nil>>)},
   ntp |-> {[af |-> 4, dst |-> "d"], [af |-> 6, dst |-> "d"]},
   dns |-> {Dns(4, Nil), Dns(6, Answer(4, <<>>)),
            Dns(4, Answer(0, <<Nil, <<97, 49>>>>)),
            Dns(4, Answer(4, <<<<31>>, <<97>>>>)),
            Dns(4, Answer(4, <<<<200, 97>>>>)), Dns(6, Answer(4, <<<<>>>>))},
   http |-> {Http(<<>>), Http(<<Part("d", 4, 9)>>), Http(<<Part("d", 6, 0)>>),
             Http(<<Part("d", 4, 9), Part("e", 4, 0)>>),
             Http(<<Part("d", 4, 9), Part("d", 4, 8)>>),
             Http(<<Part("d", 4, 9), Nil>>)},
   sslcert |-> {Cert(4, 3, <<"f1">>), Cert(4, 0, <<>>), Cert(4, 3, <<Nil>>),
                Cert(6, 3, <<"f2", "f1">>)}]
=============================================================================
