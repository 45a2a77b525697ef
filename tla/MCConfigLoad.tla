---------------------------- MODULE MCConfigLoad -----------------------------
(* Environment segments with a gap, two spellings of one index and one     *)
(* that is not a number; durations and file sections of every kind.        *)
EXTENDS ConfigLoad, TLC

Segments == {"1", "01", "3", "x"}
SegmentIndex == ("1" :> 1) @@ ("01" :> 1) @@ ("3" :> 3) @@ ("x" :> -1)
Lists == {<<"8809582", "1001">>}
Durations == {30, -1, Malformed}
BoundLists ==
  {Unset, <<>>, <<1, 1, 2>>, <<2, 1>>, <<1, 2, -1>>, <<1, NaN, 2>>}
Sections ==
  {[path |-> "/metrics", tls |-> "files", buckets |-> b] : b \in BoundLists}
  \cup {[path |-> "metrics", tls |-> "off", buckets |-> Unset],
        [path |-> "/atlas", tls |-> "noKey", buckets |-> Unset]}
=============================================================================
