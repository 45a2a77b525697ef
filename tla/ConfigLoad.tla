----------------------------- MODULE ConfigLoad ------------------------------
(***************************************************************************)
(* config.Load (config/loader.go): the layers defaults, file, environment  *)
(* and flags are merged into one tree, measurement indices that the        *)
(* environment can only express as map keys are turned into a list, the    *)
(* tree is decoded and validated.                                          *)
(*                                                                         *)
(* One scalar key stands for those every layer can set (timeout, a         *)
(* duration).  The telemetry path, the TLS files and one list of histogram *)
(* buckets, which Validate looks at, are set by the file.                  *)
(***************************************************************************)
EXTENDS Integers, Sequences, FiniteSetsExt

CONSTANTS
  Unset,         \* a layer does not set a key
  NaN,           \* a bucket written as .nan in the file
  Malformed,     \* a value the decoder refuses
  Default,       \* the built-in value of the scalar key
  Values,        \* values a layer can give to it
  Names,         \* segments after ATLAS_MEASUREMENTS__
  Index,         \* strconv.Atoi of a segment, -1 when it fails
  Ids,           \* measurement ids
  FileLists,     \* measurement lists the file can hold
  FileSections   \* [path, tls, buckets] the file can hold

ASSUME ConfigAssumption ==
  /\ Default \in Nat
  /\ Values \subseteq Int \cup {Malformed}
  /\ IsFiniteSet(Names)
  /\ Index \in [Names -> Int]
  /\ Unset \notin Values \cup {Default}
  /\ Unset \notin Seq(Ids \cup {""})
  /\ \A f \in FileSections :
       f.buckets # Unset => f.buckets \in Seq(Int \cup {NaN})

T == INSTANCE ResultTypes WITH Nil <- Unset

VARIABLES
  in,         \* the inputs: command line, environment and file
  pc,         \* the step Load is at; "ok" and "error" are its results
  timeout,    \* the scalar key in the koanf tree
  list,       \* measurements in the tree when it is a list, else Unset
  envMap,     \* measurements in the tree when it is a map, else empty
  sections    \* the telemetry path, TLS and buckets in the tree

vars == <<in, pc, timeout, list, envMap, sections>>

(* Histogram buckets have no default: nil, not an empty list.              *)
DefaultSections == [path |-> "/metrics", tls |-> "off", buckets |-> Unset]

EmptyMap == [k \in {} |-> Unset]
EnvMaps == UNION {[D -> Ids] : D \in SUBSET Names}

(* "none": no path given; "good": a readable YAML file; "bad": missing or  *)
(* malformed.                                                              *)
Paths == {"none", "good", "bad"}

Inputs ==
  [flagPath : Paths, envPath : Paths,
   file : Values \cup {Unset}, env : Values \cup {Unset},
   flag : Values \cup {Unset},
   list : FileLists \cup {Unset}, envMap : EnvMaps, sections : FileSections]

Init ==
  /\ in \in Inputs
  /\ pc = "defaults"
  /\ timeout = Unset
  /\ list = Unset
  /\ envMap = EmptyMap
  /\ sections = Unset

(* What a layer leaves unset keeps its value. *)
Override(old, new) == IF new = Unset THEN old ELSE new

LoadDefaults ==
  /\ pc = "defaults"
  /\ pc' = "file"
  /\ timeout' = Default
  /\ sections' = DefaultSections
  /\ UNCHANGED <<in, list, envMap>>

(* --config.file, else ATLAS_CONFIG_FILE *)
FilePath == IF in.flagPath # "none" THEN in.flagPath ELSE in.envPath

LoadFile ==
  /\ pc = "file"
  /\ \/ /\ FilePath = "none"
        /\ pc' = "env"
        /\ UNCHANGED <<timeout, list, sections>>
     \/ /\ FilePath = "bad"
        /\ pc' = "error"
        /\ UNCHANGED <<timeout, list, sections>>
     \/ /\ FilePath = "good"
        /\ pc' = "env"
        /\ timeout' = Override(timeout, in.file)
        /\ list' = in.list
        /\ sections' = in.sections
  /\ UNCHANGED <<in, envMap>>

(* A map and a list do not merge: the environment's map replaces the       *)
(* file's list.                                                            *)
LoadEnv ==
  /\ pc = "env"
  /\ pc' = "flags"
  /\ timeout' = Override(timeout, in.env)
  /\ envMap' = in.envMap
  /\ list' = IF in.envMap = EmptyMap THEN list ELSE Unset
  /\ UNCHANGED <<in, sections>>

(* Fault: the flag provider is not given the tree, so the default of a     *)
(* flag that was not used overrides.                                       *)
FlagDefaultsWin == IF in.flag = Unset THEN Default ELSE in.flag

(* posflag.Provider(fs, ".", k): a flag that was not used keeps what the   *)
(* tree has.                                                               *)
FlagValue == Override(timeout, in.flag)

LoadFlags ==
  /\ pc = "flags"
  /\ pc' = "normalize"
  /\ timeout' = FlagValue
  /\ UNCHANGED <<in, list, envMap, sections>>
-----------------------------------------------------------------------------
(* normalizeArrays *)

Indexed(m) == {k \in DOMAIN m : Index[k] >= 0}

(* arr after sort.Slice: Go's map order and the unstable sort leave the    *)
(* order of equal indices ("1" and "01") open.                             *)
Sorted(m) ==
  LET n == Cardinality(Indexed(m))
  IN  {s \in [1 .. n -> Indexed(m)] :
         /\ \A i, j \in 1 .. n : i # j => s[i] # s[j]
         /\ \A i \in 1 .. n - 1 : Index[s[i]] <= Index[s[i + 1]]}

(* Fault: the slice is as long as the number of entries. *)
LenOfCount(arr) == Len(arr)

(* arr[len(arr)-1].idx + 1 *)
OutLen(arr) == Index[arr[Len(arr)]] + 1

(* out: position i + 1 holds the last entry of arr with index i; a gap     *)
(* stays nil and decodes to a Measurement with an empty ID.                *)
Filled(m, arr) ==
  [p \in 1 .. OutLen(arr) |->
     LET at == {j \in DOMAIN arr : Index[arr[j]] = p - 1}
     IN  IF at = {} THEN "" ELSE m[arr[Max(at)]]]

(* Without a numeric key the map stays; the weakly typed decoder makes one *)
(* measurement of it, whose ID is empty.                                   *)
Normalize ==
  /\ pc = "normalize"
  /\ pc' = "decode"
  /\ \/ /\ envMap = EmptyMap
        /\ UNCHANGED list
     \/ /\ envMap # EmptyMap
        /\ Indexed(envMap) = {}
        /\ list' = <<"">>
     \/ /\ Indexed(envMap) # {}
        /\ \E arr \in Sorted(envMap) : list' = Filled(envMap, arr)
  /\ UNCHANGED <<in, timeout, envMap, sections>>

Decode ==
  /\ pc = "decode"
  /\ pc' = IF timeout = Malformed THEN "error" ELSE "validate"
  /\ list' = IF list = Unset THEN <<>> ELSE list
  /\ UNCHANGED <<in, timeout, envMap, sections>>
-----------------------------------------------------------------------------
(* a < b of float64: false when either is NaN. *)
Less(a, b) == a # NaN /\ b # NaN /\ a < b

(* Fault: the comparison starts one element late. *)
ComparesLate(b) ==
  \A i \in DOMAIN b : ~Less(b[i], 0) /\ (i > 2 => ~Less(b[i], b[i - 1]))

(* isNonDecreasingNonNegative: every element is compared with the one      *)
(* before it.                                                              *)
IsNonDecreasingNonNegative(b) ==
  \A i \in DOMAIN b : ~Less(b[i], 0) /\ (i > 1 => ~Less(b[i], b[i - 1]))

BucketsValid(b) == b # Unset => IsNonDecreasingNonNegative(b)

(* tls: "files" names a certificate and a key, "noKey" leaves one out.     *)
Validate ==
  /\ pc = "validate"
  /\ pc' = IF /\ sections.path \notin {"", "metrics"}
              /\ sections.tls # "noKey"
              /\ BucketsValid(sections.buckets)
              /\ timeout >= 0
             THEN "ok" ELSE "error"
  /\ UNCHANGED <<in, timeout, list, envMap, sections>>

Next ==
  \/ LoadDefaults \/ LoadFile \/ LoadEnv \/ LoadFlags \/ Normalize
  \/ Decode \/ Validate

Spec == Init /\ [][Next]_vars
-----------------------------------------------------------------------------
(* The layers that set the scalar key, strongest first.                    *)
Effective ==
  LET layers == <<in.flag, in.env,
                  IF FilePath = "good" THEN in.file ELSE Unset, Default>>
  IN  layers[Min({i \in DOMAIN layers : layers[i] # Unset})]

(* README: "Defaults < YAML file < Environment < Flags".  What Load        *)
(* returns for a key is what the strongest layer that sets it says; in     *)
(* particular a flag that was not used does not hide the file.             *)
Precedence == pc = "ok" => timeout = Effective

(* Every measurement the environment gives an index is found at that       *)
(* index, whatever the gaps and the map order; without the environment the *)
(* file's list is taken as it is.                                          *)
MeasurementsKept ==
  pc = "ok" =>
    /\ \A k \in Indexed(in.envMap) :
         LET i == Index[k] + 1
         IN  /\ i \in DOMAIN list
             /\ \E h \in Indexed(in.envMap) :
                  Index[h] = Index[k] /\ list[i] = in.envMap[h]
    /\ (in.envMap = EmptyMap /\ FilePath = "good" /\ in.list # Unset)
         => list = in.list

(* What Validate lets through, every measurement type can build its        *)
(* histogram from (newRttHistogram, prometheus.NewHistogram), with two     *)
(* exceptions the check does not refuse: equal neighbours, which it        *)
(* accepts and NewHistogram panics on, and NaN.                            *)
HistogramsStart ==
  pc = "ok" =>
    LET b == T!PingBuckets(sections.buckets)
    IN  \/ \E i \in DOMAIN b : b[i] = NaN
        \/ \E i \in 1 .. Len(b) - 1 : b[i] = b[i + 1]
        \/ ~T!NewHistogramPanics(b)
=============================================================================
