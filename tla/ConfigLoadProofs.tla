-------------------------- MODULE ConfigLoadProofs ---------------------------
(***************************************************************************)
(* Load, for any values, environment segments and files.  The invariant    *)
(* says, at each step, what the layers merged so far have made of a key.   *)
(***************************************************************************)
EXTENDS ConfigLoad, FiniteSetTheorems, NaturalsInduction,
        WellFoundedInduction, TLAPS

(* A nonempty set of numbers has a least element. *)
LEMMA LeastNat ==
  ASSUME NEW N, N \subseteq Nat, N # {}
  PROVE  \E m \in N : \A k \in N : m <= k
<1> DEFINE R == {p \in Nat \X Nat : p[1] < p[2]}
<1>1. IsWellFoundedOn(R, Nat)
  BY NatLessThanWellFounded DEF OpToRel
<1>2. \A x, y \in Nat : y < x => <<y, x>> \in R
  OBVIOUS
<1> HIDE DEF R
<1>3. PICK x \in N : \A y \in N : <<y, x>> \notin R
  BY <1>1, WFMin, Zenon
<1>4. ASSUME NEW y \in N PROVE ~(y < x)
  BY <1>2, <1>3, Zenon
<1> QED
  BY <1>4

LEMMA MinIs ==
  ASSUME NEW N, N \subseteq Int, NEW m \in N, \A k \in N : m <= k
  PROVE  Min(N) = m
<1>1. \A x \in N : (\A y \in N : x <= y) => x = m
  OBVIOUS
<1> QED
  BY <1>1, Zenon DEF Min

(* So has one with an upper bound a greatest. *)
LEMMA MaxIn ==
  ASSUME NEW N, NEW b \in Nat, N \subseteq 1 .. b, N # {}
  PROVE  Max(N) \in N
<1> DEFINE M == {b - k : k \in N}
<1>1. M \subseteq Nat /\ M # {}
  <2>1. ASSUME NEW k \in N PROVE b - k \in Nat
    OBVIOUS
  <2> QED
    BY <2>1, Zenon
<1>2. PICK x \in M : \A y \in M : x <= y
  BY <1>1, LeastNat, Zenon
<1>3. PICK m \in N : x = b - m
  OBVIOUS
<1>4. \A k \in N : m >= k
  <2> SUFFICES ASSUME NEW k \in N PROVE m >= k
    OBVIOUS
  <2>1. b - m <= b - k
    BY <1>2, <1>3
  <2> QED
    BY <2>1
<1> QED
  BY <1>4, Zenon DEF Max
-----------------------------------------------------------------------------
(* The scalar key *)

FileValue == IF FilePath = "good" THEN in.file ELSE Unset

Merged ==
  /\ pc = "file" => timeout = Default
  /\ pc = "env" => timeout = Override(Default, FileValue)
  /\ pc = "flags" =>
       timeout = Override(Override(Default, FileValue), in.env)
  /\ pc \in {"normalize", "decode", "validate", "ok"} =>
       timeout = Override(Override(Override(Default, FileValue), in.env),
                          in.flag)

LEMMA MergedStep == Merged /\ [Next]_vars => Merged'
<1> SUFFICES ASSUME Merged, [Next]_vars PROVE Merged'
  OBVIOUS
<1>1. UNCHANGED in /\ FileValue' = FileValue
  BY Zenon
  DEF Next, LoadDefaults, LoadFile, LoadEnv, LoadFlags, Normalize, Decode,
      Validate, vars, FileValue, FilePath
<1>2. CASE LoadDefaults
  BY <1>2 DEF LoadDefaults, Merged
<1>3. CASE LoadFile
  BY <1>1, <1>3 DEF LoadFile, Merged, FileValue, Override
<1>4. CASE LoadEnv
  BY <1>1, <1>4 DEF LoadEnv, Merged
<1>5. CASE LoadFlags
  BY <1>1, <1>5 DEF LoadFlags, FlagValue, Merged
<1>6. CASE Normalize
  BY <1>1, <1>6, Zenon DEF Normalize, Merged
<1>7. CASE Decode
  BY <1>1, <1>7 DEF Decode, Merged
<1>8. CASE Validate
  BY <1>1, <1>8, Zenon DEF Validate, Merged
<1>9. CASE UNCHANGED vars
  BY <1>1, <1>9 DEF vars, Merged
<1> QED
  BY <1>2, <1>3, <1>4, <1>5, <1>6, <1>7, <1>8, <1>9 DEF Next

(* Merging from the weakest layer on is asking the strongest first. *)
LEMMA MergeIsEffective ==
  Override(Override(Override(Default, FileValue), in.env), in.flag)
    = Effective
<1> DEFINE layers == <<in.flag, in.env, FileValue, Default>>
           set == {i \in DOMAIN layers : layers[i] # Unset}
<1>1. Effective = layers[Min(set)]
  BY Zenon DEF Effective, FileValue
<1>2. Default # Unset
  BY ConfigAssumption, Zenon
<1>3. DOMAIN layers = 1 .. 4
  OBVIOUS
<1>4. set \subseteq Int /\ 4 \in set
  BY <1>2
<1>5. CASE in.flag # Unset
  <2>1. Min(set) = 1
    <3>1. 1 \in set /\ \A k \in set : 1 <= k
      BY <1>5
    <3> QED
      BY <1>4, <3>1, MinIs
  <2> QED
    BY <1>1, <1>5, <2>1 DEF Override
<1>6. CASE in.flag = Unset /\ in.env # Unset
  <2>1. Min(set) = 2
    <3>1. 2 \in set /\ \A k \in set : 2 <= k
      BY <1>6
    <3> QED
      BY <1>4, <3>1, MinIs
  <2> QED
    BY <1>1, <1>6, <2>1 DEF Override
<1>7. CASE in.flag = Unset /\ in.env = Unset /\ FileValue # Unset
  <2>1. Min(set) = 3
    <3>1. 3 \in set /\ \A k \in set : 3 <= k
      BY <1>7
    <3> QED
      BY <1>4, <3>1, MinIs
  <2> QED
    BY <1>1, <1>7, <2>1 DEF Override
<1>8. CASE in.flag = Unset /\ in.env = Unset /\ FileValue = Unset
  <2>1. Min(set) = 4
    <3>1. 4 \in set /\ \A k \in set : 4 <= k
      BY <1>4, <1>8
    <3> QED
      BY <1>4, <3>1, MinIs
  <2> QED
    BY <1>1, <1>8, <2>1 DEF Override
<1> QED
  BY <1>5, <1>6, <1>7, <1>8

(* README: "Defaults < YAML file < Environment < Flags": the value Load    *)
(* returns is that of the strongest layer which sets the key               *)
(* (config/loader.go).                                                     *)
THEOREM PrecedenceHolds == Spec => []Precedence
<1>1. Init => Merged
  BY DEF Init, Merged
<1>2. Merged => Precedence
  BY MergeIsEffective DEF Merged, Precedence
<1> QED
  BY <1>1, <1>2, MergedStep, PTL DEF Spec
-----------------------------------------------------------------------------
(* Measurements *)

(* arr holds every numbered segment, in the order of the indices.          *)
LEMMA SortedComplete ==
  ASSUME NEW m \in EnvMaps, NEW arr \in Sorted(m)
  PROVE  /\ Indexed(m) \subseteq Names
         /\ arr \in Seq(Indexed(m))
         /\ \A k \in Indexed(m) : \E i \in 1 .. Len(arr) : arr[i] = k
         /\ \A i, j \in 1 .. Len(arr) :
              i <= j => Index[arr[i]] <= Index[arr[j]]
<1> DEFINE n == Cardinality(Indexed(m))
<1>1. Indexed(m) \subseteq Names
  BY DEF Indexed, EnvMaps
<1>2. IsFiniteSet(Indexed(m)) /\ n \in Nat
  BY <1>1, ConfigAssumption, FS_Subset, FS_CardinalityType, Zenon
<1>3. /\ arr \in [1 .. n -> Indexed(m)]
      /\ \A i, j \in 1 .. n : i # j => arr[i] # arr[j]
      /\ \A i \in 1 .. n - 1 : Index[arr[i]] <= Index[arr[i + 1]]
  BY Zenon DEF Sorted
<1>4. Cardinality(1 .. n) = n
  <2>1. \A a, b \in Int : Cardinality(a .. b) = IF a > b THEN 0 ELSE b - a + 1
    BY FS_Interval, Zenon
  <2> HIDE DEF n
  <2> QED
    BY <1>2, <2>1
<1> HIDE DEF n
<1>5. arr \in Injection(1 .. n, Indexed(m))
  BY <1>3 DEF Injection, IsInjective
<1>6. arr \in Surjection(1 .. n, Indexed(m))
  BY <1>2, <1>4, <1>5, FS_Injection DEF n
<1>7. arr \in Seq(Indexed(m)) /\ Len(arr) = n
  BY <1>2, <1>3
<1>8. \A k \in Indexed(m) : \E i \in 1 .. n : arr[i] = k
  BY <1>6 DEF Surjection
<1>9. ASSUME NEW i \in 1 .. n, NEW j \in 1 .. n, i <= j
      PROVE  Index[arr[i]] <= Index[arr[j]]
  <2> DEFINE bad == {d \in Nat : i + d <= n
                                 /\ ~(Index[arr[i]] <= Index[arr[i + d]])}
  <2>1. \A d \in 1 .. n : Index[arr[d]] \in Int
    BY <1>1, <1>3, ConfigAssumption, Zenon
  <2>2. bad = {}
    <3> SUFFICES ASSUME bad # {} PROVE FALSE
      OBVIOUS
    <3>1. bad \subseteq Nat
      OBVIOUS
    <3>2. PICK d \in bad : \A e \in bad : d <= e
      BY <3>1, LeastNat, Zenon
    <3>3. d \in Nat /\ i + d <= n /\ ~(Index[arr[i]] <= Index[arr[i + d]])
      OBVIOUS
    <3>4. d # 0
      BY <1>2, <2>1, <3>3
    <3>5. d - 1 \in Nat /\ d - 1 \notin bad /\ i + (d - 1) \in 1 .. n - 1
      BY <1>2, <3>2, <3>3, <3>4
    <3>6. Index[arr[i]] <= Index[arr[i + (d - 1)]]
      BY <1>2, <3>3, <3>5
    <3> HIDE DEF bad
    <3>7. Index[arr[i + (d - 1)]] <= Index[arr[i + d]]
      <4>1. (i + (d - 1)) + 1 = i + d
        BY <1>2, <3>3
      <4> QED
        BY <1>3, <3>5, <4>1
    <3> QED
      BY <1>2, <2>1, <3>3, <3>5, <3>6, <3>7
  <2>3. j - i \in Nat /\ i + (j - i) = j
    BY <1>2, <1>9
  <2>4. j - i \notin bad
    BY <2>2, Zenon
  <2> QED
    BY <1>2, <2>3, <2>4
<1> QED
  BY <1>1, <1>7, <1>8, <1>9

(* Every numbered entry is found at its index, or another one with the     *)
(* same index.                                                             *)
Found(l, m) ==
  \A k \in Indexed(m) :
    /\ Index[k] + 1 \in DOMAIN l
    /\ \E h \in Indexed(m) : Index[h] = Index[k] /\ l[Index[k] + 1] = m[h]

LEMMA FilledFinds ==
  ASSUME NEW m \in EnvMaps, Indexed(m) # {}, NEW arr \in Sorted(m)
  PROVE  Found(Filled(m, arr), m) /\ Filled(m, arr) # Unset
<1>1. /\ Indexed(m) \subseteq Names /\ Indexed(m) \subseteq DOMAIN m
      /\ \A k \in Indexed(m) : Index[k] \in Nat /\ m[k] \in Ids
  <2>1. Index \in [Names -> Int]
    BY ConfigAssumption, Zenon
  <2> QED
    BY <2>1 DEF Indexed, EnvMaps
<1>2. /\ arr \in Seq(Indexed(m))
      /\ \A k \in Indexed(m) : \E i \in 1 .. Len(arr) : arr[i] = k
      /\ \A i, j \in 1 .. Len(arr) : i <= j => Index[arr[i]] <= Index[arr[j]]
  BY SortedComplete
<1>3. Len(arr) \in Nat /\ Len(arr) >= 1 /\ DOMAIN arr = 1 .. Len(arr)
  BY <1>2
<1>4. \A i \in 1 .. Len(arr) : arr[i] \in Indexed(m)
  BY <1>2
<1>5. OutLen(arr) \in Nat
  BY <1>1, <1>3, <1>4 DEF OutLen
<1> DEFINE At(p) == {j \in DOMAIN arr : Index[arr[j]] = p - 1}
           Entry(p) == IF At(p) = {} THEN "" ELSE m[arr[Max(At(p))]]
<1>6. Filled(m, arr) = [p \in 1 .. OutLen(arr) |-> Entry(p)]
  BY Zenon DEF Filled
<1>7. ASSUME NEW p, At(p) # {} PROVE Max(At(p)) \in At(p)
  <2>1. At(p) \subseteq 1 .. Len(arr)
    BY <1>3
  <2> HIDE DEF At
  <2> QED
    BY <1>3, <1>7, <2>1, MaxIn, Zenon
<1>8. ASSUME NEW p, At(p) # {}
      PROVE  \E h \in Indexed(m) : Index[h] = p - 1 /\ Entry(p) = m[h]
  <2> DEFINE h == arr[Max(At(p))]
  <2>1. Max(At(p)) \in DOMAIN arr /\ Index[h] = p - 1
    BY <1>7, <1>8, Zenon
  <2>2. h \in Indexed(m)
    BY <1>3, <1>4, <2>1, Zenon
  <2>3. Entry(p) = m[h]
    BY <1>8, Zenon
  <2> QED
    BY <2>1, <2>2, <2>3, Zenon
<1>9. ASSUME NEW k \in Indexed(m)
      PROVE  /\ Index[k] + 1 \in 1 .. OutLen(arr)
             /\ At(Index[k] + 1) # {}
  <2>1. PICK i \in 1 .. Len(arr) : arr[i] = k
    BY <1>2
  <2>2. Index[k] <= Index[arr[Len(arr)]] /\ Index[k] \in Nat
    BY <1>1, <1>2, <1>3, <2>1
  <2>3. Index[arr[Len(arr)]] \in Nat
    BY <1>1, <1>3, <1>4
  <2>4. i \in At(Index[k] + 1)
    BY <1>3, <2>1, <2>2
  <2> HIDE DEF At
  <2> QED
    BY <2>2, <2>3, <2>4 DEF OutLen
<1>10. ASSUME NEW p PROVE Entry(p) \in Ids \cup {""}
  BY <1>1, <1>8, Zenon
<1> HIDE DEF Entry, At
<1>11. Filled(m, arr) \in Seq(Ids \cup {""})
  <2> DEFINE S == Ids \cup {""}
  <2>1. \A p : Entry(p) \in S
    BY <1>10, Zenon
  <2> HIDE DEF S
  <2>2. Filled(m, arr) \in Seq(S)
    BY <1>5, <1>6, <2>1
  <2> QED
    BY <2>2, Zenon DEF S
<1>12. Filled(m, arr) # Unset
  BY <1>11, ConfigAssumption, Zenon
<1>13. ASSUME NEW k \in Indexed(m)
       PROVE  /\ Index[k] + 1 \in DOMAIN Filled(m, arr)
              /\ \E h \in Indexed(m) :
                   /\ Index[h] = Index[k]
                   /\ Filled(m, arr)[Index[k] + 1] = m[h]
  <2>1. PICK h \in Indexed(m) : /\ Index[h] = (Index[k] + 1) - 1
                                /\ Entry(Index[k] + 1) = m[h]
    BY <1>8, <1>9, Zenon
  <2>2. Index[h] = Index[k]
    BY <1>1, <2>1
  <2> QED
    BY <1>6, <1>9, <2>1, <2>2
<1> QED
  BY <1>12, <1>13, Zenon DEF Found

FileList == IF FilePath = "good" THEN in.list ELSE Unset

(* The environment's map replaces the file's list, and the list the map is *)
(* made into finds every entry.                                            *)
Listed ==
  /\ in.envMap \in EnvMaps
  /\ pc \in {"defaults", "file"} => list = Unset
  /\ pc = "env" => list = FileList
  /\ pc \in {"flags", "normalize"} => envMap = in.envMap
  /\ pc \in {"flags", "normalize", "decode"} /\ in.envMap = EmptyMap =>
       list = FileList
  /\ pc \in {"decode", "validate", "ok"} => Found(list, in.envMap)
  /\ pc = "decode" /\ Indexed(in.envMap) # {} => list # Unset
  /\ pc \in {"validate", "ok"} /\ in.envMap = EmptyMap =>
       FileList = Unset \/ list = FileList

LEMMA ListedInit == Init => Listed
  BY DEF Init, Listed, Inputs

LEMMA ListedStep == Listed /\ [Next]_vars => Listed'
<1> SUFFICES ASSUME Listed, [Next]_vars PROVE Listed'
  OBVIOUS
<1>1. UNCHANGED in /\ FileList' = FileList
  BY Zenon
  DEF Next, LoadDefaults, LoadFile, LoadEnv, LoadFlags, Normalize, Decode,
      Validate, vars, FileList, FilePath
<1>2. Indexed(EmptyMap) = {}
  BY DEF Indexed, EmptyMap
<1>3. CASE LoadDefaults
  BY <1>1, <1>3 DEF LoadDefaults, Listed
<1>4. CASE LoadFile
  BY <1>1, <1>4 DEF LoadFile, Listed, FileList
<1>5. CASE LoadEnv
  BY <1>1, <1>5 DEF LoadEnv, Listed
<1>6. CASE LoadFlags
  BY <1>1, <1>6 DEF LoadFlags, Listed
<1>7. CASE Normalize
  <2>1. /\ pc = "normalize" /\ pc' = "decode" /\ envMap = in.envMap
        /\ in.envMap \in EnvMaps
    BY <1>7, Zenon DEF Normalize, Listed
  <2>2. CASE in.envMap = EmptyMap
    BY <1>1, <1>2, <1>7, <2>1, <2>2 DEF Normalize, Listed, Found
  <2>3. CASE in.envMap # EmptyMap /\ Indexed(in.envMap) = {}
    BY <1>1, <2>1, <2>3, Zenon DEF Listed, Found
  <2>4. CASE Indexed(in.envMap) # {}
    <3>1. \E arr \in Sorted(in.envMap) : list' = Filled(in.envMap, arr)
      BY <1>2, <1>7, <2>1, <2>4, Zenon DEF Normalize
    <3>2. Found(list', in.envMap) /\ list' # Unset
      BY <2>1, <2>4, <3>1, FilledFinds, Zenon
    <3> QED
      BY <1>1, <1>2, <2>1, <2>4, <3>2, Zenon DEF Listed
  <2> QED
    BY <2>2, <2>3, <2>4
<1>8. CASE Decode
  <2>1. Found(list', in.envMap)
    BY <1>8 DEF Decode, Listed, Found
  <2> QED
    BY <1>1, <1>8, <2>1 DEF Decode, Listed
<1>9. CASE Validate
  BY <1>1, <1>9, Zenon DEF Validate, Listed
<1>10. CASE UNCHANGED vars
  BY <1>1, <1>10 DEF vars, Listed
<1> QED
  BY <1>3, <1>4, <1>5, <1>6, <1>7, <1>8, <1>9, <1>10 DEF Next

(* Every measurement the environment numbers is loaded at its index,       *)
(* whatever the gaps, and the file's list is taken when the environment    *)
(* has none (normalizeArrays in config/loader.go).                         *)
THEOREM MeasurementsKeptHolds == Spec => []MeasurementsKept
<1>1. Listed => MeasurementsKept
  BY Zenon DEF Listed, MeasurementsKept, Found, FileList
<1> QED
  BY <1>1, ListedInit, ListedStep, PTL DEF Spec
-----------------------------------------------------------------------------
(* Histogram buckets *)

Checked ==
  /\ in.sections \in FileSections
  /\ pc # "defaults" => sections \in FileSections \cup {DefaultSections}
  /\ pc = "ok" => BucketsValid(sections.buckets)

LEMMA CheckedStep == Checked /\ [Next]_vars => Checked'
<1> SUFFICES ASSUME Checked, [Next]_vars PROVE Checked'
  OBVIOUS
<1> USE DEF Checked
<1>1. CASE LoadDefaults
  BY <1>1 DEF LoadDefaults
<1>2. CASE LoadFile
  BY <1>2 DEF LoadFile
<1>3. CASE LoadEnv \/ LoadFlags \/ Normalize \/ Decode
  BY <1>3, Zenon DEF LoadEnv, LoadFlags, Normalize, Decode
<1>4. CASE Validate
  BY <1>4, Zenon DEF Validate
<1>5. CASE UNCHANGED vars
  BY <1>5 DEF vars
<1> QED
  BY <1>1, <1>2, <1>3, <1>4, <1>5 DEF Next

(* Buckets that Validate accepts start the exporter, unless two are equal  *)
(* or one is NaN: what is left once both are excluded increases            *)
(* (isNonDecreasingNonNegative in config/loader.go).                       *)
THEOREM HistogramsStartHolds == Spec => []HistogramsStart
<1>1. Init => Checked
  BY DEF Init, Checked, Inputs
<1>2. Checked => HistogramsStart
  <2> SUFFICES ASSUME Checked, pc = "ok" PROVE HistogramsStart
    BY DEF HistogramsStart
  <2> DEFINE c == sections.buckets
             b == T!PingBuckets(c)
  <2>1. BucketsValid(c) /\ sections \in FileSections \cup {DefaultSections}
    BY DEF Checked
  <2>2. CASE c = Unset
    <3>1. b = <<10, 20, 50, 100>>
      BY <2>2 DEF T!PingBuckets
    <3> HIDE DEF b
    <3>2. ~T!NewHistogramPanics(b)
      BY <3>1 DEF T!NewHistogramPanics
    <3> QED
      BY <3>2, Zenon DEF HistogramsStart, b
  <2>3. CASE c # Unset
    <3>1. b = c
      BY <2>3 DEF T!PingBuckets
    <3>2. c \in Seq(Int \cup {NaN})
      <4>1. DefaultSections.buckets = Unset
        BY DEF DefaultSections
      <4>2. sections \in FileSections
        BY <2>1, <2>3, <4>1, Zenon
      <4> QED
        BY <2>3, <4>2, ConfigAssumption, Zenon
    <3> HIDE DEF b, c
    <3>3. Len(c) \in Nat /\ DOMAIN c = 1 .. Len(c)
      BY <3>2
    <3>4. ASSUME ~\E i \in DOMAIN c : c[i] = NaN,
                 ~\E i \in 1 .. Len(c) - 1 : c[i] = c[i + 1]
          PROVE  ~T!NewHistogramPanics(c)
      <4> SUFFICES ASSUME NEW k \in 1 .. Len(c) - 1 PROVE ~(c[k] >= c[k + 1])
        BY DEF T!NewHistogramPanics
      <4>1. k \in DOMAIN c /\ k + 1 \in DOMAIN c
        BY <3>3
      <4>2. c[k] \in Int /\ c[k + 1] \in Int /\ c[k] # c[k + 1]
        BY <3>2, <3>4, <4>1
      <4>3. ~(c[k + 1] < c[k])
        <5>1. k + 1 > 1 /\ (k + 1) - 1 = k
          OBVIOUS
        <5>2. ~Less(c[k + 1], c[(k + 1) - 1])
          BY <2>1, <2>3, <4>1, <5>1, Zenon
          DEF BucketsValid, IsNonDecreasingNonNegative
        <5> QED
          BY <3>4, <4>1, <5>1, <5>2 DEF Less
      <4> QED
        BY <4>2, <4>3
    <3> QED
      BY <3>1, <3>4, Zenon DEF HistogramsStart, b, c
  <2> QED
    BY <2>2, <2>3
<1> QED
  BY <1>1, <1>2, CheckedStep, PTL DEF Spec
=============================================================================
