--------------------------- MODULE StreamingProofs ---------------------------
(***************************************************************************)
(* Proofs about Streaming, for every set of workers, ids, keys and probes, *)
(* every buffer size and every bound.                                      *)
(***************************************************************************)
EXTENDS Streaming, FiniteSetTheorems, WellFoundedInduction, TLAPS

(* Powers of two.  The provers know nothing of exponents, so the doubling  *)
(* law is derived from the recursive definition of Pow2; induction is by   *)
(* a least counterexample.                                                 *)

(* A set of natural numbers that is not empty has a least element. *)
LEMMA LeastNat ==
  ASSUME NEW T, T \subseteq Nat, T # {}
  PROVE  \E m \in T : \A k \in T : m <= k
<1> DEFINE R == {p \in Nat \X Nat : p[1] < p[2]}
<1>1. IsWellFoundedOn(R, Nat)
  BY NatLessThanWellFounded DEF OpToRel
<1>2. \A x, y \in Nat : y < x => <<y, x>> \in R
  OBVIOUS
<1> HIDE DEF R
<1>3. PICK x \in T : \A y \in T : <<y, x>> \notin R
  BY <1>1, WFMin, Zenon
<1>4. ASSUME NEW y \in T PROVE ~(y < x)
  BY <1>2, <1>3, Zenon
<1> QED
  BY <1>4

(* The values of Pow2 up to n. *)
Doubles(f, n) ==
  /\ f \in [0 .. n -> Nat \ {0}]
  /\ f[0] = 1
  /\ \A k \in 1 .. n : f[k] = 2 * f[k - 1]

LEMMA DoublesUnique ==
  ASSUME NEW n \in Nat, NEW m \in 0 .. n, NEW f, NEW g,
         Doubles(f, n), Doubles(g, m)
  PROVE  f[m] = g[m]
<1> DEFINE T == {k \in 0 .. m : f[k] # g[k]}
<1>1. SUFFICES ASSUME T # {} PROVE FALSE
  OBVIOUS
<1>2. PICK k \in T : \A j \in T : k <= j
  <2>1. T \subseteq Nat
    OBVIOUS
  <2> HIDE DEF T
  <2> QED
    BY <1>1, <2>1, LeastNat, Zenon
<1>3. k # 0
  BY DEF Doubles
<1>4. k - 1 \in 0 .. m /\ f[k - 1] = g[k - 1]
  BY <1>2, <1>3
<1> QED
  BY <1>3, <1>4 DEF Doubles

LEMMA DoublesExist == \A n \in Nat : \E f : Doubles(f, n)
<1> DEFINE T == {n \in Nat : ~\E f : Doubles(f, n)}
<1>1. SUFFICES ASSUME T # {} PROVE FALSE
  OBVIOUS
<1>2. PICK n \in T : \A j \in T : n <= j
  <2>1. T \subseteq Nat
    OBVIOUS
  <2> HIDE DEF T
  <2> QED
    BY <1>1, <2>1, LeastNat, Zenon
<1>3. n # 0
  <2>1. Doubles([k \in 0 .. 0 |-> 1], 0)
    BY DEF Doubles
  <2> QED
    BY <2>1
<1>4. PICK f : Doubles(f, n - 1)
  BY <1>2, <1>3
<1>5. Doubles([k \in 0 .. n |-> IF k = n THEN 2 * f[n - 1] ELSE f[k]], n)
  BY <1>3, <1>4 DEF Doubles
<1> QED
  BY <1>5

(* A shift by one more bit doubles. *)
LEMMA Pow2Doubles ==
  /\ \A n \in Nat : Pow2[n] \in Nat \ {0}
  /\ Pow2[0] = 1
  /\ \A n \in Nat : Pow2[n + 1] = 2 * Pow2[n]
<1> DEFINE F(n) == CHOOSE f : Doubles(f, n)
           p == [n \in Nat |-> F(n)[n]]
<1>1. \A n \in Nat : Doubles(F(n), n)
  BY DoublesExist
<1>2. ASSUME NEW n \in Nat \ {0} PROVE p[n] = 2 * p[n - 1]
  <2> DEFINE f == F(n)
             g == F(n - 1)
  <2>1. Doubles(f, n) /\ Doubles(g, n - 1)
    BY <1>1
  <2> HIDE DEF f, g
  <2>2. f[n - 1] = g[n - 1]
    BY <2>1, DoublesUnique
  <2>3. f[n] = 2 * g[n - 1]
    BY <2>1, <2>2 DEF Doubles
  <2> QED
    BY <2>3 DEF f, g
<1>3. p[0] = 1
  BY <1>1, Zenon DEF Doubles
<1>4. p = [n \in Nat |-> p[n]]
  OBVIOUS
<1> HIDE DEF p
<1>5. p = [n \in Nat |-> IF n = 0 THEN 1 ELSE 2 * p[n - 1]]
  BY <1>2, <1>3, <1>4, Zenon
<1>6. Pow2 = [n \in Nat |-> IF n = 0 THEN 1 ELSE 2 * Pow2[n - 1]]
  BY <1>5, Zenon DEF Pow2
<1>7. Pow2[0] = 1 /\ \A n \in Nat : Pow2[n + 1] = 2 * Pow2[n]
  BY <1>6
<1> DEFINE T == {n \in Nat : Pow2[n] \notin Nat \ {0}}
<1>8. T = {}
  <2>1. SUFFICES ASSUME T # {} PROVE FALSE
    OBVIOUS
  <2>2. PICK n \in T : \A j \in T : n <= j
    <3>1. T \subseteq Nat
      OBVIOUS
    <3> HIDE DEF T
    <3> QED
      BY <2>1, <3>1, LeastNat, Zenon
  <2>3. n # 0 /\ n - 1 \in Nat /\ n - 1 \notin T
    BY <1>7, <2>2
  <2>4. Pow2[(n - 1) + 1] = 2 * Pow2[n - 1]
    BY <1>7, <2>3
  <2> QED
    BY <2>3, <2>4
<1> QED
  BY <1>7, <1>8

LEMMA HalfNat == Half \in Nat \ {0}
  BY Pow2Doubles, BackoffAssumption DEF Half

(* Every delay getRetryDelay returns is an integer. *)
LEMMA DelayInt ==
  ASSUME NEW n \in Nat, NEW d \in RetryDelays(n)
  PROVE  d \in Int
<1>1. BaseDelay(n) \in Int
  BY Pow2Doubles, HalfNat, BackoffAssumption DEF BaseDelay, Wrap
<1>2. CappedDelay(n) \in Int
  BY <1>1, BackoffAssumption DEF CappedDelay
<1> QED
  BY <1>2 DEF RetryDelays

-----------------------------------------------------------------------------
(* A worker that subscribed has a numeric id and holds a result while it   *)
(* sends one; the processor has one while it is busy.  Without this the    *)
(* results that enter resultCh could not be shown to be results.           *)
HeldOK ==
  /\ \A w \in Workers :
       pc[w] \in {"connect", "listen", "send"} => Atoi[IdOf[w]] \in Keys
  /\ \A w \in Workers : pc[w] = "send" => held[w] \in Result
  /\ Busy => cur \in Result

(* The Boolean conjuncts of TypeOK, which get a step of their own. *)
FlagsTyped ==
  ctxDone \in BOOLEAN /\ cacheReady \in BOOLEAN /\ curValid \in BOOLEAN

(* The inductive invariant of the first part. *)
TypeInv == TypeOK /\ HeldOK /\ ConnectedCount

(* The workers that count as connected are finitely many. *)
LEMMA CountedFinite == IsFiniteSet(Counted) /\ Cardinality(Counted) \in Nat
  BY StreamingAssumption, FS_Subset, FS_CardinalityType DEF Counted

(* A new streamingStrategy satisfies the invariant. *)
LEMMA TypeInit == Init => TypeInv
<1> SUFFICES ASSUME Init PROVE TypeInv
  OBVIOUS
<1>1. Counted = {}
  BY DEF Init, Counted
<1>2. ConnectedCount
  BY <1>1, FS_EmptySet DEF Init, ConnectedCount
<1>3. HeldOK
  BY DEF Init, HeldOK, Busy
<1>4. measurements \in [Keys -> Measurement]
  <2>1. Absent \in Measurement
    BY DEF Absent, Measurement
  <2> QED
    BY <2>1 DEF Init
<1>5. FlagsTyped
  BY Zenon DEF Init, FlagsTyped
<1>6. TypeOK
  BY <1>4, <1>5, StoreAssumption, StreamingAssumption
  DEF Init, TypeOK, FlagsTyped, WorkerStates, ProcStates, Outcomes
<1> QED
  BY <1>2, <1>3, <1>6 DEF TypeInv

(* Steps that neither count nor discount a worker keep the count right. *)
LEMMA CountKept ==
  ASSUME ConnectedCount, UNCHANGED connectedWorkers, Counted' = Counted
  PROVE  ConnectedCount'
  BY DEF ConnectedCount

(* What EnterSelect leaves behind. *)
LEMMA EnterSelectTyped ==
  ASSUME TypeOK, NEW w \in Workers, EnterSelect(w, retryAttempt[w] + 1)
  PROVE  /\ Goto(w, "dead") \/ Goto(w, "wait")
         /\ pc' \in [Workers -> WorkerStates]
         /\ retryAttempt' \in [Workers -> Nat]
         /\ delay' \in [Workers -> Int]
<1>1. Goto(w, "dead") \/ Goto(w, "wait")
  BY DEF EnterSelect
<1>2. pc' \in [Workers -> WorkerStates]
  BY <1>1, Zenon DEF TypeOK, Goto, WorkerStates
<1>3. retryAttempt' \in [Workers -> Nat]
  BY DEF EnterSelect, TypeOK
<1>4. delay' \in [Workers -> Int]
  BY <1>3, DelayInt DEF EnterSelect, TypeOK
<1> QED
  BY <1>1, <1>2, <1>3, <1>4

(* Adding a result to the measurements map leaves a measurements map. *)
LEMMA AddToTyped ==
  ASSUME NEW store \in [Keys -> Measurement], NEW r \in Result, NEW valid
  PROVE  AddTo(store, r, valid) \in [Keys -> Measurement]
<1>1. ASSUME NEW mes \in Measurement
      PROVE  Stored(mes, r) \in Measurement
  BY StoreAssumption DEF Stored, Measurement, Result
<1>2. CASE Accepts(valid)
  BY <1>1, <1>2, Zenon DEF AddTo
<1>3. CASE ~Accepts(valid)
  <2>1. ASSUME NEW mes \in Measurement
        PROVE  [mes EXCEPT !.created = TRUE] \in Measurement
    BY Zenon DEF Measurement
  <2> QED
    BY <1>3, <2>1, Zenon DEF AddTo
<1> QED
  BY <1>2, <1>3

(* Every step of a worker, the processor or a readiness check keeps it.   *)
LEMMA TypeStep == TypeInv /\ [Next]_vars => TypeInv'
<1> SUFFICES ASSUME TypeInv, [Next]_vars PROVE TypeInv'
  OBVIOUS
<1> USE StoreAssumption, StreamingAssumption
    DEF TypeInv, TypeOK, envVars, senderVars, workerVars, retryVars,
        gaugeVars, readerVars, procVars, dataVars, healthVars, auxVars,
        FlagsTyped
<1>1. CASE Cancel \/ InitCache \/ Tick
  <2>1. Counted' = Counted
    BY <1>1 DEF Cancel, InitCache, Tick, Counted
  <2>2. HeldOK'
    BY <1>1 DEF Cancel, InitCache, Tick, HeldOK, Busy
  <2>3. FlagsTyped'
    BY <1>1, Zenon DEF Cancel, InitCache, Tick
  <2>4. TypeOK'
    BY <1>1, <2>3, SMTT(30) DEF Cancel, InitCache, Tick
  <2> QED
    BY <1>1, <2>1, <2>2, <2>4, CountKept DEF Cancel, InitCache, Tick
<1>2. ASSUME NEW w \in Workers, SubscribeFail(w) PROVE TypeInv'
  <2>1. Counted' = Counted
    BY <1>2 DEF SubscribeFail, EnterSelect, Goto, Counted
  <2>2. HeldOK'
    BY <1>2 DEF SubscribeFail, EnterSelect, Goto, HeldOK, Busy
  <2>3. FlagsTyped'
    BY <1>2 DEF SubscribeFail
  <2>4. TypeOK'
    BY <1>2, <2>3, EnterSelectTyped DEF SubscribeFail
  <2> QED
    BY <1>2, <2>1, <2>2, <2>4, CountKept DEF SubscribeFail
<1>3. ASSUME NEW w \in Workers, Subscribe(w) PROVE TypeInv'
  <2>1. Counted' = Counted \cup {w} /\ w \notin Counted
    BY <1>3 DEF Subscribe, Goto, Counted
  <2>2. ConnectedCount'
    BY <1>3, <2>1, CountedFinite, FS_AddElement, Zenon
    DEF Subscribe, ConnectedCount
  <2>3. HeldOK'
    BY <1>3 DEF Subscribe, MaySubscribe, Goto, HeldOK, Busy
  <2>4. FlagsTyped'
    BY <1>3 DEF Subscribe
  <2>5. TypeOK'
    BY <1>3, <2>4 DEF Subscribe, AttemptReset, Goto, WorkerStates
  <2> QED
    BY <2>2, <2>3, <2>5
<1>4. ASSUME NEW w \in Workers, SetConnected(w) PROVE TypeInv'
  <2>1. Counted' = Counted
    BY <1>4 DEF SetConnected, Goto, Counted
  <2>2. HeldOK'
    BY <1>4 DEF SetConnected, Goto, HeldOK, Busy
  <2>3. FlagsTyped'
    BY <1>4 DEF SetConnected
  <2>4. TypeOK'
    BY <1>4, <2>3 DEF SetConnected, Goto, WorkerStates
  <2> QED
    BY <1>4, <2>1, <2>2, <2>4, CountKept DEF SetConnected
<1>5. ASSUME NEW w \in Workers, ReceiveResult(w) PROVE TypeInv'
  <2>1. Counted' = Counted
    BY <1>5 DEF ReceiveResult, Goto, Counted
  <2>2. PICK r \in Deliverable(w) : held' = [held EXCEPT ![w] = r]
    BY <1>5, Zenon DEF ReceiveResult
  <2>3. r \in Result
    BY <1>5, <2>2, SMTT(30) DEF ReceiveResult, Deliverable, Result, HeldOK
  <2>4. HeldOK'
    BY <1>5, <2>2, <2>3 DEF ReceiveResult, Goto, HeldOK, Busy
  <2>5. FlagsTyped'
    BY <1>5 DEF ReceiveResult
  <2>6. received' \in 0 .. MaxReceived
    BY <1>5 DEF ReceiveResult
  <2>7. outcome' \in [1 .. MaxReceived -> Outcomes]
    BY <1>5 DEF ReceiveResult, Outcomes
  <2>8. TypeOK'
    BY <1>5, <2>2, <2>3, <2>5, <2>6, <2>7 DEF ReceiveResult, Goto, WorkerStates
  <2> QED
    BY <1>5, <2>1, <2>4, <2>8, CountKept DEF ReceiveResult
<1>6. ASSUME NEW w \in Workers, StreamEnds(w) \/ ListenCancelled(w)
      PROVE  TypeInv'
  <2> USE DEF StreamEnds, ListenCancelled, LeaveListen, Goto
  <2>1. Counted' = Counted
    BY <1>6 DEF Counted
  <2>2. HeldOK'
    BY <1>6 DEF HeldOK, Busy
  <2>3. FlagsTyped'
    BY <1>6
  <2>4. TypeOK'
    BY <1>6, <2>3, Zenon DEF WorkerStates
  <2> QED
    BY <1>6, <2>1, <2>2, <2>4, CountKept
<1>7. ASSUME NEW w \in Workers, Send(w) PROVE TypeInv'
  <2>1. Counted' = Counted
    BY <1>7 DEF Send, Goto, Counted
  <2>2. resultCh' \in Seq(Result)
    BY <1>7 DEF Send, Enqueue, HeldOK
  <2>3. HeldOK'
    BY <1>7 DEF Send, Goto, HeldOK, Busy
  <2>4. FlagsTyped'
    BY <1>7 DEF Send
  <2>5. TypeOK'
    BY <1>7, <2>2, <2>4 DEF Send, Goto, WorkerStates
  <2> QED
    BY <1>7, <2>1, <2>3, <2>5, CountKept DEF Send
<1>8. ASSUME NEW w \in Workers, CountDown(w) PROVE TypeInv'
  <2>1. Counted' = Counted \ {w} /\ w \in Counted
    BY <1>8 DEF CountDown, Goto, Counted
  <2>2. ConnectedCount'
    BY <1>8, <2>1, CountedFinite, FS_RemoveElement, Zenon
    DEF CountDown, ConnectedCount
  <2>3. connectedWorkers' \in Nat
    <3>1. IsFiniteSet(Counted')
      BY <2>1, CountedFinite, FS_RemoveElement
    <3> QED
      BY <2>2, <3>1, FS_CardinalityType DEF ConnectedCount
  <2>4. HeldOK'
    BY <1>8 DEF CountDown, Goto, HeldOK, Busy
  <2>5. FlagsTyped'
    BY <1>8 DEF CountDown
  <2>6. TypeOK'
    BY <1>8, <2>3, <2>5 DEF CountDown, Goto, WorkerStates
  <2> QED
    BY <2>2, <2>4, <2>6
<1>9. ASSUME NEW w \in Workers, ClearConnected(w) PROVE TypeInv'
  <2>0. Goto(w, "dead") \/ Goto(w, "wait")
    BY <1>9, EnterSelectTyped DEF ClearConnected
  <2>1. Counted' = Counted
    BY <1>9, <2>0 DEF ClearConnected, Goto, Counted
  <2>2. HeldOK'
    BY <1>9, <2>0 DEF ClearConnected, Goto, HeldOK, Busy
  <2>3. FlagsTyped'
    BY <1>9 DEF ClearConnected
  <2>4. TypeOK'
    BY <1>9, <2>3, EnterSelectTyped DEF ClearConnected, GaugeDown
  <2> QED
    BY <1>9, <2>1, <2>2, <2>4, CountKept DEF ClearConnected
<1>10. ASSUME NEW w \in Workers, RetryTimer(w) \/ WaitCancelled(w)
       PROVE  TypeInv'
  <2> USE DEF RetryTimer, WaitCancelled, LeaveWait, Goto
  <2>1. Counted' = Counted
    BY <1>10 DEF Counted
  <2>2. HeldOK'
    BY <1>10 DEF HeldOK, Busy
  <2>3. FlagsTyped'
    BY <1>10
  <2>4. pc' \in [Workers -> WorkerStates] /\ delay' \in [Workers -> Int]
    <3>1. CASE RetryTimer(w)
      BY <3>1 DEF WorkerStates
    <3>2. CASE WaitCancelled(w)
      BY <3>2 DEF WorkerStates
    <3> QED
      BY <1>10, <3>1, <3>2
  <2>5. TypeOK'
    BY <1>10, <2>3, <2>4
  <2> QED
    BY <1>10, <2>1, <2>2, <2>5, CountKept
<1>11. CASE Receive
  <2> USE <1>11 DEF Receive, TakeBuffered, HandOver, Goto
  <2>1. Counted' = Counted
    BY DEF Counted
  <2>2. resultCh' \in Seq(Result) /\ cur' \in Result
    <3>1. CASE TakeBuffered /\ cur' = Head(resultCh)
      BY <3>1
    <3>2. ASSUME NEW w \in Workers, HandOver(w), cur' = held[w]
          PROVE  resultCh' \in Seq(Result) /\ cur' \in Result
      BY <3>2 DEF HeldOK
    <3> QED
      BY <3>1, <3>2
  <2>3. HeldOK'
    BY <2>2, ZenonT(60) DEF HeldOK, Busy
  <2>4. pc' \in [Workers -> WorkerStates]
    BY Zenon DEF WorkerStates
  <2>5. held' \in [Workers -> Result \cup {NoResult}]
    BY ZenonT(60)
  <2>6. FlagsTyped'
    OBVIOUS
  <2>7. TypeOK'
    BY <2>2, <2>4, <2>5, <2>6 DEF ProcStates
  <2> QED
    BY <2>1, <2>3, <2>7, CountKept
<1>12. CASE Stamp
  <2>1. Counted' = Counted
    BY <1>12 DEF Stamp, Counted
  <2>2. HeldOK'
    BY <1>12 DEF Stamp, HeldOK, Busy
  <2>3. Unix(now) \in Nat
    BY DEF Unix
  <2>4. cur.key \in Keys \cup {ZeroKey}
    BY <1>12 DEF Stamp, HeldOK, Busy, Result
  <2>5. FlagsTyped'
    BY <1>12 DEF Stamp
  <2>6. TypeOK'
    BY <1>12, <2>3, <2>4, <2>5 DEF Stamp, ProcStates
  <2> QED
    BY <1>12, <2>1, <2>2, <2>6, CountKept DEF Stamp
<1>13. CASE LookupProbe
  <2>1. Counted' = Counted
    BY <1>13 DEF LookupProbe, Counted
  <2>2. HeldOK'
    BY <1>13 DEF LookupProbe, HeldOK, Busy
  <2>3. FlagsTyped'
    BY <1>13 DEF LookupProbe
  <2>4. TypeOK'
    BY <1>13, <2>3 DEF LookupProbe, ProcStates
  <2> QED
    BY <1>13, <2>1, <2>2, <2>4, CountKept DEF LookupProbe
<1>14. CASE LookupFails \/ LookupPanics
  <2> USE DEF LookupFails, LookupPanics, Abandon, Finish
  <2>1. Counted' = Counted
    BY <1>14 DEF Counted
  <2>2. HeldOK'
    BY <1>14 DEF HeldOK, Busy
  <2>3. FlagsTyped'
    BY <1>14, Zenon
  <2>4. outcome' \in [1 .. MaxReceived -> Outcomes] /\ ppc' \in ProcStates
    BY <1>14, Zenon DEF Outcomes, ProcStates
  <2>5. TypeOK'
    BY <1>14, <2>3, <2>4
  <2> QED
    BY <1>14, <2>1, <2>2, <2>5, CountKept
<1>15. CASE AddResult
  <2>1. PICK o \in Outcomes, label \in {"recv", "recover"} : Finish(o, label)
    BY <1>15 DEF AddResult, Outcomes
  <2>2. cur \in Result
    BY <1>15 DEF AddResult, HeldOK, Busy
  <2>3. measurements' \in [Keys -> Measurement]
    <3>1. \/ measurements' = measurements
          \/ measurements' = AddTo(measurements, cur, curValid)
      BY <1>15 DEF AddResult
    <3>2. measurements \in [Keys -> Measurement]
      OBVIOUS
    <3>3. AddTo(measurements, cur, curValid) \in [Keys -> Measurement]
      BY ONLY <2>2, <3>2, AddToTyped
    <3> QED
      BY ONLY <3>1, <3>2, <3>3
  <2>4. Counted' = Counted
    BY <1>15 DEF AddResult, Counted
  <2>5. HeldOK'
    BY <1>15, <2>1 DEF AddResult, Finish, HeldOK, Busy
  <2>6. FlagsTyped'
    BY <1>15, <2>1, Zenon DEF AddResult, Finish
  <2>7. outcome' \in [1 .. MaxReceived -> Outcomes] /\ ppc' \in ProcStates
    BY <2>1, <2>2, ZenonT(60) DEF Finish, ProcStates
  <2>8. TypeOK'
    BY <1>15, <2>1, <2>3, <2>6, <2>7 DEF AddResult, Finish
  <2> QED
    BY <1>15, <2>4, <2>5, <2>8, CountKept DEF AddResult
<1>16. CASE Drain
  <2> USE <1>16 DEF Drain, TakeBuffered, HandOver, Goto
  <2>1. Counted' = Counted
    BY DEF Counted
  <2>2. HeldOK'
    BY ZenonT(60) DEF HeldOK, Busy
  <2>3. resultCh' \in Seq(Result)
    <3>1. CASE TakeBuffered
      BY <3>1, SMTT(30)
    <3>2. CASE UNCHANGED resultCh
      BY <3>2
    <3> QED
      BY <3>1, <3>2
  <2>4. pc' \in [Workers -> WorkerStates]
    BY ZenonT(60) DEF WorkerStates
  <2>5. held' \in [Workers -> Result \cup {NoResult}]
    BY Zenon
  <2>6. outcome' \in [1 .. MaxReceived -> Outcomes]
    BY ZenonT(60) DEF Outcomes
  <2>7. FlagsTyped'
    OBVIOUS
  <2>8. TypeOK'
    BY <2>3, <2>4, <2>5, <2>6, <2>7 DEF ProcStates
  <2> QED
    BY <2>1, <2>2, <2>8, CountKept
<1>17. CASE Pause \/ Restart
  <2> USE DEF Pause, Restart, ProcGoto
  <2>1. Counted' = Counted
    BY <1>17 DEF Counted
  <2>2. HeldOK'
    BY <1>17 DEF HeldOK, Busy
  <2>3. FlagsTyped'
    BY <1>17
  <2>4. TypeOK'
    BY <1>17, <2>3 DEF ProcStates
  <2> QED
    BY <1>17, <2>1, <2>2, <2>4, CountKept
<1>18. CASE Health
  <2> USE DEF Health, HealthLoadConnected, HealthLoadData, Answer
  <2>1. Counted' = Counted
    BY <1>18 DEF Counted
  <2>2. HeldOK'
    BY <1>18 DEF HeldOK, Busy
  <2>3. FlagsTyped'
    BY <1>18
  <2>4. TypeOK'
    BY <1>18, <2>3
  <2> QED
    BY <1>18, <2>1, <2>2, <2>4, CountKept
<1>19. CASE UNCHANGED vars
  <2>1. Counted' = Counted
    BY <1>19 DEF vars, Counted
  <2>2. HeldOK'
    BY <1>19 DEF vars, HeldOK, Busy
  <2>3. FlagsTyped'
    BY <1>19 DEF vars
  <2>4. TypeOK'
    BY <1>19, <2>3 DEF vars
  <2> QED
    BY <1>19, <2>1, <2>2, <2>4, CountKept DEF vars
<1> QED
  BY <1>1, <1>2, <1>3, <1>4, <1>5, <1>6, <1>7, <1>8, <1>9, <1>10, <1>11,
     <1>12, <1>13, <1>14, <1>15, <1>16, <1>17, <1>18, <1>19, Zenon
  DEF Next, WorkerStep, Processor

(* Types hold in every reachable state, whatever the constants. *)
THEOREM TypeCorrect == Spec => []TypeOK
<1>1. Spec => []TypeInv
  BY TypeInit, TypeStep, PTL DEF Spec
<1>2. TypeInv => TypeOK
  BY DEF TypeInv
<1> QED
  BY <1>1, <1>2, PTL

(* connectedWorkers, changed by atomic additions of every worker, always   *)
(* equals the number of workers between their two additions.               *)
THEOREM ConnectedCountHolds == Spec => []ConnectedCount
<1>1. Spec => []TypeInv
  BY TypeInit, TypeStep, PTL DEF Spec
<1>2. TypeInv => ConnectedCount
  BY DEF TypeInv
<1> QED
  BY <1>1, <1>2, PTL
-----------------------------------------------------------------------------
(* The gauge atlas_exporter_stream_connected. *)

(* Steps that move no worker across an update of the gauge. *)
LEMMA GaugeKept ==
  ASSUME GaugeFollows, UNCHANGED streamConnected, GaugeHolders' = GaugeHolders
  PROVE  GaugeFollows'
  BY DEF GaugeFollows, GaugeNotStale, GaugeUpWhileListening

(* Set(1) and Set(0) are the only steps that need more than GaugeKept.     *)
LEMMA GaugeStep == TypeInv /\ GaugeFollows /\ [Next]_vars => GaugeFollows'
<1> SUFFICES ASSUME TypeInv, GaugeFollows, [Next]_vars PROVE GaugeFollows'
  OBVIOUS
<1> USE StreamingAssumption
    DEF envVars, senderVars, workerVars, retryVars, gaugeVars, readerVars
<1>0. TypeOK
  BY DEF TypeInv
<1>1. ASSUME NEW w \in Workers, SetConnected(w) PROVE GaugeFollows'
  <2>1. GaugeHolders' = GaugeHolders \cup {w}
    BY <1>0, <1>1 DEF SetConnected, Goto, GaugeHolders, TypeOK
  <2>2. /\ IdOf[w] \in IDs
        /\ streamConnected' = [streamConnected EXCEPT ![IdOf[w]] = "up"]
    BY <1>1 DEF SetConnected
  <2> QED
    BY <1>0, <2>1, <2>2, ZenonT(60)
    DEF GaugeFollows, GaugeNotStale, GaugeUpWhileListening, GaugeHolders,
        TypeOK
<1>2. ASSUME NEW w \in Workers, ClearConnected(w) PROVE GaugeFollows'
  <2>1. Goto(w, "dead") \/ Goto(w, "wait")
    BY <1>0, <1>2, EnterSelectTyped DEF ClearConnected
  <2>2. GaugeHolders' = GaugeHolders \ {w}
    BY <1>0, <2>1 DEF Goto, GaugeHolders, TypeOK
  <2>3. /\ IdOf[w] \in IDs
        /\ streamConnected' = [streamConnected EXCEPT ![IdOf[w]] = "down"]
    BY <1>2 DEF ClearConnected, GaugeDown
  <2>4. GaugeNotStale'
    BY <1>0, <2>2, <2>3 DEF GaugeFollows, GaugeNotStale, TypeOK
  <2>5. GaugeUpWhileListening'
    BY <1>0, <2>2, <2>3
    DEF GaugeFollows, GaugeUpWhileListening, GaugeHolders, TypeOK
  <2> QED
    BY <2>4, <2>5 DEF GaugeFollows
<1>3. CASE UNCHANGED pc /\ UNCHANGED streamConnected
  BY <1>3, GaugeKept DEF GaugeHolders
<1>4. ASSUME NEW w \in Workers, SubscribeFail(w) PROVE GaugeFollows'
  <2>1. Goto(w, "dead") \/ Goto(w, "wait")
    BY <1>0, <1>4, EnterSelectTyped DEF SubscribeFail
  <2>2. GaugeHolders' = GaugeHolders
    BY <1>0, <1>4, <2>1 DEF SubscribeFail, Goto, GaugeHolders, TypeOK
  <2> QED
    BY <1>4, <2>2, GaugeKept DEF SubscribeFail
<1>5. ASSUME NEW w \in Workers,
             Subscribe(w) \/ ReceiveResult(w) \/ Send(w) \/ CountDown(w)
      PROVE  GaugeFollows'
  <2> USE <1>5 DEF Subscribe, ReceiveResult, Send, CountDown
  <2>1. GaugeHolders' = GaugeHolders
    BY <1>0 DEF Goto, GaugeHolders, TypeOK
  <2> QED
    BY <2>1, GaugeKept
<1>6. ASSUME NEW w \in Workers,
             \/ StreamEnds(w) \/ ListenCancelled(w)
             \/ RetryTimer(w) \/ WaitCancelled(w)
      PROVE  GaugeFollows'
  <2> USE <1>6 DEF StreamEnds, ListenCancelled, RetryTimer, WaitCancelled,
                   LeaveListen, LeaveWait
  <2>1. GaugeHolders' = GaugeHolders
    BY <1>0 DEF Goto, GaugeHolders, TypeOK
  <2> QED
    BY <2>1, GaugeKept
<1>7. CASE Receive \/ Drain
  <2>1. GaugeHolders' = GaugeHolders
    BY <1>0, <1>7
    DEF Receive, Drain, TakeBuffered, HandOver, Goto, GaugeHolders, TypeOK
  <2> QED
    BY <1>7, <2>1, GaugeKept DEF Receive, Drain
<1>8. CASE \/ Cancel \/ InitCache \/ Tick \/ Health \/ UNCHANGED vars
           \/ Stamp \/ LookupProbe \/ LookupFails \/ LookupPanics
           \/ AddResult \/ Pause \/ Restart
  BY <1>3, <1>8
  DEF Cancel, InitCache, Tick, Health, HealthLoadConnected, HealthLoadData,
      vars, Stamp, LookupProbe, LookupFails, LookupPanics, Abandon,
      AddResult, Pause, Restart, ProcGoto
<1> QED
  BY <1>1, <1>2, <1>4, <1>5, <1>6, <1>7, <1>8 DEF Next, WorkerStep, Processor

(* In every reachable state the gauge is 1 for an id only while a worker   *)
(* of it is connected, and whenever its only worker is.                    *)
THEOREM GaugeHolds == Spec => []GaugeFollows
<1>1. Init => GaugeFollows
  BY StreamingAssumption
  DEF Init, GaugeFollows, GaugeNotStale, GaugeUpWhileListening,
      GaugeHolders
<1> QED
  BY <1>1, TypeInit, TypeStep, GaugeStep, PTL DEF Spec
-----------------------------------------------------------------------------
(* Stored data. *)

(* What adding a result does to the measurement under key k: the object    *)
(* stays, its histograms do not shrink, no probe loses its result.         *)
LEMMA AddToPersists ==
  ASSUME NEW store \in [Keys -> Measurement], NEW r \in Result, NEW valid,
         NEW k \in Keys
  PROVE  LET after == AddTo(store, r, valid)[k]
         IN  /\ store[k].created => after.created
             /\ after.observed >= store[k].observed
             /\ \A p \in Probes : store[k].latest[p] # 0 => after.latest[p] # 0
<1>1. store[k] \in Measurement
  OBVIOUS
<1>2. CASE k # r.key
  BY <1>1, <1>2 DEF AddTo, Measurement
<1>3. CASE k = r.key /\ Accepts(valid)
  <2>1. AddTo(store, r, valid)[k] = Stored(store[k], r)
    BY <1>3 DEF AddTo
  <2>2. r.n # 0 /\ r.prb \in Probes
    BY StoreAssumption DEF Result
  <2>3. store[k].observed \in Nat /\ store[k].latest \in [Probes -> Nat]
    BY <1>1 DEF Measurement
  <2>4. Stored(store[k], r).created
    BY DEF Stored
  <2>5. Stored(store[k], r).observed >= store[k].observed
    BY <2>3 DEF Stored
  <2>6. ASSUME NEW p \in Probes, store[k].latest[p] # 0
        PROVE  Stored(store[k], r).latest[p] # 0
    <3>1. Stored(store[k], r).latest = [store[k].latest EXCEPT ![r.prb] = r.n]
      BY DEF Stored
    <3> QED
      BY <2>2, <2>3, <2>6, <3>1
  <2> QED
    BY <2>1, <2>4, <2>5, <2>6
<1>4. CASE k = r.key /\ ~Accepts(valid)
  <2>1. AddTo(store, r, valid)[k] = [store[k] EXCEPT !.created = TRUE]
    BY <1>4, ZenonT(60) DEF AddTo
  <2> QED
    BY <1>1, <2>1 DEF Measurement
<1> QED
  BY <1>2, <1>3, <1>4

(* No step of the strategy, a reconnection, a panic or the shutdown        *)
(* included, removes a measurement, shrinks its histograms or leaves a     *)
(* probe that had a result without one.                                    *)
THEOREM MeasurementsPersistHolds == Spec => MeasurementsPersist
<1> DEFINE Persists ==
      \A k \in Keys :
        /\ measurements[k].created => measurements'[k].created
        /\ measurements'[k].observed >= measurements[k].observed
        /\ \A p \in Probes :
             measurements[k].latest[p] # 0 => measurements'[k].latest[p] # 0
<1>1. ASSUME TypeInv, UNCHANGED measurements PROVE Persists
  <2>1. \A k \in Keys : measurements[k].observed \in Nat
    BY <1>1 DEF TypeInv, TypeOK, Measurement
  <2> QED
    BY <1>1, <2>1
<1>2. ASSUME TypeInv, AddResult PROVE Persists
  <2>1. cur \in Result /\ measurements \in [Keys -> Measurement]
    BY <1>2 DEF TypeInv, TypeOK, HeldOK, Busy, AddResult
  <2>2. CASE measurements' = AddTo(measurements, cur, curValid)
    BY <2>1, <2>2, AddToPersists
  <2> QED
    BY <1>1, <1>2, <2>2 DEF AddResult
<1>3. [Next]_vars => AddResult \/ UNCHANGED measurements
  BY DEF Next, WorkerStep, Processor, Cancel, InitCache, Tick, SubscribeFail,
     Subscribe, SetConnected, ReceiveResult, StreamEnds, ListenCancelled,
     LeaveListen, Send, CountDown, ClearConnected, RetryTimer, WaitCancelled,
     LeaveWait, Receive, Stamp, LookupProbe, LookupFails, LookupPanics,
     Abandon, Drain, Pause, Restart, ProcGoto, Health, HealthLoadConnected,
     HealthLoadData, readerVars, vars
<1>4. TypeInv /\ [Next]_vars => [Persists]_vars
  BY <1>1, <1>2, <1>3
<1> QED
  BY <1>4, TypeInit, TypeStep, PTL DEF Spec, MeasurementsPersist
-----------------------------------------------------------------------------
(* The readiness check. *)

(* Truncation to seconds never makes data look younger. *)
Stamped == lastDataTime * TicksPerSecond <= stampedAt

LEMMA StampedStep == TypeInv /\ Stamped /\ [Next]_vars => Stamped'
<1> SUFFICES ASSUME TypeInv, Stamped, [Next]_vars PROVE Stamped'
  OBVIOUS
<1>1. CASE UNCHANGED dataVars
  BY <1>1 DEF Stamped, dataVars
<1>2. CASE Stamp
  <2>1. now \in Nat
    BY DEF TypeInv, TypeOK
  <2>2. Unix(now) * TicksPerSecond <= now
    BY <2>1, StreamingAssumption DEF Unix
  <2> QED
    BY <1>2, <2>2 DEF Stamp, Stamped
<1>3. ASSUME NEW w \in Workers, WorkerStep(w) PROVE UNCHANGED dataVars
  BY <1>3 DEF WorkerStep, SubscribeFail, Subscribe, SetConnected,
     ReceiveResult, StreamEnds, ListenCancelled, LeaveListen, Send, CountDown,
     ClearConnected, RetryTimer, WaitCancelled, LeaveWait, readerVars
<1>4. CASE Cancel \/ InitCache \/ Tick \/ Health \/ UNCHANGED vars
  BY <1>1, <1>4 DEF Cancel, InitCache, Tick, Health, HealthLoadConnected,
     HealthLoadData, readerVars, vars
<1>5. CASE Processor /\ ~Stamp
  BY <1>1, <1>5 DEF Processor, Receive, LookupProbe, LookupFails,
     LookupPanics, Abandon, AddResult, Drain, Pause, Restart, ProcGoto
<1> QED
  BY <1>1, <1>2, <1>3, <1>4, <1>5 DEF Next

(* /readyz never answers yes, on the strength of lastDataTime, when the    *)
(* last result was taken off the channel more than health.max_data_age     *)
(* ago: IsHealthy compares with a time that was truncated downwards.       *)
THEOREM ReadyIsFreshHolds == Spec => ReadyIsFresh
<1> DEFINE Fresh ==
      (hpc = "data" /\ hpc' = "idle" /\ ready' = "yes") =>
        now - stampedAt <= MaxDataAge
<1>1. Init => Stamped
  BY StreamingAssumption DEF Init, Stamped
<1>2. ASSUME TypeInv, Stamped, HealthLoadData PROVE Fresh
  <2>1. now \in Nat /\ stampedAt \in Nat /\ lastDataTime \in Nat
    BY <1>2 DEF TypeInv, TypeOK
  <2>2. lastDataTime * TicksPerSecond \in Nat
    BY <2>1, StreamingAssumption
  <2>3. ready' = "yes" =>
          now - lastDataTime * TicksPerSecond <= MaxDataAge
    BY <1>2, <2>1, <2>2, StreamingAssumption
    DEF HealthLoadData, Answer, DataTooOld
  <2> QED
    BY <1>2, <2>1, <2>2, <2>3, StreamingAssumption DEF Stamped
<1>3. ASSUME [Next]_vars, hpc = "data", hpc' = "idle" PROVE HealthLoadData
  <2> USE DEF envVars, readerVars, healthVars
  <2>1. ASSUME NEW w \in Workers, WorkerStep(w) PROVE UNCHANGED hpc
    BY <2>1 DEF WorkerStep, SubscribeFail, Subscribe, SetConnected,
       ReceiveResult, StreamEnds, ListenCancelled, LeaveListen, Send,
       CountDown, ClearConnected, RetryTimer, WaitCancelled, LeaveWait
  <2>2. ASSUME Cancel \/ InitCache \/ Tick \/ UNCHANGED vars
        PROVE  UNCHANGED hpc
    BY <2>2 DEF Cancel, InitCache, Tick, vars
  <2>3. ASSUME Processor PROVE UNCHANGED hpc
    BY <2>3 DEF Processor, Receive, Stamp, LookupProbe, LookupFails,
       LookupPanics, Abandon, AddResult, Drain, Pause, Restart, ProcGoto
  <2> QED
    BY <1>3, <2>1, <2>2, <2>3 DEF Next, Health, HealthLoadConnected
<1>4. TypeInv /\ Stamped /\ [Next]_vars => [Fresh]_vars
  BY <1>2, <1>3
<1> QED
  BY <1>1, <1>4, TypeInit, TypeStep, StampedStep, PTL DEF Spec, ReadyIsFresh
-----------------------------------------------------------------------------
(* The backoff. *)

(* The delay before the jitter and the cap, if integers had no width. *)
Raw(n) == MinRetryDelay * Pow2[n]

LEMMA RawDoubles ==
  /\ \A n \in Nat : Raw(n) \in Nat \ {0} /\ Raw(n + 1) = 2 * Raw(n)
  /\ Raw(0) = MinRetryDelay
<1>1. ASSUME NEW n \in Nat
      PROVE  Raw(n) \in Nat \ {0} /\ Raw(n + 1) = 2 * Raw(n)
  <2> DEFINE p == Pow2[n]
  <2>1. p \in Nat \ {0} /\ Pow2[n + 1] = 2 * p
    BY Pow2Doubles
  <2> HIDE DEF p
  <2>2. MinRetryDelay * p \in Nat \ {0}
        /\ MinRetryDelay * (2 * p) = 2 * (MinRetryDelay * p)
    BY <2>1, BackoffAssumption
  <2> QED
    BY <2>1, <2>2 DEF Raw, p
<1>2. Raw(0) = MinRetryDelay
  BY Pow2Doubles, BackoffAssumption DEF Raw
<1> QED
  BY <1>1, <1>2

(* A product that is too large by one bit wraps to a negative number. *)
LEMMA WrapOneBit ==
  ASSUME NEW x \in Nat, x < 2 * Half
  PROVE  Wrap(x) = IF x < Half THEN x ELSE x - 2 * Half
<1> DEFINE h == Half
<1>1. h \in Nat \ {0} /\ x < 2 * h
  BY HalfNat
<1> HIDE DEF h
<1>2. CASE x < h
  <2>1. (x + h) % (2 * h) = x + h
    BY <1>1, <1>2
  <2> QED
    BY <1>1, <1>2, <2>1 DEF Wrap, h
<1>3. CASE x >= h
  <2>1. (x + h) % (2 * h) = x - h
    BY <1>1, <1>3
  <2> QED
    BY <1>1, <1>3, <2>1 DEF Wrap, h
<1> QED
  BY <1>1, <1>2, <1>3

(* What the comments of getRetryDelay promise of a wait d. *)
Jittered(d, n) ==
  /\ 4 * d >= 3 * ExpectedDelay(n)
  /\ 4 * d < 5 * ExpectedDelay(n) + 4
  /\ d > 0

(* If the previous delay did not overflow, the next one does if and only   *)
(* if getRetryDelay panics; otherwise the wait is what it should be.       *)
LEMMA NextDelay ==
  ASSUME NEW n \in Nat, Raw(n) < Half
  PROVE  /\ Panics(n + 1) <=> Raw(n + 1) >= Half
         /\ ~Panics(n + 1) => \A d \in RetryDelays(n + 1) : Jittered(d, n + 1)
<1> DEFINE x == Raw(n + 1)
           c == CappedDelay(n + 1)
<1>1. x \in Nat /\ x >= 2 /\ x < 2 * Half /\ Half \in Nat \ {0}
  BY RawDoubles, HalfNat
<1>2. BaseDelay(n + 1) = IF x < Half THEN x ELSE x - 2 * Half
  BY <1>1, WrapOneBit DEF BaseDelay, Raw
<1>3. ExpectedDelay(n + 1) = IF x > MaxRetryDelay THEN MaxRetryDelay ELSE x
  BY DEF ExpectedDelay, Raw
<1> HIDE DEF x
<1>4. CASE x >= Half
  <2>1. c \in Int /\ c < 0
    BY <1>1, <1>2, <1>4, BackoffAssumption DEF CappedDelay
  <2> HIDE DEF c
  <2>2. c \div 2 <= 0
    BY <2>1
  <2> QED
    BY <1>4, <2>2 DEF Panics, c, x
<1>5. CASE x < Half
  <2>1. c \in Nat /\ c >= 2 /\ c = ExpectedDelay(n + 1)
    BY <1>1, <1>2, <1>3, <1>5, BackoffAssumption DEF CappedDelay
  <2>2. ASSUME NEW d \in RetryDelays(n + 1)
        PROVE  \E j \in 0 .. (c \div 2 - 1) : d = c + j - (c \div 4)
    BY DEF RetryDelays
  <2> HIDE DEF c
  <2>3. ~(c \div 2 <= 0)
    BY <2>1
  <2>4. ASSUME NEW d \in RetryDelays(n + 1)
        PROVE  Jittered(d, n + 1)
    <3>1. PICK j \in 0 .. (c \div 2 - 1) : d = c + j - (c \div 4)
      BY <2>2
    <3>2. 4 * d >= 3 * c /\ 4 * d < 5 * c + 4 /\ d > 0
      BY <2>1, <3>1
    <3> QED
      BY <2>1, <3>2 DEF Jittered
  <2>5. ~Panics(n + 1)
    BY <2>3, Zenon DEF Panics, c
  <2> QED
    BY <1>1, <1>5, <2>4, <2>5 DEF x
<1> QED
  BY <1>1, <1>4, <1>5

(* A worker's backoff.  A worker that still runs has not overflowed, so    *)
(* its next delay can be too large by one bit only; a connected worker has *)
(* its attempts reset.                                                     *)
Sane(w) ==
  /\ pc[w] # "dead" => Raw(retryAttempt[w]) < Half
  /\ pc[w] = "dead" => Raw(retryAttempt[w]) >= Half
  /\ pc[w] \in {"connect", "listen", "send", "decr", "clear"} =>
       retryAttempt[w] = 0
  /\ pc[w] = "wait" => Jittered(delay[w], retryAttempt[w])
  /\ pc[w] = "done" => ctxDone

LEMMA SelectSane ==
  ASSUME TypeOK, NEW w \in Workers, Sane(w), pc[w] # "dead",
         EnterSelect(w, retryAttempt[w] + 1)
  PROVE  Sane(w)'
<1> DEFINE n == retryAttempt[w]
<1>1. n \in Nat /\ Raw(n) < Half /\ Half \in Nat
  BY HalfNat DEF TypeOK, Sane
<1>2. retryAttempt'[w] = n + 1
  BY DEF EnterSelect, TypeOK
<1>3. Raw(n + 1) \in Nat
  BY <1>1, RawDoubles
<1>4. CASE Panics(n + 1) /\ Goto(w, "dead")
  BY <1>1, <1>2, <1>4, NextDelay DEF Sane, Goto, TypeOK
<1>5. CASE /\ ~Panics(n + 1) /\ Goto(w, "wait")
           /\ \E d \in RetryDelays(n + 1) : delay' = [delay EXCEPT ![w] = d]
  <2>1. pc'[w] = "wait" /\ Raw(n + 1) < Half
    BY <1>1, <1>3, <1>5, NextDelay, SMTT(30) DEF Goto, TypeOK
  <2>2. Jittered(delay'[w], n + 1)
    BY <1>1, <1>5, NextDelay DEF TypeOK
  <2> QED
    BY <1>2, <2>1, <2>2 DEF Sane, Jittered
<1> QED
  BY <1>4, <1>5 DEF EnterSelect

LEMMA SaneStep ==
  ASSUME TypeInv, [Next]_vars, NEW w \in Workers, Sane(w)
  PROVE  Sane(w)'
<1> USE DEF envVars, senderVars, workerVars, retryVars, Goto
<1>0. TypeOK
  BY DEF TypeInv
<1>1. ASSUME pc'[w] = pc[w], retryAttempt'[w] = retryAttempt[w],
             delay'[w] = delay[w], ctxDone => ctxDone'
      PROVE  Sane(w)'
  BY <1>1 DEF Sane, Jittered
<1>2. ASSUME NEW v \in Workers, SubscribeFail(v) \/ ClearConnected(v)
      PROVE  Sane(w)'
  <2>1. EnterSelect(v, retryAttempt[v] + 1) /\ pc[v] # "dead"
        /\ UNCHANGED ctxDone
    BY <1>2 DEF SubscribeFail, ClearConnected
  <2>2. CASE v # w
    BY <1>0, <1>1, <2>1, <2>2 DEF EnterSelect, TypeOK
  <2> QED
    BY <1>0, <2>1, <2>2, SelectSane
<1>3. ASSUME NEW v \in Workers, Subscribe(v) PROVE Sane(w)'
  <2>1. 2 * MinRetryDelay < Half /\ MinRetryDelay \in Nat /\ Half \in Nat
    BY BackoffAssumption, HalfNat
  <2>2. Raw(0) < Half
    BY <2>1, RawDoubles
  <2>3. CASE v # w
    BY <1>0, <1>1, <1>3, <2>3 DEF Subscribe, AttemptReset, TypeOK
  <2>4. CASE v = w
    BY <1>0, <1>3, <2>2, <2>4 DEF Subscribe, AttemptReset, TypeOK, Sane
  <2> QED
    BY <2>3, <2>4
<1>4. ASSUME NEW v \in Workers,
             \/ SetConnected(v) \/ ReceiveResult(v) \/ Send(v) \/ CountDown(v)
             \/ StreamEnds(v) \/ ListenCancelled(v)
             \/ RetryTimer(v) \/ WaitCancelled(v)
      PROVE  Sane(w)'
  <2> USE DEF SetConnected, ReceiveResult, Send, CountDown, StreamEnds,
              ListenCancelled, RetryTimer, WaitCancelled, LeaveListen,
              LeaveWait
  <2>1. CASE v # w
    BY <1>0, <1>1, <1>4, <2>1 DEF TypeOK
  <2>2. CASE v = w
    BY <1>0, <1>4, <2>2 DEF TypeOK, Sane
  <2> QED
    BY <2>1, <2>2
<1>5. CASE Receive \/ Drain
  <2>1. /\ UNCHANGED <<retryAttempt, delay, ctxDone>>
        /\ \/ UNCHANGED pc
           \/ \E v \in Workers : pc[v] = "send" /\ Goto(v, "listen")
    BY <1>5 DEF Receive, Drain, TakeBuffered, HandOver
  <2> QED
    BY <1>0, <1>1, <2>1 DEF Sane, Jittered, TypeOK
<1>6. CASE Cancel
  BY <1>1, <1>6 DEF Cancel
<1>7. CASE \/ InitCache \/ Tick \/ Health \/ UNCHANGED vars
           \/ Stamp \/ LookupProbe \/ LookupFails \/ LookupPanics
           \/ AddResult \/ Pause \/ Restart
  <2>1. UNCHANGED <<pc, retryAttempt, delay, ctxDone>>
    BY <1>7
    DEF InitCache, Tick, Health, HealthLoadConnected, HealthLoadData, vars,
        Stamp, LookupProbe, LookupFails, LookupPanics, Abandon, AddResult,
        Pause, Restart, ProcGoto
  <2> QED
    BY <1>1, <2>1
<1> QED
  BY <1>2, <1>3, <1>4, <1>5, <1>6, <1>7 DEF Next, WorkerStep, Processor

AllSane == \A w \in Workers : Sane(w)

LEMMA SaneHolds == Spec => [](TypeInv /\ AllSane)
<1>1. Init => AllSane
  <2>1. 2 * MinRetryDelay < Half /\ MinRetryDelay \in Nat /\ Half \in Nat
    BY BackoffAssumption, HalfNat
  <2>2. Raw(0) < Half
    BY <2>1, RawDoubles
  <2> QED
    BY <2>2, Zenon DEF Init, AllSane, Sane
<1>2. TypeInv /\ AllSane /\ [Next]_vars => AllSane'
  BY SaneStep DEF AllSane
<1> QED
  BY <1>1, <1>2, TypeInit, TypeStep, PTL DEF Spec

(* Every wait before a reconnection is within 25% of the capped            *)
(* exponential delay and never empty, for any number of failed attempts:   *)
(* getRetryDelay (atlas/stream_strategy_worker.go) never returns a delay   *)
(* that wrapped around.                                                    *)
THEOREM BackoffWithinJitterHolds == Spec => []BackoffWithinJitter
<1>1. AllSane => BackoffWithinJitter
  BY DEF AllSane, Sane, Jittered, BackoffWithinJitter
<1> QED
  BY <1>1, SaneHolds, PTL

(* A worker that was not cancelled returns from run only through the panic *)
(* of getRetryDelay, and that panic comes exactly when the shifted delay   *)
(* has left the range of time.Duration.                                    *)
THEOREM StopsOnlyOnOverflowHolds == Spec => []StopsOnlyOnOverflow
<1>1. AllSane => StopsOnlyOnOverflow
  BY Zenon DEF AllSane, Sane, Raw, StopsOnlyOnOverflow
<1> QED
  BY <1>1, SaneHolds, PTL

(* A worker that was connected never dies of the disconnect: run resets    *)
(* retryAttempt when it subscribes, so the next delay is that of the first *)
(* retry.                                                                  *)
THEOREM DisconnectNeverFatalHolds == Spec => DisconnectNeverFatal
<1> DEFINE Survives ==
      \A w \in Workers :
        pc[w] \in {"connect", "listen", "send", "decr", "clear"} =>
          pc'[w] # "dead"
<1>1. ASSUME TypeInv, AllSane, AllSane', [Next]_vars PROVE Survives
  <2> SUFFICES ASSUME NEW w \in Workers,
                      pc[w] \in {"connect", "listen", "send", "decr", "clear"},
                      pc'[w] = "dead"
               PROVE  FALSE
    BY Zenon
  <2>1. retryAttempt[w] = 0
    BY <1>1 DEF AllSane, Sane
  <2>2. retryAttempt'[w] \in {0, 1}
    <3> USE DEF envVars, senderVars, workerVars, retryVars
    <3>1. ASSUME NEW v \in Workers, WorkerStep(v)
          PROVE  retryAttempt'[w] \in {0, 1}
      <4>1. retryAttempt \in [Workers -> Nat]
        BY <1>1 DEF TypeInv, TypeOK
      <4>2. \/ UNCHANGED retryAttempt
            \/ retryAttempt' = [retryAttempt EXCEPT ![v] = 0]
            \/ retryAttempt' = [retryAttempt EXCEPT ![v] =
                                  retryAttempt[v] + 1]
        BY <3>1, Zenon
        DEF WorkerStep, SubscribeFail, Subscribe, AttemptReset,
            SetConnected, ReceiveResult, StreamEnds, ListenCancelled,
            LeaveListen, Send, CountDown, ClearConnected, RetryTimer,
            WaitCancelled, LeaveWait, EnterSelect
      <4> QED
        BY <2>1, <4>1, <4>2
    <3>2. ASSUME \/ Cancel \/ InitCache \/ Tick \/ Health \/ Processor
                 \/ UNCHANGED vars
          PROVE  UNCHANGED retryAttempt
      BY <3>2
      DEF Cancel, InitCache, Tick, Health, HealthLoadConnected,
          HealthLoadData, vars, Processor, Receive, Stamp, LookupProbe,
          LookupFails, LookupPanics, Abandon, AddResult, Drain, Pause,
          Restart, ProcGoto
    <3> QED
      BY <1>1, <2>1, <3>1, <3>2 DEF Next
  <2>3. Raw(0) < Half /\ Raw(1) < Half
    <3>1. Raw(0 + 1) = 2 * Raw(0) /\ Raw(0) = MinRetryDelay
      BY RawDoubles
    <3> QED
      BY <3>1, BackoffAssumption, HalfNat
  <2>4. Raw(retryAttempt'[w]) >= Half
    BY <1>1 DEF AllSane, Sane, Raw
  <2> QED
    BY <2>2, <2>3, <2>4, RawDoubles, HalfNat
<1>2. TypeInv /\ AllSane /\ AllSane' /\ [Next]_vars => [Survives]_vars
  BY <1>1
<1> QED
  BY <1>2, SaneHolds, PTL DEF Spec, DisconnectNeverFatal
=============================================================================
