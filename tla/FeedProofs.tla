----------------------------- MODULE FeedProofs ------------------------------
(***************************************************************************)
(* The streaming strategy implements ResultFeed, for any number of workers *)
(* and any buffer size.  A result passes from its worker through the       *)
(* channel to the processor; along this way the results of one worker are  *)
(* in the order of their receipt (InOrder), so that the processor, which   *)
(* is at the end of it, always holds the oldest one.                       *)
(***************************************************************************)
EXTENDS StreamingProofs

Sending == {w \in Workers : pc[w] = "send"}

Before(a, b) == a.src = b.src => a.n < b.n

QueueInOrder ==
  /\ \A i, j \in DOMAIN resultCh : i < j => Before(resultCh[i], resultCh[j])
  /\ \A i \in DOMAIN resultCh : \A w \in Sending : Before(resultCh[i], held[w])
  /\ \A w \in Sending : held[w].src = w

InOrder ==
  /\ QueueInOrder
  /\ Busy => \A i \in DOMAIN resultCh : Before(cur, resultCh[i])
  /\ Busy => \A w \in Sending : Before(cur, held[w])

(* An unbuffered channel holds nothing. *)
Room == BufferSize = 0 => resultCh = <<>>

(* Results are numbered in the order of receipt, and only a parse error    *)
(* has no measurement to go to.                                            *)
Numbered ==
  \A r \in Transit :
    /\ r \in Result
    /\ r.n <= received
    /\ r.kind # "parseError" => r.key \in Keys

Inv == TypeInv /\ InOrder /\ Room /\ Numbered

(* The three places a result in transit can be. *)
LEMMA TransitPlaces ==
  ASSUME NEW r
  PROVE  r \in Transit <=>
           \/ \E w \in Sending : r = held[w]
           \/ \E i \in DOMAIN resultCh : r = resultCh[i]
           \/ Busy /\ r = cur
  BY DEF Transit, Sending

LEMMA InvInit == Init => Inv
<1> SUFFICES ASSUME Init PROVE Inv
  OBVIOUS
<1>1. Transit = {} /\ Sending = {} /\ resultCh = <<>> /\ ~Busy
  BY DEF Init, Transit, Sending, Busy
<1> QED
  BY <1>1, TypeInit DEF Inv, InOrder, QueueInOrder, Room, Numbered
-----------------------------------------------------------------------------
(* Steps that move no result. *)
Still ==
  /\ UNCHANGED <<resultCh, measurements, received, outcome>>
  /\ Sending' = Sending
  /\ \A w \in Sending : held'[w] = held[w]
  /\ Busy' <=> Busy
  /\ Busy => cur' = cur
  /\ ppc' = "recover" => ppc = "recover"

LEMMA StillStep ==
  ASSUME Inv, Still
  PROVE  InOrder' /\ Room' /\ Numbered' /\ Transit' = Transit
<1>1. Transit' = Transit
  BY DEF Still, Transit, Sending
<1>2. InOrder'
  BY DEF Still, Inv, InOrder, QueueInOrder
<1>3. Room' /\ Numbered'
  BY <1>1 DEF Still, Inv, Room, Numbered
<1> QED
  BY <1>1, <1>2, <1>3

(* A worker takes a result off its stream. *)
Arrives(r) ==
  /\ r \in Result /\ r.n = received + 1
  /\ \A q \in Transit : q.n < r.n
  /\ Transit' = Transit \cup {r}

LEMMA AcceptStep ==
  ASSUME Inv, NEW w \in Workers, ReceiveResult(w)
  PROVE  /\ InOrder' /\ Room' /\ Numbered'
         /\ \E r : Arrives(r)
<1> USE DEF readerVars, procVars, Goto
<1>1. PICK r \in Deliverable(w) : held' = [held EXCEPT ![w] = r]
  BY Zenon DEF ReceiveResult
<1>2. /\ w \notin Sending /\ Sending' = Sending \cup {w}
      /\ held'[w] = r /\ \A v \in Sending : held'[v] = held[v]
      /\ UNCHANGED <<resultCh, cur, ppc>>
      /\ received' = received + 1 /\ received \in Nat
  BY <1>1, StoreAssumption DEF ReceiveResult, Sending, Inv, TypeInv, TypeOK
<1>3. /\ r \in Result /\ r.n = received + 1 /\ r.src = w
      /\ r.kind # "parseError" => r.key \in Keys
  BY <1>1, StreamingAssumption, StoreAssumption
  DEF ReceiveResult, Deliverable, Result, Inv, TypeInv, TypeOK, HeldOK
<1>4. Transit' = Transit \cup {r}
  BY <1>2 DEF Transit, Sending, Busy
<1>5. \A q \in Transit : q.n < r.n
  BY <1>2, <1>3, StoreAssumption DEF Inv, Numbered, Result
<1>6. Numbered'
  BY <1>2, <1>3, <1>4, StoreAssumption DEF Inv, Numbered, Result
<1>7. \A q \in Transit : Before(q, r)
  BY <1>5 DEF Before
<1>8. InOrder'
  BY <1>2, <1>3, <1>7, TransitPlaces DEF Inv, InOrder, QueueInOrder, Busy
<1>9. Arrives(r)
  BY <1>3, <1>4, <1>5 DEF Arrives
<1> QED
  BY <1>2, <1>6, <1>8, <1>9 DEF Inv, Room

(* w.resultCh <- m *)
LEMMA SendStep ==
  ASSUME Inv, NEW w \in Workers, Send(w)
  PROVE  InOrder' /\ Room' /\ Numbered' /\ Transit' = Transit
<1> USE DEF readerVars, procVars, auxVars, Goto
<1>1. /\ w \in Sending /\ Sending' = Sending \ {w}
      /\ \A v \in Sending' : held'[v] = held[v]
      /\ UNCHANGED <<cur, ppc, received>>
  BY DEF Send, Sending, Inv, TypeInv, TypeOK
<1>2. held[w] \in Result /\ resultCh \in Seq(Result)
  BY <1>1 DEF Sending, Inv, TypeInv, TypeOK, HeldOK
<1>3. /\ resultCh' = Append(resultCh, held[w]) /\ Len(resultCh) < BufferSize
      /\ DOMAIN resultCh = 1 .. Len(resultCh) /\ Len(resultCh) \in Nat
      /\ DOMAIN resultCh' = 1 .. Len(resultCh) + 1
      /\ \A i \in DOMAIN resultCh : resultCh'[i] = resultCh[i]
      /\ resultCh'[Len(resultCh) + 1] = held[w]
  BY <1>2 DEF Send, Enqueue
<1>4. Transit' = Transit
  <2>1. \A r : r \in Transit => r \in Transit'
    BY <1>1, <1>3 DEF Transit, Sending, Busy
  <2>2. \A r : r \in Transit' => r \in Transit
    BY <1>1, <1>3 DEF Transit, Sending, Busy
  <2> QED
    BY <2>1, <2>2
<1>5. Room'
  BY <1>3, StreamingAssumption DEF Room
<1>6. Numbered'
  BY <1>1, <1>4 DEF Inv, Numbered
<1>7. \A v \in Sending' : Before(held[w], held[v])
  BY <1>1 DEF Inv, InOrder, QueueInOrder, Before
<1>8. InOrder'
  BY <1>1, <1>3, <1>7 DEF Inv, InOrder, QueueInOrder, Busy
<1> QED
  BY <1>4, <1>5, <1>6, <1>8
-----------------------------------------------------------------------------
(* A receive from the channel, by the range loop or by the poll. *)
Queued ==
  {held[w] : w \in Sending} \cup {resultCh[i] : i \in DOMAIN resultCh}

Pops(gone) ==
  \/ TakeBuffered /\ gone = Head(resultCh)
  \/ \E w \in Workers : HandOver(w) /\ gone = held[w]

LEMMA PopStep ==
  ASSUME Inv, NEW gone, Pops(gone)
  PROVE  /\ QueueInOrder' /\ Room'
         /\ gone \in Queued /\ Queued = Queued' \cup {gone}
         /\ \A i \in DOMAIN resultCh' : Before(gone, resultCh'[i])
         /\ \A w \in Sending' : Before(gone, held'[w])
<1>1. CASE TakeBuffered /\ gone = Head(resultCh)
  <2>1. resultCh \in Seq(Result) /\ resultCh # <<>>
    BY <1>1 DEF TakeBuffered, Inv, TypeInv, TypeOK
  <2>2. /\ Len(resultCh) \in Nat \ {0}
        /\ DOMAIN resultCh = 1 .. Len(resultCh)
        /\ DOMAIN resultCh' = 1 .. Len(resultCh) - 1
        /\ \A i \in DOMAIN resultCh' : resultCh'[i] = resultCh[i + 1]
        /\ gone = resultCh[1]
    BY <1>1, <2>1 DEF TakeBuffered
  <2>3. Sending' = Sending /\ held' = held
    BY <1>1 DEF TakeBuffered, Sending
  <2>4. QueueInOrder'
    BY <2>2, <2>3 DEF Inv, InOrder, QueueInOrder
  <2>5. Room'
    BY <2>1 DEF Inv, Room
  <2>6. gone \in Queued /\ Queued' \subseteq Queued
    BY <2>2, <2>3 DEF Queued
  <2>7. ASSUME NEW i \in DOMAIN resultCh, i # 1
        PROVE  resultCh[i] \in Queued'
    <3>1. i - 1 \in DOMAIN resultCh' /\ resultCh'[i - 1] = resultCh[i]
      BY <2>2, <2>7
    <3> QED
      BY <3>1 DEF Queued
  <2>8. Queued \subseteq Queued' \cup {gone}
    BY <2>2, <2>3, <2>7 DEF Queued
  <2>9. \A i \in DOMAIN resultCh' : Before(gone, resultCh'[i])
    BY <2>2 DEF Inv, InOrder, QueueInOrder
  <2>10. \A w \in Sending' : Before(gone, held'[w])
    BY <2>2, <2>3 DEF Inv, InOrder, QueueInOrder
  <2> QED
    BY <2>4, <2>5, <2>6, <2>8, <2>9, <2>10
<1>2. ASSUME NEW w \in Workers, HandOver(w), gone = held[w]
      PROVE  /\ QueueInOrder' /\ Room'
             /\ gone \in Queued /\ Queued = Queued' \cup {gone}
             /\ \A i \in DOMAIN resultCh' : Before(gone, resultCh'[i])
             /\ \A v \in Sending' : Before(gone, held'[v])
  <2>1. /\ w \in Sending /\ Sending' = Sending \ {w}
        /\ \A v \in Sending' : held'[v] = held[v]
    BY <1>2 DEF HandOver, Goto, Sending, Inv, TypeInv, TypeOK
  <2>2. resultCh = <<>> /\ resultCh' = resultCh
    BY <1>2 DEF HandOver, Inv, Room
  <2>3. DOMAIN resultCh = {} /\ DOMAIN resultCh' = {}
    BY <2>2
  <2>4. QueueInOrder' /\ Room'
    BY <2>1, <2>2, <2>3 DEF Inv, InOrder, QueueInOrder, Room
  <2>5. \A v \in Sending' : Before(gone, held'[v])
    BY <1>2, <2>1 DEF Inv, InOrder, QueueInOrder, Before
  <2>6. gone \in Queued /\ Queued = Queued' \cup {gone}
    BY <1>2, <2>1, <2>3 DEF Queued
  <2> QED
    BY <2>3, <2>4, <2>5, <2>6
<1> QED
  BY <1>1, <1>2 DEF Pops

LEMMA TransitSplit == Transit = Queued \cup (IF Busy THEN {cur} ELSE {})
  BY DEF Transit, Queued, Sending

(* for r := range resultCh *)
LEMMA ReceiveStep ==
  ASSUME Inv, Receive
  PROVE  InOrder' /\ Room' /\ Numbered' /\ Transit' = Transit
<1>1. Pops(cur')
  BY DEF Receive, Pops
<1>2. ~Busy /\ Busy' /\ received' = received
  BY DEF Receive, Busy, auxVars
<1>3. Queued = Queued' \cup {cur'} /\ QueueInOrder' /\ Room'
  BY <1>1, PopStep
<1>4. Transit' = Queued' \cup {cur'} /\ Transit = Queued
  BY <1>2, TransitSplit DEF Transit, Queued, Sending
<1>5. Numbered'
  BY <1>2, <1>3, <1>4 DEF Inv, Numbered
<1>6. InOrder'
  BY <1>1, <1>3, PopStep DEF InOrder
<1> QED
  BY <1>3, <1>4, <1>5, <1>6

(* A result that leaves is the oldest of its worker and is nowhere else. *)
LEMMA LeavesOldest ==
  ASSUME Numbered, NEW gone \in Result, NEW rest, Transit = rest \cup {gone},
         \A q \in rest : Before(gone, q)
  PROVE  /\ rest = Transit \ {gone}
         /\ \A q \in Transit : q.src = gone.src => gone.n <= q.n
<1>1. gone.n \in Nat /\ \A q \in rest : q.n \in Nat
  BY StoreAssumption DEF Numbered, Result
<1>2. gone \notin rest
  BY <1>1 DEF Before
<1>3. \A q \in Transit : q.src = gone.src => gone.n <= q.n
  BY <1>1 DEF Before
<1> QED
  BY <1>2, <1>3

(* The poll after a panic throws a result away. *)
LEMMA DrainStep ==
  ASSUME Inv, Drain
  PROVE  /\ InOrder' /\ Room' /\ Numbered' /\ UNCHANGED measurements
         /\ \E r \in Transit :
              /\ Pops(r)
              /\ outcome' = [outcome EXCEPT ![r.n] = "drained"]
              /\ Transit' = Transit \ {r}
              /\ \A q \in Transit : q.src = r.src => r.n <= q.n
<1>1. PICK gone : /\ Pops(gone)
                  /\ outcome' = [outcome EXCEPT ![gone.n] = "drained"]
  BY DEF Drain, Pops
<1>2. ~Busy /\ ~Busy' /\ UNCHANGED <<received, measurements>>
  BY DEF Drain, Busy
<1>3. /\ gone \in Queued /\ Queued = Queued' \cup {gone}
      /\ QueueInOrder' /\ Room'
  BY <1>1, PopStep
<1>4. Transit' = Queued' /\ Transit = Queued
  BY <1>2, TransitSplit DEF Transit, Queued, Sending
<1>5. \A q \in Queued' : Before(gone, q)
  BY <1>1, PopStep DEF Queued
<1>6. gone \in Result /\ Numbered
  BY <1>3, <1>4 DEF Inv, Numbered
<1>7. /\ Transit' = Transit \ {gone}
      /\ \A q \in Transit : q.src = gone.src => gone.n <= q.n
  BY <1>3, <1>4, <1>5, <1>6, LeavesOldest
<1>8. Numbered'
  BY <1>2, <1>3, <1>4, <1>6 DEF Numbered
<1>9. InOrder'
  BY <1>2, <1>3 DEF InOrder
<1> QED
  BY <1>1, <1>2, <1>3, <1>4, <1>7, <1>8, <1>9, Zenon

(* The processor decides on the result it holds. *)
LEMMA FinishStep ==
  ASSUME Inv, Busy, ~Busy',
         UNCHANGED <<pc, held, resultCh, received>>
  PROVE  /\ InOrder' /\ Room' /\ Numbered'
         /\ cur \in Transit /\ Transit' = Transit \ {cur}
         /\ \A q \in Transit : q.src = cur.src => cur.n <= q.n
<1>1. Sending' = Sending /\ Queued' = Queued
  BY DEF Sending, Queued
<1>2. Transit' = Queued /\ Transit = Queued \cup {cur}
  BY <1>1, TransitSplit DEF Transit, Queued, Sending
<1>3. \A q \in Queued : Before(cur, q)
  BY DEF Inv, InOrder, Queued
<1>4. cur \in Result /\ Numbered
  BY <1>2 DEF Inv, Numbered
<1>5. /\ Transit' = Transit \ {cur}
      /\ \A q \in Transit : q.src = cur.src => cur.n <= q.n
  BY <1>2, <1>3, <1>4, LeavesOldest
<1>6. InOrder' /\ Room'
  BY <1>1 DEF Inv, InOrder, QueueInOrder, Room
<1>7. Numbered'
  BY <1>2, <1>4 DEF Numbered
<1> QED
  BY <1>2, <1>5, <1>6, <1>7
-----------------------------------------------------------------------------
(* What every step does to the feed. *)
FeedStep == [Feed!Next]_<<Transit, measurements>>

LEMMA DecideStep ==
  ASSUME Inv, LookupFails \/ LookupPanics \/ AddResult
  PROVE  InOrder' /\ Room' /\ Numbered' /\ FeedStep
<1> USE DEF LookupFails, LookupPanics, Abandon, AddResult, Finish
<1>1. Busy /\ ~Busy' /\ UNCHANGED <<pc, held, resultCh, received>>
  BY DEF Busy, senderVars, workerVars
<1>2. /\ InOrder' /\ Room' /\ Numbered'
      /\ cur \in Transit /\ Transit' = Transit \ {cur}
      /\ \A q \in Transit : q.src = cur.src => cur.n <= q.n
  BY <1>1, FinishStep
<1>3. CASE UNCHANGED measurements
  BY <1>2, <1>3 DEF FeedStep, Feed!Next, Feed!Discard, Feed!Oldest
<1>4. CASE measurements' = AddTo(measurements, cur, curValid)
           /\ (Found(cur) \/ Supported(cur))
  <2>1. cur.key \in Keys
    BY <1>2, <1>4 DEF Inv, Numbered, Found, Supported
  <2>2. curValid \in BOOLEAN
    BY DEF Inv, TypeInv, TypeOK
  <2>3. \E valid \in BOOLEAN :
          measurements' = Feed!AddTo(measurements, cur, valid)
    BY <1>4, <2>2, Zenon
    DEF AddTo, Accepts, Stored, Feed!AddTo, Feed!Accepts, Feed!Stored
  <2> QED
    BY <1>2, <2>1, <2>3 DEF FeedStep, Feed!Next, Feed!Deliver, Feed!Oldest
<1> QED
  BY <1>2, <1>3, <1>4

LEMMA StillActions ==
  ASSUME Inv,
         \/ Cancel \/ InitCache \/ Tick \/ Health \/ UNCHANGED vars
         \/ Stamp \/ LookupProbe \/ Pause \/ Restart
         \/ \E w \in Workers :
              \/ SubscribeFail(w) \/ Subscribe(w) \/ SetConnected(w)
              \/ StreamEnds(w) \/ ListenCancelled(w) \/ CountDown(w)
              \/ ClearConnected(w) \/ RetryTimer(w) \/ WaitCancelled(w)
  PROVE  Still
<1> USE DEF Still, senderVars, workerVars, readerVars, procVars, auxVars, Goto
<1>0. TypeOK
  BY DEF Inv, TypeInv
<1>1. CASE Cancel \/ InitCache \/ Tick \/ Health \/ UNCHANGED vars
  BY <1>1 DEF Cancel, InitCache, Tick, Health, HealthLoadConnected,
     HealthLoadData, vars, Sending, Busy
<1>2. CASE Stamp \/ LookupProbe \/ Pause \/ Restart
  BY <1>2 DEF Stamp, LookupProbe, Pause, Restart, ProcGoto, Sending, Busy
<1>3. ASSUME NEW w \in Workers, SubscribeFail(w) \/ ClearConnected(w)
      PROVE  Still
  <2>1. EnterSelect(w, retryAttempt[w] + 1)
    BY <1>3 DEF SubscribeFail, ClearConnected
  <2>2. Goto(w, "dead") \/ Goto(w, "wait")
    BY ONLY <1>0, <2>1, EnterSelectTyped
  <2>3. pc[w] # "send"
    BY <1>3 DEF SubscribeFail, ClearConnected
  <2>4. Sending' = Sending
    BY <1>0, <2>2, <2>3 DEF Sending, TypeOK
  <2> QED
    BY <1>3, <2>4 DEF SubscribeFail, ClearConnected, Busy
<1>4. ASSUME NEW w \in Workers,
             \/ Subscribe(w) \/ SetConnected(w) \/ CountDown(w)
             \/ StreamEnds(w) \/ ListenCancelled(w)
             \/ RetryTimer(w) \/ WaitCancelled(w)
      PROVE  Still
  <2> USE DEF Subscribe, SetConnected, CountDown, StreamEnds, RetryTimer,
              ListenCancelled, WaitCancelled, LeaveListen, LeaveWait
  <2>1. Sending' = Sending
    BY <1>0, <1>4 DEF Sending, TypeOK
  <2> QED
    BY <1>4, <2>1 DEF Busy
<1> QED
  BY <1>1, <1>2, <1>3, <1>4

LEMMA InvStep == Inv /\ [Next]_vars => Inv' /\ FeedStep
<1> SUFFICES ASSUME Inv, [Next]_vars PROVE Inv' /\ FeedStep
  OBVIOUS
<1>1. TypeInv'
  BY TypeStep DEF Inv
<1>2. ASSUME Still PROVE InOrder' /\ Room' /\ Numbered' /\ FeedStep
  BY <1>2, StillStep DEF Still, FeedStep
<1>3. ASSUME NEW w \in Workers, ReceiveResult(w)
      PROVE  InOrder' /\ Room' /\ Numbered' /\ FeedStep
  <2>1. UNCHANGED measurements
    BY <1>3 DEF ReceiveResult, readerVars
  <2> QED
    BY <1>3, <2>1, AcceptStep
    DEF Arrives, FeedStep, Feed!Next, Feed!Accept, Feed!Result, Result
<1>4. ASSUME NEW w \in Workers, Send(w)
      PROVE  InOrder' /\ Room' /\ Numbered' /\ FeedStep
  BY <1>4, SendStep, Zenon DEF FeedStep, Send, readerVars
<1>5. ASSUME Receive PROVE InOrder' /\ Room' /\ Numbered' /\ FeedStep
  BY <1>5, ReceiveStep DEF FeedStep, Receive
<1>6. ASSUME Drain PROVE InOrder' /\ Room' /\ Numbered' /\ FeedStep
  BY <1>6, DrainStep DEF FeedStep, Feed!Next, Feed!Discard, Feed!Oldest
<1>7. InOrder' /\ Room' /\ Numbered' /\ FeedStep
  BY <1>2, <1>3, <1>4, <1>5, <1>6, DecideStep, StillActions
  DEF Next, WorkerStep, Processor
<1> QED
  BY <1>1, <1>7 DEF Inv

(* The streaming strategy implements the feed: whatever reconnects, panics *)
(* or is cancelled, every result taken off a stream leaves the channel     *)
(* once, after the older ones of its worker, and reaches the measurements  *)
(* map by at most one Add (atlas/stream_strategy.go).                      *)
THEOREM FeedImplemented == Spec => ImplementsFeed
<1>1. Init => Feed!Init
  BY DEF Init, Feed!Init, Transit, Busy, Absent, Feed!Absent
<1>2. Inv /\ [Next]_vars => [Feed!Next]_<<Transit, measurements>>
  BY InvStep DEF FeedStep
<1>3. Inv /\ [Next]_vars => Inv'
  BY InvStep
<1> QED
  BY <1>1, <1>2, <1>3, InvInit, PTL DEF Spec, ImplementsFeed, Feed!Spec
-----------------------------------------------------------------------------
(* The accounts.  A step takes a result into transit, moves results about, *)
(* or settles one: Occupied counts the places, Numbers the results.        *)

Numbers == {r.n : r \in Transit}

Occupied ==
  Cardinality(Sending) + Len(resultCh) + (IF Busy THEN 1 ELSE 0)

TakesIn(r) ==
  /\ Arrives(r)
  /\ outcome' = [outcome EXCEPT ![received + 1] = "inflight"]
  /\ received' = received + 1
  /\ Occupied' = Occupied + 1
  /\ ppc' = ppc

MovesOn ==
  /\ UNCHANGED <<outcome, received>>
  /\ Transit' = Transit
  /\ Occupied' = Occupied
  /\ ppc' = "recover" => ppc = "recover"

Settles(r, o) ==
  /\ UNCHANGED received
  /\ Transit' = Transit \ {r}
  /\ outcome' = [outcome EXCEPT ![r.n] = o]
  /\ Occupied' = Occupied - 1
  /\ \/ o = "drained" /\ ppc = "recover" /\ ppc' # "recover"
     \/ o = "panicked" /\ ppc # "recover"
     \/ o \notin {"none", "inflight", "drained", "panicked"}
          /\ ppc' # "recover"

LEMMA OccupiedNat ==
  ASSUME Inv
  PROVE  /\ IsFiniteSet(Sending) /\ Cardinality(Sending) \in Nat
         /\ Len(resultCh) \in Nat /\ Occupied \in Nat
<1>1. IsFiniteSet(Sending) /\ Cardinality(Sending) \in Nat
  BY StreamingAssumption, FS_Subset, FS_CardinalityType DEF Sending
<1>2. Len(resultCh) \in Nat
  BY DEF Inv, TypeInv, TypeOK
<1> QED
  BY <1>1, <1>2 DEF Occupied

(* A receive empties one place of the channel or frees one sender. *)
LEMMA PopCounts ==
  ASSUME Inv, NEW gone, Pops(gone)
  PROVE  Cardinality(Sending') + Len(resultCh')
           = Cardinality(Sending) + Len(resultCh) - 1
<1> USE OccupiedNat
<1>1. CASE TakeBuffered
  <2>1. resultCh \in Seq(Result) /\ resultCh # <<>> /\ Sending' = Sending
    BY <1>1 DEF TakeBuffered, Sending, Inv, TypeInv, TypeOK
  <2>2. Len(resultCh') = Len(resultCh) - 1
    BY <1>1, <2>1 DEF TakeBuffered
  <2> QED
    BY <2>1, <2>2
<1>2. ASSUME NEW w \in Workers, HandOver(w)
      PROVE  Cardinality(Sending') + Len(resultCh')
               = Cardinality(Sending) + Len(resultCh) - 1
  <2>1. w \in Sending /\ Sending' = Sending \ {w} /\ resultCh' = resultCh
    BY <1>2 DEF HandOver, Goto, Sending, Inv, TypeInv, TypeOK
  <2>2. Cardinality(Sending') = Cardinality(Sending) - 1
    BY <2>1, FS_RemoveElement, Zenon
  <2> QED
    BY <2>1, <2>2
<1> QED
  BY <1>1, <1>2 DEF Pops

LEMMA TakeInStep ==
  ASSUME Inv, NEW w \in Workers, ReceiveResult(w)
  PROVE  \E r : TakesIn(r)
<1> USE DEF readerVars, procVars, auxVars, Goto
<1>1. PICK r : Arrives(r)
  BY AcceptStep
<1>2. /\ w \notin Sending /\ Sending' = Sending \cup {w}
      /\ UNCHANGED <<resultCh, ppc>>
  BY DEF ReceiveResult, Sending, Inv, TypeInv, TypeOK
<1>3. Cardinality(Sending') = Cardinality(Sending) + 1
  BY <1>2, OccupiedNat, FS_AddElement
<1>4. Occupied' = Occupied + 1
  BY <1>2, <1>3, OccupiedNat DEF Occupied, Busy
<1> QED
  BY <1>1, <1>2, <1>4 DEF TakesIn, ReceiveResult

LEMMA MoveOnStep ==
  ASSUME Inv, Still \/ Receive \/ \E w \in Workers : Send(w)
  PROVE  MovesOn
<1>1. CASE Still
  BY <1>1, StillStep DEF Still, MovesOn, Occupied
<1>2. CASE Receive
  <2>1. Pops(cur') /\ ~Busy /\ Busy' /\ UNCHANGED <<outcome, received>>
        /\ ppc' # "recover"
    BY <1>2 DEF Receive, Pops, Busy, auxVars
  <2>2. Occupied' = Occupied
    BY <2>1, PopCounts, OccupiedNat DEF Occupied
  <2> QED
    BY <1>2, <2>1, <2>2, ReceiveStep DEF MovesOn
<1>3. ASSUME NEW w \in Workers, Send(w) PROVE MovesOn
  <2> USE DEF readerVars, procVars, auxVars, Goto
  <2>1. w \in Sending /\ Sending' = Sending \ {w} /\ UNCHANGED ppc
        /\ UNCHANGED <<outcome, received>>
    BY <1>3 DEF Send, Sending, Inv, TypeInv, TypeOK
  <2>2. Len(resultCh') = Len(resultCh) + 1
    <3>1. resultCh \in Seq(Result) /\ held[w] \in Result
      BY <2>1 DEF Sending, Inv, TypeInv, TypeOK, HeldOK
    <3> QED
      BY <1>3, <3>1 DEF Send, Enqueue
  <2>3. Cardinality(Sending') = Cardinality(Sending) - 1
    BY <2>1, OccupiedNat, FS_RemoveElement, Zenon
  <2>4. Occupied' = Occupied
    BY <2>1, <2>2, <2>3, OccupiedNat DEF Occupied, Busy
  <2> QED
    BY <1>3, <2>1, <2>4, SendStep DEF MovesOn
<1> QED
  BY <1>1, <1>2, <1>3

LEMMA SettleStep ==
  ASSUME Inv, Drain \/ LookupFails \/ LookupPanics \/ AddResult
  PROVE  \E r \in Transit : \E o \in Outcomes : Settles(r, o)
<1>1. CASE Drain
  <2>1. PICK r \in Transit :
          /\ Pops(r)
          /\ Transit' = Transit \ {r}
          /\ outcome' = [outcome EXCEPT ![r.n] = "drained"]
    BY <1>1, DrainStep
  <2>2. ~Busy /\ ~Busy' /\ ppc = "recover" /\ ppc' # "recover"
        /\ UNCHANGED received
    BY <1>1 DEF Drain, Busy
  <2>3. Occupied' = Occupied - 1
    BY <2>1, <2>2, PopCounts, OccupiedNat DEF Occupied
  <2> QED
    BY <2>1, <2>2, <2>3, Zenon DEF Settles, Outcomes
<1>2. CASE LookupFails \/ LookupPanics \/ AddResult
  <2>1. Busy /\ ~Busy' /\ UNCHANGED <<pc, held, resultCh, received>>
    BY <1>2 DEF LookupFails, LookupPanics, Abandon, AddResult, Finish, Busy,
       senderVars, workerVars
  <2>2. PICK o \in Outcomes \ {"none", "inflight", "drained"} :
          /\ outcome' = [outcome EXCEPT ![cur.n] = o]
          /\ o # "panicked" => ppc' # "recover"
    BY <1>2 DEF LookupFails, LookupPanics, Abandon, AddResult, Finish,
       Outcomes
  <2>3. cur \in Transit /\ Transit' = Transit \ {cur}
    BY <2>1, FinishStep
  <2>4. Occupied' = Occupied - 1
    BY <2>1, OccupiedNat DEF Occupied, Sending
  <2>5. ppc # "recover"
    BY <2>1 DEF Busy
  <2>6. Settles(cur, o)
    BY <2>1, <2>2, <2>3, <2>4, <2>5 DEF Settles
  <2> QED
    BY <2>2, <2>3, <2>6
<1> QED
  BY <1>1, <1>2

LEMMA AccountStep ==
  ASSUME Inv, [Next]_vars
  PROVE  \/ \E r : TakesIn(r)
         \/ MovesOn
         \/ \E r \in Transit : \E o \in Outcomes : Settles(r, o)
  BY TakeInStep, MoveOnStep, SettleStep, StillActions
  DEF Next, WorkerStep, Processor

(* A number in transit names one result; the numbers not yet given out     *)
(* have no outcome.                                                        *)
Identified ==
  /\ \A q, r \in Transit : q.n = r.n => q = r
  /\ \A n \in 1 .. MaxReceived : n > received => outcome[n] = "none"

Accounts == Identified /\ Conservation

LEMMA NumbersFinite == Inv => IsFiniteSet(Numbers) /\ Numbers \subseteq Nat
<1> SUFFICES ASSUME Inv PROVE IsFiniteSet(Numbers) /\ Numbers \subseteq Nat
  OBVIOUS
<1>1. received \in Nat /\ Numbers \subseteq 1 .. received
  BY StoreAssumption, SMTT(30)
  DEF Inv, Numbered, Numbers, Result, TypeInv, TypeOK
<1>2. IsFiniteSet(1 .. received)
  BY <1>1, FS_Interval
<1>3. IsFiniteSet(Numbers)
  BY <1>1, <1>2, FS_Subset, Zenon
<1> QED
  BY <1>1, <1>3

LEMMA AccountsStep == Inv /\ Accounts /\ [Next]_vars => Accounts'
<1> SUFFICES ASSUME Inv, Accounts, [Next]_vars PROVE Accounts'
  OBVIOUS
<1> USE DEF Accounts
<1>0. /\ outcome \in [1 .. MaxReceived -> Outcomes]
      /\ received \in Nat /\ MaxReceived \in Nat
      /\ \A r \in Transit : r.n \in 1 .. MaxReceived /\ r.n <= received
  BY StoreAssumption DEF Inv, TypeInv, TypeOK, Numbered, Result
<1>1. /\ \A n \in 1 .. MaxReceived : outcome[n] = "inflight" <=> n \in Numbers
      /\ Cardinality(Numbers) = Occupied
  BY DEF Conservation, Numbers, Occupied, Sending
<1>2. SUFFICES /\ Identified'
               /\ \A n \in 1 .. MaxReceived :
                    outcome'[n] = "inflight" <=> n \in Numbers'
               /\ Cardinality(Numbers') = Occupied'
  BY DEF Conservation, Numbers, Occupied, Sending
<1>3. ASSUME NEW r, TakesIn(r)
      PROVE  /\ Identified'
             /\ \A n \in 1 .. MaxReceived :
                  outcome'[n] = "inflight" <=> n \in Numbers'
             /\ Cardinality(Numbers') = Occupied'
  <2>1. r.n \in 1 .. MaxReceived /\ r.n = received + 1
    BY <1>3, StoreAssumption DEF TakesIn, Arrives, Result
  <2>2. Numbers' = Numbers \cup {r.n} /\ r.n \notin Numbers
    BY <1>0, <1>3 DEF TakesIn, Arrives, Numbers
  <2>3. Cardinality(Numbers') = Occupied'
    BY <1>1, <1>3, <2>2, NumbersFinite, FS_AddElement, Zenon
    DEF TakesIn, Arrives
  <2>4. \A n \in 1 .. MaxReceived : outcome'[n] = "inflight" <=> n \in Numbers'
    BY <1>0, <1>1, <1>3, <2>1, <2>2 DEF TakesIn, Arrives
  <2>5. Identified'
    BY <1>0, <1>3, <2>1 DEF TakesIn, Arrives, Identified
  <2> QED
    BY <2>3, <2>4, <2>5
<1>4. CASE MovesOn
  BY <1>1, <1>4 DEF MovesOn, Identified, Numbers
<1>5. ASSUME NEW r \in Transit, NEW o \in Outcomes, Settles(r, o)
      PROVE  /\ Identified'
             /\ \A n \in 1 .. MaxReceived :
                  outcome'[n] = "inflight" <=> n \in Numbers'
             /\ Cardinality(Numbers') = Occupied'
  <2>1. r.n \in 1 .. MaxReceived /\ r.n <= received /\ o # "inflight"
    BY <1>0, <1>5 DEF Settles
  <2>2. Numbers' = Numbers \ {r.n} /\ r.n \in Numbers
    BY <1>5 DEF Settles, Numbers, Identified
  <2>3. Cardinality(Numbers') = Occupied'
    BY <1>1, <1>5, <2>2, NumbersFinite, FS_RemoveElement, Zenon DEF Settles
  <2>4. \A n \in 1 .. MaxReceived : outcome'[n] = "inflight" <=> n \in Numbers'
    BY <1>0, <1>1, <1>5, <2>1, <2>2 DEF Settles
  <2>5. Identified'
    BY <1>0, <1>5, <2>1 DEF Settles, Identified
  <2> QED
    BY <2>3, <2>4, <2>5
<1> QED
  BY <1>3, <1>4, <1>5, AccountStep

LEMMA AccountsHold == Spec => [](Inv /\ Accounts)
<1>1. Init => Accounts
  <2> SUFFICES ASSUME Init PROVE Accounts
    OBVIOUS
  <2>1. Transit = {} /\ Sending = {} /\ Len(resultCh) = 0 /\ ~Busy
    BY DEF Init, Transit, Sending, Busy
  <2>2. Cardinality({r.n : r \in Transit}) = 0 /\ Cardinality(Sending) = 0
    <3>1. {r.n : r \in Transit} = {}
      BY <2>1
    <3> QED
      BY <2>1, <3>1, FS_EmptySet
  <2> QED
    BY <2>1, <2>2, SMTT(30)
    DEF Init, Accounts, Identified, Conservation, Sending
<1>2. Inv /\ [Next]_vars => Inv'
  BY InvStep
<1> QED
  BY <1>1, <1>2, AccountsStep, InvInit, PTL DEF Spec

(* No result is lost or duplicated between a stream and the decision of    *)
(* the processor: what listenForResults received and nobody has decided on *)
(* is with a blocked sender, in resultCh or in processMeasurementResult,   *)
(* in one of these places only.                                            *)
THEOREM ConservationHolds == Spec => []Conservation
<1>1. Accounts => Conservation
  BY DEF Accounts
<1> QED
  BY <1>1, AccountsHold, PTL
-----------------------------------------------------------------------------
LEMMA WithFinite ==
  ASSUME NEW k
  PROVE  IsFiniteSet(With(k)) /\ Cardinality(With(k)) \in Nat
<1>1. IsFiniteSet(1 .. MaxReceived) /\ With(k) \subseteq 1 .. MaxReceived
  BY StoreAssumption, FS_Interval DEF With
<1> QED
  BY <1>1, FS_Subset, FS_CardinalityType, Zenon

(* What the outcomes of a kind become when one result is settled. *)
LEMMA WithSettled ==
  ASSUME Inv, NEW n \in 1 .. MaxReceived, NEW o \in Outcomes,
         outcome' = [outcome EXCEPT ![n] = o], NEW k, outcome[n] # k
  PROVE  /\ IsFiniteSet(With(k)) /\ Cardinality(With(k)) \in Nat
         /\ Cardinality(With(k)') =
              Cardinality(With(k)) + (IF o = k THEN 1 ELSE 0)
<1>1. IsFiniteSet(With(k)) /\ Cardinality(With(k)) \in Nat
  BY WithFinite
<1>2. /\ n \notin With(k)
      /\ With(k)' = IF o = k THEN With(k) \cup {n} ELSE With(k)
  BY DEF With, Inv, TypeInv, TypeOK
<1> QED
  BY <1>1, <1>2, FS_AddElement

(* The poll after a panic discards at most one result per panic: the       *)
(* recover of processMeasurementResults is entered by a panic and left by  *)
(* the poll.                                                               *)
THEOREM DrainedAtMostOncePerPanicHolds == Spec => []DrainedAtMostOncePerPanic
<1> DEFINE D == Cardinality(With("drained"))
           P == Cardinality(With("panicked"))
<1>1. Init => DrainedAtMostOncePerPanic
  <2> SUFFICES ASSUME Init PROVE DrainedAtMostOncePerPanic
    OBVIOUS
  <2>1. With("drained") = {} /\ With("panicked") = {} /\ ppc # "recover"
    BY DEF Init, With
  <2> QED
    BY <2>1, FS_EmptySet DEF DrainedAtMostOncePerPanic
<1>2. Inv /\ Accounts /\ DrainedAtMostOncePerPanic /\ [Next]_vars
        => DrainedAtMostOncePerPanic'
  <2> SUFFICES ASSUME Inv, Accounts, DrainedAtMostOncePerPanic, [Next]_vars
               PROVE  DrainedAtMostOncePerPanic'
    OBVIOUS
  <2>0. /\ D \in Nat /\ P \in Nat
        /\ D + (IF ppc = "recover" THEN 1 ELSE 0) <= P
    BY WithFinite DEF DrainedAtMostOncePerPanic
  <2>1. ASSUME NEW n \in 1 .. MaxReceived, NEW o \in Outcomes,
               outcome[n] \in {"none", "inflight"},
               outcome' = [outcome EXCEPT ![n] = o]
        PROVE  /\ D' = D + (IF o = "drained" THEN 1 ELSE 0)
               /\ P' = P + (IF o = "panicked" THEN 1 ELSE 0)
    BY <2>1, WithSettled, ZenonT(60)
  <2>2. SUFFICES D' + (IF ppc' = "recover" THEN 1 ELSE 0) <= P'
    BY DEF DrainedAtMostOncePerPanic
  <2>3. ASSUME NEW r, TakesIn(r)
        PROVE  D' + (IF ppc' = "recover" THEN 1 ELSE 0) <= P'
    <3>1. received + 1 \in 1 .. MaxReceived /\ received \in Nat
      BY <2>3, StoreAssumption
       DEF TakesIn, Arrives, Result, Inv, TypeInv, TypeOK
    <3>2. outcome[received + 1] = "none"
      BY <3>1 DEF Accounts, Identified
    <3>3. /\ D' = D + (IF "inflight" = "drained" THEN 1 ELSE 0)
          /\ P' = P + (IF "inflight" = "panicked" THEN 1 ELSE 0)
      BY <2>1, <2>3, <3>1, <3>2, Zenon DEF TakesIn, Arrives, Outcomes
    <3> HIDE DEF D, P
    <3> QED
      BY <2>0, <2>3, <3>3 DEF TakesIn, Arrives
  <2>4. CASE MovesOn
    <3>1. D' = D /\ P' = P
      BY <2>4 DEF MovesOn, With
    <3> HIDE DEF D, P
    <3> QED
      BY <2>0, <2>4, <3>1 DEF MovesOn
  <2>5. ASSUME NEW r \in Transit, NEW o \in Outcomes, Settles(r, o)
        PROVE  D' + (IF ppc' = "recover" THEN 1 ELSE 0) <= P'
    <3>1. r.n \in 1 .. MaxReceived
      BY StoreAssumption DEF Inv, Numbered, Result
    <3>2. outcome[r.n] = "inflight"
      BY <3>1 DEF Accounts, Conservation
    <3>3. /\ D' = D + (IF o = "drained" THEN 1 ELSE 0)
          /\ P' = P + (IF o = "panicked" THEN 1 ELSE 0)
      BY <2>1, <2>5, <3>1, <3>2, Zenon DEF Settles
    <3> HIDE DEF D, P
    <3> QED
      BY <2>0, <2>5, <3>3 DEF Settles
  <2> QED
    BY <2>3, <2>4, <2>5, AccountStep
<1> QED
  BY <1>1, <1>2, AccountsHold, PTL DEF Spec
=============================================================================
