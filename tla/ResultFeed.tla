----------------------------- MODULE ResultFeed ------------------------------
(***************************************************************************)
(* What the streaming strategy promises, without its goroutines, channel   *)
(* and panics: results wait in a set; each leaves it once, after the older *)
(* results of its worker, and is either put into the measurements map or   *)
(* given up.                                                               *)
(***************************************************************************)
EXTENDS ResultStore

VARIABLES
  pending,   \* results taken off a stream and not decided on
  store      \* streamingStrategy.measurements

Init ==
  /\ pending = {}
  /\ store = [k \in Keys |-> Absent]

(* A stream delivers a result. *)
Accept(r) ==
  /\ \A q \in pending : q.n < r.n
  /\ pending' = pending \cup {r}
  /\ UNCHANGED store

(* r is the oldest pending result of its worker. *)
Oldest(r) == \A q \in pending : q.src = r.src => r.n <= q.n

Deliver(r) ==
  /\ Oldest(r)
  /\ r.key \in Keys
  /\ pending' = pending \ {r}
  /\ \E valid \in BOOLEAN : store' = AddTo(store, r, valid)

Discard(r) ==
  /\ Oldest(r)
  /\ pending' = pending \ {r}
  /\ UNCHANGED store

Next ==
  \/ \E r \in Result : Accept(r)
  \/ \E r \in pending : Deliver(r) \/ Discard(r)

Spec == Init /\ [][Next]_<<pending, store>>
=============================================================================
