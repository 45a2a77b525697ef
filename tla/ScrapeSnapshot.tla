--------------------------- MODULE ScrapeSnapshot ---------------------------
(***************************************************************************)
(* What a measurement promises to the scrapes of it, without its locks,    *)
(* its two maps and their copies: results replace each other one at a      *)
(* time, the numbers of results only grow, and a scrape shows what is      *)
(* stored at one instant after its call.  Every result of that instant is  *)
(* shown, with the probe it was added with, or dropped because it is older *)
(* than MaxAge; ages are exact, but a result's time is in whole seconds.   *)
(***************************************************************************)
EXTENDS Integers

CONSTANTS Scrapers, Probes, Result, None,   \* see Measurement
  Second,   \* clock ticks per second
  MaxAge    \* in ticks; 0: every result is shown

VARIABLES
  now,      \* the clock
  store,    \* the result stored for each probe, or None
  phase,    \* of each scrape: "idle", "called", "showing" or "done"
  todo,     \* the results a scrape has still to show
  shown     \* what it has shown: the result and the number of the probe

vars == <<now, store, phase, todo, shown>>

Init ==
  /\ now = 0
  /\ store = [p \in Probes |-> None]
  /\ phase = [s \in Scrapers |-> "idle"]
  /\ todo = [s \in Scrapers |-> {}]
  /\ shown = [s \in Scrapers |-> {}]

Tick ==
  /\ now' = now + 1
  /\ UNCHANGED <<store, phase, todo, shown>>

Put(r) ==
  /\ \A p \in Probes : store[p] # None => store[p].n < r.n
  /\ store' = [store EXCEPT ![r.prb] = r]
  /\ UNCHANGED <<now, phase, todo, shown>>

Become(s, from, to) == phase[s] = from /\ phase' = [phase EXCEPT ![s] = to]

Call(s) ==
  /\ Become(s, "idle", "called")
  /\ UNCHANGED <<now, store, todo, shown>>

Snap(s) ==
  /\ Become(s, "called", "showing")
  /\ todo' = [todo EXCEPT ![s] = {store[p] : p \in Probes} \ {None}]
  /\ UNCHANGED <<now, store, shown>>

Age(r) == now - r.ts * Second

Show(s, r) ==
  /\ phase[s] = "showing"
  /\ MaxAge > 0 => Age(r) < MaxAge + Second
  /\ todo' = [todo EXCEPT ![s] = @ \ {r}]
  /\ shown' = [shown EXCEPT ![s] = @ \cup {[res |-> r, probe |-> r.n]}]
  /\ UNCHANGED <<now, store, phase>>

Drop(s, r) ==
  /\ phase[s] = "showing"
  /\ MaxAge > 0 /\ Age(r) > MaxAge
  /\ todo' = [todo EXCEPT ![s] = @ \ {r}]
  /\ UNCHANGED <<now, store, phase, shown>>

End(s) ==
  /\ todo[s] = {}
  /\ Become(s, "showing", "done")
  /\ UNCHANGED <<now, store, todo, shown>>

Leave(s) ==
  /\ Become(s, "done", "idle")
  /\ shown' = [shown EXCEPT ![s] = {}]
  /\ UNCHANGED <<now, store, todo>>

Scrape(s) ==
  \/ Call(s) \/ Snap(s) \/ End(s) \/ Leave(s)
  \/ \E r \in todo[s] : Show(s, r) \/ Drop(s, r)

Next == Tick \/ (\E r \in Result : Put(r)) \/ \E s \in Scrapers : Scrape(s)

Spec == Init /\ [][Next]_vars
=============================================================================
