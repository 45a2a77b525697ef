----------------------------- MODULE ProbeCache ------------------------------
(***************************************************************************)
(* The probe cache (probe/cache.go), its periodic clean-up                 *)
(* (atlas/probe_cache.go) and the goroutines that look probes up through   *)
(* it (probeForID in atlas/helper.go).  Get and Add run under the cache's  *)
(* lock and are one step each; CleanUp scans the map without the lock, one *)
(* step per key, and takes the lock only to delete.                        *)
(***************************************************************************)
EXTENDS Integers

CONSTANTS
  Clients,   \* goroutines calling probeForID
  IDs,       \* probe ids
  None,      \* no item
  TTL,       \* cfg.Cache.TTL in ticks
  MaxNow     \* bound: last tick of the clock

(* cacheItem without the probe it carries. *)
Item == [expires : Nat]

ASSUME CacheAssumption ==
  /\ TTL \in Nat
  /\ MaxNow \in Nat
  /\ None \notin Item

VARIABLES
  now,       \* the clock
  cache,     \* Cache.cache: id -> item, or None
  pc,        \* control state of each client
  id,        \* the probe a client looks up
  cpc,       \* control state of the clean-up goroutine
  toScan,    \* keys its range loop has still to visit
  expired,   \* the slice CleanUp collects
  ctxDone,   \* the root context is cancelled
  crashed    \* the Go runtime ended the process

clientVars == <<pc, id>>
cleanVars == <<cpc, toScan, expired>>
vars == <<now, cache, clientVars, cleanVars, ctxDone, crashed>>

Cached == {i \in IDs : cache[i] # None}

Init ==
  /\ now = 0
  /\ cache = [i \in IDs |-> None]
  /\ pc = [c \in Clients |-> "idle"]
  /\ id \in [Clients -> IDs]
  /\ cpc = "idle"
  /\ toScan = {}
  /\ expired = {}
  /\ ctxDone = FALSE
  /\ crashed = FALSE

(* Fault: times are compared by a wall clock that may be set back. *)
WallClock ==
  /\ now < MaxNow
  /\ now' \in {now + 1, now - 1} \cap Nat
  /\ UNCHANGED <<cache, clientVars, cleanVars, ctxDone, crashed>>

Tick ==
  /\ now < MaxNow
  /\ now' = now + 1
  /\ UNCHANGED <<cache, clientVars, cleanVars, ctxDone, crashed>>

Cancel ==
  /\ ~ctxDone
  /\ ctxDone' = TRUE
  /\ UNCHANGED <<now, cache, clientVars, cleanVars, crashed>>
-----------------------------------------------------------------------------
(* probeForID *)

Call(c) ==
  /\ pc[c] = "idle"
  /\ \E i \in IDs : id' = [id EXCEPT ![c] = i]
  /\ pc' = [pc EXCEPT ![c] = "get"]
  /\ UNCHANGED <<now, cache, cleanVars, ctxDone, crashed>>

(* found && time.Now().Before(p.expires) *)
Fresh(i) == cache[i] # None /\ now < cache[i].expires

(* Fault: a miss removes the expired item. *)
GetEvicts(c) ==
  /\ pc[c] = "get"
  /\ \/ /\ Fresh(id[c])
        /\ pc' = [pc EXCEPT ![c] = "idle"]
        /\ UNCHANGED cache
     \/ /\ ~Fresh(id[c])
        /\ pc' = [pc EXCEPT ![c] = "fetch"]
        /\ cache' = [cache EXCEPT ![id[c]] = None]
  /\ UNCHANGED <<now, id, cleanVars, ctxDone, crashed>>

(* cache.Get *)
Get(c) ==
  /\ pc[c] = "get"
  /\ \/ /\ Fresh(id[c])
        /\ pc' = [pc EXCEPT ![c] = "idle"]
     \/ /\ ~Fresh(id[c])
        /\ pc' = [pc EXCEPT ![c] = "fetch"]
  /\ UNCHANGED <<now, cache, id, cleanVars, ctxDone, crashed>>

(* probe.Get: one HTTP request, without a timeout or a status check. *)
Fetch(c) ==
  /\ pc[c] = "fetch"
  /\ pc' = [pc EXCEPT ![c] = "add"]
  /\ UNCHANGED <<now, cache, id, cleanVars, ctxDone, crashed>>

FetchFails(c) ==
  /\ pc[c] = "fetch"
  /\ pc' = [pc EXCEPT ![c] = "idle"]
  /\ UNCHANGED <<now, cache, id, cleanVars, ctxDone, crashed>>

(* &cacheItem{expires: time.Now().Add(c.ttl), value: p} *)
NewItem == [expires |-> now + TTL]

(* cache.Add.  The write is not ordered with the clean-up's range loop: a  *)
(* new key may or may not be visited, and the runtime may detect the       *)
(* concurrent map iteration and write and end the process.                 *)
Add(c) ==
  /\ pc[c] = "add"
  /\ cache' = [cache EXCEPT ![id[c]] = NewItem]
  /\ pc' = [pc EXCEPT ![c] = "idle"]
  /\ IF cpc = "scan"
       THEN /\ crashed' \in BOOLEAN
            /\ toScan' \in {toScan, toScan \cup ({id[c]} \ Cached)}
       ELSE UNCHANGED <<crashed, toScan>>
  /\ UNCHANGED <<now, id, cpc, expired, ctxDone>>
-----------------------------------------------------------------------------
(* The clean-up goroutine *)

(* The ticker fires and CleanUp enters its range loop. *)
StartScan ==
  /\ cpc = "idle"
  /\ cpc' = "scan"
  /\ toScan' = Cached
  /\ expired' = {}
  /\ UNCHANGED <<now, cache, clientVars, ctxDone, crashed>>

(* v.expires.Before(time.Now()) *)
Expired(i) == cache[i] # None /\ cache[i].expires < now

ScanKey(i) ==
  /\ cpc = "scan"
  /\ i \in toScan
  /\ toScan' = toScan \ {i}
  /\ expired' = IF Expired(i) THEN expired \cup {i} ELSE expired
  /\ UNCHANGED <<now, cache, clientVars, cpc, ctxDone, crashed>>

(* Fault: the collected keys are forgotten. *)
DeleteNothing ==
  /\ cpc = "scan"
  /\ toScan = {}
  /\ cpc' = "idle"
  /\ expired' = {}
  /\ UNCHANGED <<now, cache, clientVars, toScan, ctxDone, crashed>>

(* The loop over expired, under the lock. *)
Delete ==
  /\ cpc = "scan"
  /\ toScan = {}
  /\ cpc' = "idle"
  /\ cache' = [i \in IDs |-> IF i \in expired THEN None ELSE cache[i]]
  /\ expired' = {}
  /\ UNCHANGED <<now, clientVars, toScan, ctxDone, crashed>>

(* select takes the Done case. *)
Stop ==
  /\ cpc = "idle"
  /\ ctxDone
  /\ cpc' = "done"
  /\ UNCHANGED <<now, cache, clientVars, toScan, expired, ctxDone,
                 crashed>>
-----------------------------------------------------------------------------
Client(c) == Call(c) \/ Get(c) \/ Fetch(c) \/ FetchFails(c) \/ Add(c)
Cleaner == StartScan \/ (\E i \in IDs : ScanKey(i)) \/ Delete \/ Stop

Next == ~crashed /\ (Tick \/ Cancel \/ Cleaner \/ \E c \in Clients : Client(c))

Spec == Init /\ [][Next]_vars

(* The ticker keeps firing and the clean-up goroutine is scheduled. *)
FairSpec == Spec /\ WF_vars(~crashed /\ Cleaner)
-----------------------------------------------------------------------------
(* Type invariant of the cache, its clients and its clean-up.              *)
TypeOK ==
  /\ now \in Nat
  /\ cache \in [IDs -> Item \cup {None}]
  /\ pc \in [Clients -> {"idle", "get", "fetch", "add"}]
  /\ id \in [Clients -> IDs]
  /\ cpc \in {"idle", "scan", "done"}
  /\ toScan \subseteq IDs
  /\ expired \subseteq IDs
  /\ ctxDone \in BOOLEAN
  /\ crashed \in BOOLEAN

(* Every key CleanUp collected is still in the map when it deletes, so the *)
(* "Cache items removed: %d" it logs counts real removals: nobody else     *)
(* removes items while it scans.                                           *)
RemovalsCounted == expired \subseteq Cached

(* Lookups of one probe may overlap, and the slower one writes over what   *)
(* the faster one cached; but an item is only ever replaced by one that    *)
(* expires no earlier, so overlapping lookups take no hits away.           *)
ReplacedByLonger ==
  [][\A i \in IDs : (cache[i] # None /\ cache'[i] # None) =>
       cache[i].expires <= cache'[i].expires]_vars

(* The comment on CleanUp: "CleanUp removes expired cache items", and no   *)
(* others.                                                                 *)
RemovesOnlyExpired ==
  [][\A i \in IDs : (cache[i] # None /\ cache'[i] = None) => Expired(i)]_vars

(* Liveness: an expired item does not stay in the map for ever.            *)
ExpiredLeave ==
  \A i \in IDs : Expired(i) ~> (~Expired(i) \/ ctxDone \/ crashed)
=============================================================================
