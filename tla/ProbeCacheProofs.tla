-------------------------- MODULE ProbeCacheProofs ---------------------------
(* The clean-up of the cache, for any clients, probe ids and time to live. *)
EXTENDS ProbeCache, TLAPS

(* RemovalsCounted needs that the scan's keys are keys of the map, and     *)
(* that the map's new items are items; ReplacedByLonger that no item       *)
(* outlives one made now.                                                  *)
Inv ==
  /\ now \in Nat
  /\ id \in [Clients -> IDs]
  /\ cache \in [IDs -> Item \cup {None}]
  /\ expired \subseteq Cached
  /\ \A i \in Cached : cache[i].expires <= now + TTL

LEMMA NewItemIsItem == now \in Nat => NewItem # None /\ NewItem \in Item
  BY CacheAssumption DEF NewItem, Item

LEMMA InvHolds == Spec => []Inv
<1>1. Init => Inv
  BY DEF Init, Inv, Cached
<1>2. Inv /\ [Next]_vars => Inv'
  <2> SUFFICES ASSUME Inv, [Next]_vars PROVE Inv'
    OBVIOUS
  <2> USE DEF Inv, Cached, clientVars, cleanVars
  <2>0. \A i \in Cached : cache[i].expires \in Nat
    BY DEF Item
  <2>1. CASE Tick \/ Cancel \/ UNCHANGED vars
    <3>1. UNCHANGED <<cache, id, expired>> /\ now' \in Nat /\ now <= now'
      BY <2>1 DEF Tick, Cancel, vars
    <3>2. \A i \in Cached : cache[i].expires <= now' + TTL
      BY <2>0, <3>1, CacheAssumption
    <3> QED
      BY <3>1, <3>2
  <2>2. ASSUME NEW c \in Clients,
               Call(c) \/ Get(c) \/ Fetch(c) \/ FetchFails(c)
        PROVE  Inv'
    BY <2>2 DEF Call, Get, Fetch, FetchFails
  <2>3. ASSUME NEW c \in Clients, Add(c) PROVE Inv'
    <3>1. /\ cache' = [cache EXCEPT ![id[c]] = NewItem]
          /\ UNCHANGED <<now, id, expired>>
      BY <2>3 DEF Add
    <3>2. NewItem # None /\ NewItem \in Item
      BY NewItemIsItem
    <3>3. NewItem.expires = now + TTL /\ now + TTL \in Nat
      BY CacheAssumption DEF NewItem
    <3>4. \A i \in Cached' : cache'[i].expires <= now' + TTL
      BY <3>1, <3>3
    <3> QED
      BY <3>1, <3>2, <3>4
  <2>4. CASE StartScan \/ Stop
    BY <2>4 DEF StartScan, Stop
  <2>5. ASSUME NEW i \in IDs, ScanKey(i) PROVE Inv'
    BY <2>5 DEF ScanKey, Expired
  <2>6. CASE Delete
    BY <2>6 DEF Delete
  <2> QED
    BY <2>1, <2>2, <2>3, <2>4, <2>5, <2>6 DEF Next, Client, Cleaner
<1> QED
  BY <1>1, <1>2, PTL DEF Spec

(* What CleanUp has collected is in the map until CleanUp itself removes   *)
(* it, so the number it logs is the number of items it removed: Get leaves *)
(* expired items where they are, and Add only replaces (probe/cache.go).   *)
THEOREM RemovalsCountedHolds == Spec => []RemovalsCounted
<1>1. Inv => RemovalsCounted
  BY DEF Inv, RemovalsCounted
<1> QED
  BY <1>1, InvHolds, PTL

(* However many lookups of one probe overlap, the last to call Add leaves  *)
(* an item that expires no earlier than any it replaces: expires is taken  *)
(* from the clock in Add, under the lock, and not when the lookup began    *)
(* (probe/cache.go).                                                       *)
THEOREM ReplacedByLongerHolds == Spec => ReplacedByLonger
<1> DEFINE Longer ==
      \A i \in IDs : (cache[i] # None /\ cache'[i] # None) =>
        cache[i].expires <= cache'[i].expires
<1>1. ASSUME Inv, [Next]_vars PROVE Longer
  <2>1. \A i \in IDs : cache[i] # None => cache[i].expires \in Nat
    BY <1>1 DEF Inv, Item
  <2>2. CASE UNCHANGED cache
    BY <2>1, <2>2
  <2>3. CASE Delete
    BY <2>1, <2>3 DEF Delete
  <2>4. ASSUME NEW c \in Clients, Add(c) PROVE Longer
    <3>1. NewItem.expires = now + TTL
      BY DEF NewItem
    <3>2. /\ cache' = [cache EXCEPT ![id[c]] = NewItem]
          /\ \A i \in IDs : cache[i] # None => cache[i].expires <= now + TTL
      BY <1>1, <2>4 DEF Add, Inv, Cached
    <3> QED
      BY <1>1, <2>1, <3>1, <3>2 DEF Inv
  <2> QED
    BY <1>1, <2>2, <2>3, <2>4
    DEF Next, Tick, Cancel, Cleaner, StartScan, ScanKey, Stop, Client, Call,
        Get, Fetch, FetchFails, vars
<1>2. Inv /\ [Next]_vars => [Longer]_vars
  BY <1>1
<1> QED
  BY <1>2, InvHolds, PTL DEF Spec, ReplacedByLonger

(* Every variable of the cache, its clients and its clean-up keeps its     *)
(* type.                                                                   *)
THEOREM TypeOKHolds == Spec => []TypeOK
<1> DEFINE Rest == /\ pc \in [Clients -> {"idle", "get", "fetch", "add"}]
                   /\ cpc \in {"idle", "scan", "done"}
                   /\ toScan \subseteq IDs
                   /\ ctxDone \in BOOLEAN
                   /\ crashed \in BOOLEAN
<1>1. Init => Rest
  BY Zenon DEF Init
<1>2. Inv /\ Rest /\ [Next]_vars => Rest'
  <2> SUFFICES ASSUME Inv, Rest, [Next]_vars PROVE Rest'
    OBVIOUS
  <2> USE DEF clientVars, cleanVars
  <2>1. CASE Tick \/ Cancel \/ UNCHANGED vars
    BY <2>1, Zenon DEF Tick, Cancel, vars
  <2>2. ASSUME NEW c \in Clients,
               Call(c) \/ Get(c) \/ Fetch(c) \/ FetchFails(c)
        PROVE  Rest'
    BY <2>2, Zenon DEF Call, Get, Fetch, FetchFails
  <2>3. ASSUME NEW c \in Clients, Add(c) PROVE Rest'
    <3>1. toScan' \subseteq IDs
      <4>1. toScan' \in {toScan, toScan \cup ({id[c]} \ Cached)}
        BY <2>3 DEF Add
      <4> QED
        BY <4>1 DEF Inv
    <3>2. crashed' \in BOOLEAN
      BY <2>3, Zenon DEF Add
    <3> QED
      BY <2>3, <3>1, <3>2, Zenon DEF Add
  <2>4. CASE Cleaner
    BY <2>4, Zenon DEF Cleaner, StartScan, ScanKey, Delete, Stop, Cached
  <2> QED
    BY <2>1, <2>2, <2>3, <2>4 DEF Next, Client
<1>3. Inv /\ Rest => TypeOK
  BY DEF Inv, Cached, TypeOK
<1> QED
  BY <1>1, <1>2, <1>3, InvHolds, PTL DEF Spec
=============================================================================
