--------------------------- MODULE LifecycleProofs ---------------------------
(***************************************************************************)
(* The safety properties of Lifecycle, for any set of requests and any     *)
(* grace period.  None of them is inductive: Inv adds how far main is when *)
(* the strategy, the cache and the listener exist, and that Shutdown,      *)
(* which only a signal leads to, is all that closes the server.            *)
(***************************************************************************)
EXTENDS Lifecycle, Integers, TLAPS

ReqStates == [Requests -> {"new", "active", "done", "cut"}]

(* The part of TypeOK the proofs need. *)
Typed ==
  /\ reqs \in ReqStates
  /\ serveErr \in {"empty", "failed", "ErrServerClosed"}

Started ==
  /\ pc \notin {"load", "notify", "strategy"} => strategy # "nil"
  /\ pc \in {"serve", "select", "shutdown"} => cache
  /\ listener # "none" => pc \in {"select", "shutdown"}
  /\ Active # {} \/ ready = 200 => listener # "none"

Stopping ==
  /\ pc = "shutdown" => signalled
  /\ serveErr = "ErrServerClosed" => pc = "shutdown"
  /\ exit = "no" => \A q \in Requests : reqs[q] # "cut"

Inv == Typed /\ Started /\ Stopping /\ CutOnlyAfterGrace /\ ExitTellsCause

LEMMA InvInit == Init => Inv
  BY DEF Init, Inv, Typed, ReqStates, Started, Stopping, Active,
      CutOnlyAfterGrace, ExitTellsCause

(* Exit keeps the type of reqs and leaves no request active. *)
LEMMA ExitCuts ==
  ASSUME Typed, NEW how, Exit(how)
  PROVE  /\ exit' = how
         /\ reqs' \in ReqStates
         /\ Active' = {}
         /\ Active = {} => reqs' = reqs
  BY DEF Typed, ReqStates, Exit, Active

LEMMA InvStep == Inv /\ [Next]_vars => Inv'
<1> SUFFICES ASSUME Inv, [Next]_vars PROVE Inv'
  OBVIOUS
<1> USE DEF Inv, Typed, ReqStates, Started, Stopping,
        CutOnlyAfterGrace, ExitTellsCause, MakePanics
<1>1. ASSUME exit = "no", Load PROVE Inv'
  <2>1. CASE Exit("refused")
    <3>1. exit' = "refused" /\ reqs' \in ReqStates /\ Active' = {}
      BY <2>1, ExitCuts, Zenon
    <3> QED
      BY <1>1, <3>1, Zenon DEF Load
  <2>2. CASE pc' = "notify" /\ UNCHANGED <<reqs, exit>>
    BY <1>1, <2>2 DEF Load, Active
  <2> QED
    BY <1>1, <2>1, <2>2, Zenon DEF Load
<1>2. ASSUME exit = "no", Notify PROVE Inv'
  BY <1>2 DEF Notify, Active
<1>15. ASSUME exit = "no", StartStrategy PROVE Inv'
  BY <1>15, ExitCuts DEF StartStrategy, Active
<1>3. ASSUME exit = "no", Register PROVE Inv'
  BY <1>3, ExitCuts DEF Register, Active
<1>4. ASSUME exit = "no", InitCache \/ Serve PROVE Inv'
  BY <1>4 DEF InitCache, Serve, Active
<1>5. ASSUME exit = "no", CtxDone PROVE Inv'
  BY <1>5 DEF CtxDone, Active
<1>6. ASSUME exit = "no", ServeReturned PROVE Inv'
  <2>1. serveErr = "failed" /\ Exit("fatal")
    BY <1>6 DEF ServeReturned
  <2> QED
    <3>1. exit' = "fatal" /\ reqs' \in ReqStates /\ Active' = {}
      BY <2>1, ExitCuts
    <3> QED
      BY <1>6, <2>1, <3>1 DEF ServeReturned
<1>7. ASSUME exit = "no", ShutdownReturns PROVE Inv'
  BY <1>7, ExitCuts DEF ShutdownReturns, Drained, Expired
<1>8. ASSUME exit = "no", StartTicker PROVE Inv'
  BY <1>8, ExitCuts DEF StartTicker, Active
<1>9. ASSUME exit = "no", StopTicker \/ Tick PROVE Inv'
  BY <1>9 DEF StopTicker, Tick, Active
<1>10. ASSUME exit = "no", Listen \/ AcceptFails PROVE Inv'
  BY <1>10 DEF Listen, AcceptFails, Active
<1>11. ASSUME exit = "no", Signal PROVE Inv'
  BY <1>11, ExitCuts DEF Signal, Active
<1>12. ASSUME exit = "no", Readyz PROVE Inv'
  BY <1>12 DEF Readyz, Active
<1>13. ASSUME exit = "no", NEW q \in Requests, Request(q) \/ Reply(q)
       PROVE  Inv'
  BY <1>13 DEF Request, Reply, Active
<1>14. CASE UNCHANGED vars
  BY <1>14 DEF vars, Active
<1> QED
  BY Zenon, <1>1, <1>2, <1>3, <1>4, <1>5, <1>6, <1>7, <1>8, <1>9, <1>10, <1>11,
     <1>12, <1>13, <1>14, <1>15 DEF Next, Main, Goroutines

LEMMA InvHolds == Spec => []Inv
  BY InvInit, InvStep, PTL DEF Spec

(* No request and no positive readiness answer before the probe cache and  *)
(* the strategy exist (main.go opens the port last).                       *)
THEOREM ServedAfterInitHolds == Spec => []ServedAfterInit
<1>1. Inv => ServedAfterInit
  BY DEF Inv, Started, ServedAfterInit
<1> QED
  BY <1>1, InvHolds, PTL

(* main returns with a request unanswered only when Shutdown's whole grace *)
(* period has passed.                                                      *)
THEOREM CutOnlyAfterGraceHolds == Spec => []CutOnlyAfterGrace
<1>1. Inv => CutOnlyAfterGrace
  BY DEF Inv
<1> QED
  BY <1>1, InvHolds, PTL

(* How the process ended tells why: main returns only after a signal, and  *)
(* panics only on a buffer size, a path or a clean-up interval that        *)
(* Validate lets through (main.go).                                        *)
THEOREM ExitTellsCauseHolds == Spec => []ExitTellsCause
<1>1. Inv => ExitTellsCause
  BY DEF Inv
<1> QED
  BY <1>1, InvHolds, PTL
-----------------------------------------------------------------------------
LEMMA ExitTyped ==
  ASSUME TypeOK, Exit("returned") \/ Exit("refused") \/ Exit("fatal")
                   \/ Exit("panic") \/ Exit("killed")
  PROVE  /\ exit' \in {"no", "returned", "refused", "fatal", "panic",
                       "killed"}
         /\ exit' # "no"
         /\ reqs' \in [Requests -> {"new", "active", "done", "cut"}]
  BY DEF TypeOK, Exit, Active

(* Every variable of the process keeps its type. *)
THEOREM TypeOKHolds == Spec => []TypeOK
<1>1. Init => TypeOK
  <2>1. Init => waited \in 0 .. Grace
    BY LifecycleAssumption DEF Init
  <2> QED
    BY <2>1, Zenon DEF Init, TypeOK
<1>2. TypeOK /\ [Next]_vars => TypeOK'
  <2> SUFFICES ASSUME TypeOK, [Next]_vars PROVE TypeOK'
    OBVIOUS
  <2>1. CASE UNCHANGED vars
    BY <2>1 DEF vars, TypeOK
  <2>2. CASE Load
    BY <2>2, ExitTyped DEF Load, TypeOK
  <2>3. CASE Notify
    BY <2>3 DEF Notify, TypeOK
  <2>15. CASE StartStrategy
    BY <2>15, ExitTyped DEF StartStrategy, TypeOK
  <2>4. CASE Register
    BY <2>4, ExitTyped DEF Register, TypeOK
  <2>5. CASE InitCache \/ Serve \/ CtxDone
    <3>1. cache' \in BOOLEAN
      <4>1. cache' = cache \/ cache' = TRUE
        BY <2>5 DEF InitCache, Serve, CtxDone
      <4> QED
        BY <4>1, ZenonT(30) DEF TypeOK
    <3> QED
      BY <2>5, <3>1 DEF InitCache, Serve, CtxDone, TypeOK
  <2>6. CASE ServeReturned
    <3>1. Exit("fatal") \/ Exit("returned")
      BY <2>6, Zenon DEF ServeReturned
    <3> QED
      BY <2>6, <3>1, ExitTyped DEF ServeReturned, TypeOK
  <2>7. CASE ShutdownReturns
    BY <2>7, ExitTyped DEF ShutdownReturns, TypeOK
  <2>8. CASE StartTicker
    BY <2>8, ExitTyped DEF StartTicker, TypeOK
  <2>9. CASE StopTicker \/ Listen \/ AcceptFails
    BY <2>9 DEF StopTicker, Listen, AcceptFails, TypeOK
  <2>10. CASE Signal
    <3>1. signalled' \in BOOLEAN
      BY <2>10, Zenon DEF Signal, TypeOK
    <3>2. UNCHANGED <<reqs, exit>> \/ Exit("killed")
      BY <2>10 DEF Signal
    <3> QED
      BY <2>10, <3>1, <3>2, ExitTyped DEF Signal, TypeOK
  <2>11. CASE Tick
    <3>1. waited' \in 0 .. Grace
      BY <2>11, LifecycleAssumption DEF Tick, TypeOK
    <3> QED
      BY <2>11, <3>1 DEF Tick, TypeOK
  <2>12. CASE Readyz
    <3>1. ready' \in {0, 200, 503}
      BY <2>12, Zenon DEF Readyz
    <3> QED
      BY <2>12, <3>1 DEF Readyz, TypeOK
  <2>13. ASSUME NEW q \in Requests, Request(q) \/ Reply(q) PROVE TypeOK'
    <3>1. reqs' \in [Requests -> {"new", "active", "done", "cut"}]
      BY <2>13 DEF Request, Reply, TypeOK
    <3> QED
      BY <2>13, <3>1 DEF Request, Reply, TypeOK
  <2> QED
    BY <2>1, <2>2, <2>3, <2>4, <2>5, <2>6, <2>7, <2>8, <2>9, <2>10, <2>11,
       <2>12, <2>13, <2>15 DEF Next, Main, Goroutines
<1> QED
  BY <1>1, <1>2, PTL DEF Spec
-----------------------------------------------------------------------------
(* How far main is from the end of the process: the calls it has still to  *)
(* make, and the ticks Shutdown may still wait.                            *)
Calls ==
  [load |-> 8, notify |-> 7, strategy |-> 6, register |-> 5, cache |-> 4,
   serve |-> 3, select |-> 2, shutdown |-> 1]
Remaining == IF exit = "no" THEN Calls[pc] + (Grace - waited) ELSE 0

(* After a signal main is at a call that waits for nobody, at the select,  *)
(* which takes the signal, or in Shutdown, which returns or has time left. *)
NothingHoldsMain ==
  signalled =>
    \/ pc \in {"strategy", "register", "cache", "serve", "select"}
    \/ pc = "shutdown" /\ (Drained \/ Expired \/ waited < Grace)

LEMMA GraceLeft ==
  ASSUME NEW w \in 0 .. Grace
  PROVE  Grace - w \in Nat
  BY LifecycleAssumption

(* No step of anybody adds to what remains, and every step of main and     *)
(* every tick takes from it.                                               *)
Advances ==
  /\ Remaining' <= Remaining
  /\ Main \/ Tick => Remaining' < Remaining
  /\ Remaining \in Nat

(* What is safe about SignalEndsProcess, for any requests and any grace    *)
(* period: after a signal, the process ends within 8 steps of main and the *)
(* ticks of the grace period, whatever the requests, the server and the    *)
(* other goroutines do meanwhile (startServer in main.go).                 *)
THEOREM ShutdownAdvances == Spec => []NothingHoldsMain /\ [][Advances]_vars
<1> DEFINE Notified == signalled => pc \notin {"load", "notify"}
<1>1. /\ Init => Notified
      /\ Notified /\ [Next]_vars => Notified'
      /\ TypeOK /\ Notified => NothingHoldsMain
  <2>1. Init => Notified
    BY Zenon DEF Init
  <2>2. Notified /\ [Next]_vars => Notified'
    BY Zenon
    DEF Next, Main, Load, Notify, StartStrategy, Register, InitCache, Serve,
       CtxDone, ServeReturned, ShutdownReturns, Goroutines, StartTicker,
       StopTicker, Listen, Signal, Tick, AcceptFails, Readyz, Request, Reply,
       vars
  <2>3. TypeOK /\ Notified => NothingHoldsMain
    BY LifecycleAssumption DEF TypeOK, NothingHoldsMain, Expired
  <2> QED
    BY <2>1, <2>2, <2>3
<1>2. ASSUME TypeOK, TypeOK', Next PROVE Advances
  <2> USE <1>2
  <2>1. /\ Calls[pc] \in 1 .. 8 /\ Calls[pc'] \in 1 .. 8
        /\ Grace - waited \in Nat /\ Grace - waited' \in Nat
    <3>1. Calls[pc] \in 1 .. 8 /\ Calls[pc'] \in 1 .. 8
      BY DEF TypeOK, Calls
    <3>2. waited \in 0 .. Grace /\ waited' \in 0 .. Grace
      BY DEF TypeOK
    <3>3. Grace - waited \in Nat /\ Grace - waited' \in Nat
      BY <3>2, GraceLeft
    <3> QED
      BY <3>1, <3>3, Zenon
  <2>2. exit = "no" /\ Remaining = Calls[pc] + (Grace - waited)
    BY DEF Next, Remaining
  <2>3. CASE exit' # "no"
    BY <2>1, <2>2, <2>3 DEF Remaining, Advances
  <2>4. CASE exit' = "no"
    <3>1. Remaining' = Calls[pc'] + (Grace - waited')
      BY <2>4 DEF Remaining, Calls
    <3>2. ASSUME Main PROVE Calls[pc'] < Calls[pc] /\ waited' = waited
      <4>1. ~Exit("refused") /\ ~Exit("panic") /\ ~Exit("returned")
              /\ ~Exit(IF serveErr = "failed" THEN "fatal" ELSE "returned")
        BY <2>4 DEF Exit
      <4> QED
        BY <3>2, <4>1 DEF Main, Load, Notify, StartStrategy, Register,
           InitCache, Serve, CtxDone, ServeReturned, ShutdownReturns, Calls
    <3>3. ASSUME Tick PROVE pc' = pc /\ waited' = waited + 1
      BY <3>3 DEF Tick
    <3>4. CASE UNCHANGED <<pc, waited>>
      <4>1. ~Main /\ ~Tick
        BY <2>1, <3>2, <3>3, <3>4, LifecycleAssumption DEF TypeOK
      <4> QED
        BY <2>1, <2>2, <3>1, <3>4, <4>1 DEF Advances
    <3>5. Main \/ Tick \/ UNCHANGED <<pc, waited>>
      BY DEF Next, Goroutines, StartTicker, StopTicker, Listen, Signal,
         AcceptFails, Readyz, Request, Reply
    <3> QED
      BY <2>1, <2>2, <3>1, <3>2, <3>3, <3>4, <3>5, LifecycleAssumption
      DEF Advances, TypeOK
  <2> QED
    BY <2>3, <2>4
<1>3. TypeOK /\ TypeOK' /\ [Next]_vars => [Advances]_vars
  BY <1>2
<1> QED
  BY <1>1, <1>3, TypeOKHolds, PTL DEF Spec
=============================================================================
