------------------------------ MODULE Lifecycle ------------------------------
(***************************************************************************)
(* The process from start to exit: main and startServer (main.go) with the *)
(* signal context, the goroutine in ListenAndServe, the clean-up goroutine *)
(* InitCache starts (atlas/probe_cache.go), and requests in flight while   *)
(* http.Server.Shutdown waits for them.                                    *)
(*                                                                         *)
(* What a request and a worker do in between is in the other modules.      *)
(***************************************************************************)
EXTENDS Naturals

CONSTANTS
  Requests,   \* metrics requests
  Grace       \* the 30 seconds of shutdownCtx, in ticks

ASSUME LifecycleAssumption == Grace \in Nat

(* What decides on the way through main: whether Load accepts the          *)
(* configuration; whether streaming is enabled, and its buffer_size is     *)
(* more than a channel can have; whether telemetry_path is a pattern the   *)
(* ServeMux refuses, because it is registered already ("/", "/healthz",    *)
(* "/readyz", with profiling one of pprof's) or is not a pattern ("/{");   *)
(* and whether cache.cleanup is 0s.  Validate lets all of these through.   *)
Configs == [valid : BOOLEAN, streaming : BOOLEAN, bufferTooBig : BOOLEAN,
            pathRefused : BOOLEAN, cleanupZero : BOOLEAN]

VARIABLES
  cfg,        \* the configuration
  pc,         \* where main is
  signalled,  \* rootCtx is done
  strategy,   \* the global: "nil", "streaming" or "request"
  cache,      \* the probe cache exists
  cleaner,    \* "none", "starting", "ticking" or "stopped"
  listener,   \* "none", "starting", "open" or "closed"
  serveErr,   \* serveErrCh: "empty", "failed" or "ErrServerClosed"
  reqs,       \* each request: "new", "active", "done" or "cut"
  ready,      \* last answer of /readyz: 0 (none yet), 200 or 503
  waited,     \* ticks since Shutdown was called
  exit        \* how the process ended, "no" while it runs

vars == <<cfg, pc, signalled, strategy, cache, cleaner, listener, serveErr,
          reqs, ready, waited, exit>>

Init ==
  /\ cfg \in Configs
  /\ pc = "load"
  /\ signalled = FALSE
  /\ strategy = "nil"
  /\ cache = FALSE
  /\ cleaner = "none"
  /\ listener = "none"
  /\ serveErr = "empty"
  /\ reqs = [q \in Requests |-> "new"]
  /\ ready = 0
  /\ waited = 0
  /\ exit = "no"

Active == {q \in Requests : reqs[q] = "active"}

(* The process ends; nobody answers the requests in flight. *)
Exit(how) ==
  /\ exit' = how
  /\ reqs' = [q \in Requests |-> IF q \in Active THEN "cut" ELSE reqs[q]]
-----------------------------------------------------------------------------
(* main *)

(* os.Exit(1) on a configuration Load refuses. *)
Load ==
  /\ pc = "load"
  /\ \/ cfg.valid /\ pc' = "notify" /\ UNCHANGED <<reqs, exit>>
     \/ ~cfg.valid /\ Exit("refused") /\ UNCHANGED pc
  /\ UNCHANGED <<cfg, signalled, strategy, cache, cleaner, listener, serveErr,
                 ready, waited>>

(* signal.NotifyContext *)
Notify ==
  /\ pc = "notify"
  /\ pc' = "strategy"
  /\ UNCHANGED <<cfg, signalled, strategy, cache, cleaner, listener, serveErr,
                 reqs, ready, waited, exit>>

(* SIGINT or SIGTERM.  Before NotifyContext it kills; afterwards it cancels *)
(* rootCtx, and another one changes nothing.                               *)
Signal ==
  /\ ~signalled
  /\ \/ pc \in {"load", "notify"} /\ Exit("killed") /\ UNCHANGED signalled
     \/ pc \notin {"load", "notify"} /\ signalled' = TRUE
          /\ UNCHANGED <<reqs, exit>>
  /\ UNCHANGED <<cfg, pc, strategy, cache, cleaner, listener, serveErr, ready,
                 waited>>

(* NewStreamingStrategy makes the channel first, and make panics. *)
MakePanics == cfg.streaming /\ cfg.bufferTooBig

StartStrategy ==
  /\ pc = "strategy"
  /\ \/ /\ ~MakePanics
        /\ strategy' = IF cfg.streaming THEN "streaming" ELSE "request"
        /\ pc' = "register"
        /\ UNCHANGED <<reqs, exit>>
     \/ MakePanics /\ Exit("panic") /\ UNCHANGED <<pc, strategy>>
  /\ UNCHANGED <<cfg, signalled, cache, cleaner, listener, serveErr, ready,
                 waited>>

(* The four http.HandleFunc calls; a pattern that is refused panics. *)
Register ==
  /\ pc = "register"
  /\ \/ ~cfg.pathRefused /\ pc' = "cache" /\ UNCHANGED <<reqs, exit>>
     \/ cfg.pathRefused /\ Exit("panic") /\ UNCHANGED pc
  /\ UNCHANGED <<cfg, signalled, strategy, cache, cleaner, listener, serveErr,
                 ready, waited>>

(* Fault: the server is started before the cache. *)
CacheAfterServe ==
  /\ pc = "cache"
  /\ listener' = "starting"
  /\ pc' = "serve"
  /\ UNCHANGED <<cfg, signalled, strategy, cache, cleaner, serveErr, reqs,
                 ready, waited, exit>>

InitCache ==
  /\ pc = "cache"
  /\ cache' = TRUE
  /\ cleaner' = "starting"
  /\ pc' = "serve"
  /\ UNCHANGED <<cfg, signalled, strategy, listener, serveErr, reqs, ready,
                 waited, exit>>

(* go func() { serveErrCh <- srv.ListenAndServe() }() *)
Serve ==
  /\ pc = "serve"
  /\ listener' = "starting"
  /\ pc' = "select"
  /\ UNCHANGED <<cfg, signalled, strategy, cache, cleaner, serveErr, reqs,
                 ready, waited, exit>>

(* The select may take either case when both are ready.  Shutdown closes   *)
(* the listener and keeps the requests that are active.                    *)
CtxDone ==
  /\ pc = "select"
  /\ signalled
  /\ pc' = "shutdown"
  /\ listener' = IF listener = "open" THEN "closed" ELSE listener
  /\ serveErr' = IF listener = "open" THEN "ErrServerClosed" ELSE serveErr
  /\ UNCHANGED <<cfg, signalled, strategy, cache, cleaner, reqs, ready, waited,
                 exit>>

(* Fault: a failed server is only logged. *)
LogServeError ==
  /\ pc = "select"
  /\ serveErr # "empty"
  /\ Exit("returned")
  /\ UNCHANGED <<cfg, pc, signalled, strategy, cache, cleaner, listener,
                 serveErr, ready, waited>>

(* log.Fatal, unless the server was closed by Shutdown. *)
ServeReturned ==
  /\ pc = "select"
  /\ serveErr # "empty"
  /\ Exit(IF serveErr = "failed" THEN "fatal" ELSE "returned")
  /\ UNCHANGED <<cfg, pc, signalled, strategy, cache, cleaner, listener,
                 serveErr, ready, waited>>

(* Fault: Close instead of Shutdown. *)
CloseAtOnce == TRUE

(* srv.Shutdown returns when no request is active. *)
Drained == Active = {}

(* Fault: Shutdown is called with a context that never expires. *)
NoDeadline == FALSE

Expired == waited = Grace

(* Either way main returns; workers are not waited for. *)
ShutdownReturns ==
  /\ pc = "shutdown"
  /\ Drained \/ Expired
  /\ Exit("returned")
  /\ UNCHANGED <<cfg, pc, signalled, strategy, cache, cleaner, listener,
                 serveErr, ready, waited>>

Tick ==
  /\ pc = "shutdown"
  /\ waited < Grace
  /\ waited' = waited + 1
  /\ UNCHANGED <<cfg, pc, signalled, strategy, cache, cleaner, listener,
                 serveErr, reqs, ready, exit>>
-----------------------------------------------------------------------------
(* The other goroutines *)

(* startCacheCleanupFunc: time.NewTicker panics on 0. *)
StartTicker ==
  /\ cleaner = "starting"
  /\ \/ ~cfg.cleanupZero /\ cleaner' = "ticking" /\ UNCHANGED <<reqs, exit>>
     \/ cfg.cleanupZero /\ Exit("panic") /\ UNCHANGED cleaner
  /\ UNCHANGED <<cfg, pc, signalled, strategy, cache, listener, serveErr,
                 ready, waited>>

StopTicker ==
  /\ cleaner = "ticking"
  /\ signalled
  /\ cleaner' = "stopped"
  /\ UNCHANGED <<cfg, pc, signalled, strategy, cache, listener, serveErr, reqs,
                 ready, waited, exit>>

(* ListenAndServe opens the port, fails, or finds the server shut down. *)
Listen ==
  /\ listener = "starting"
  /\ \/ /\ pc # "shutdown"
        /\ listener' = "open"
        /\ UNCHANGED serveErr
     \/ /\ pc # "shutdown"
        /\ listener' = "closed"
        /\ serveErr' = "failed"
     \/ /\ pc = "shutdown"
        /\ listener' = "closed"
        /\ serveErr' = "ErrServerClosed"
  /\ UNCHANGED <<cfg, pc, signalled, strategy, cache, cleaner, reqs, ready,
                 waited, exit>>

(* Accept fails for good. *)
AcceptFails ==
  /\ listener = "open"
  /\ listener' = "closed"
  /\ serveErr' = "failed"
  /\ UNCHANGED <<cfg, pc, signalled, strategy, cache, cleaner, reqs, ready,
                 waited, exit>>

Request(q) ==
  /\ listener = "open"
  /\ reqs[q] = "new"
  /\ reqs' = [reqs EXCEPT ![q] = "active"]
  /\ UNCHANGED <<cfg, pc, signalled, strategy, cache, cleaner, listener,
                 serveErr, ready, waited, exit>>

Reply(q) ==
  /\ reqs[q] = "active"
  /\ reqs' = [reqs EXCEPT ![q] = "done"]
  /\ UNCHANGED <<cfg, pc, signalled, strategy, cache, cleaner, listener,
                 serveErr, ready, waited, exit>>

(* /readyz: strategy != nil && strategy.IsHealthy().  The request strategy *)
(* is always healthy; what the streaming one answers is module Streaming.  *)
Readyz ==
  /\ listener = "open"
  /\ \E healthy \in IF strategy = "streaming" THEN BOOLEAN
                    ELSE {strategy = "request"} :
       ready' = IF healthy THEN 200 ELSE 503
  /\ UNCHANGED <<cfg, pc, signalled, strategy, cache, cleaner, listener,
                 serveErr, reqs, waited, exit>>
-----------------------------------------------------------------------------
Main ==
  \/ Load \/ Notify \/ StartStrategy \/ Register \/ InitCache \/ Serve
  \/ CtxDone \/ ServeReturned \/ ShutdownReturns

Goroutines == StartTicker \/ StopTicker \/ Listen

Next ==
  /\ exit = "no"
  /\ \/ Main \/ Goroutines \/ Signal \/ Tick \/ AcceptFails \/ Readyz
     \/ \E q \in Requests : Request(q) \/ Reply(q)

Spec == Init /\ [][Next]_vars

(* main runs and time passes.  No request need ever be answered.           *)
FairSpec ==
  Spec /\ WF_vars(exit = "no" /\ Main) /\ WF_vars(exit = "no" /\ Tick)
-----------------------------------------------------------------------------
(* Type invariant of the process. *)
TypeOK ==
  /\ cfg \in Configs
  /\ pc \in {"load", "notify", "strategy", "register", "cache", "serve",
             "select", "shutdown"}
  /\ signalled \in BOOLEAN
  /\ strategy \in {"nil", "streaming", "request"}
  /\ cache \in BOOLEAN
  /\ cleaner \in {"none", "starting", "ticking", "stopped"}
  /\ listener \in {"none", "starting", "open", "closed"}
  /\ serveErr \in {"empty", "failed", "ErrServerClosed"}
  /\ reqs \in [Requests -> {"new", "active", "done", "cut"}]
  /\ ready \in {0, 200, 503}
  /\ waited \in 0 .. Grace
  /\ exit \in {"no", "returned", "refused", "fatal", "panic", "killed"}

(* No request meets the nil cache or the nil strategy, and /readyz does    *)
(* not say 200 before both exist: the port is opened last.                 *)
ServedAfterInit ==
  (Active # {} \/ ready = 200) => cache /\ strategy # "nil"

(* README: "Graceful shutdown".  A process that ends by returning from     *)
(* main cuts a request off only if the request outlasted the whole grace   *)
(* period.                                                                 *)
CutOnlyAfterGrace ==
  (exit = "returned" /\ \E q \in Requests : reqs[q] = "cut") =>
    signalled /\ waited = Grace

(* The exit status tells the cause: 0 only after a signal, never because   *)
(* the server stopped by itself; log.Fatal only if serving failed; and a   *)
(* panic of main or of the goroutines it starts, whenever it comes, only   *)
(* for a configuration that Validate should not have accepted.  (Panics of *)
(* scrapes are in the modules Measurement, ResultExport, RequestScrape.)   *)
ExitTellsCause ==
  /\ exit = "returned" => signalled
  /\ exit = "panic" => MakePanics \/ cfg.pathRefused \/ cfg.cleanupZero
  /\ exit = "fatal" => serveErr = "failed"

(* Liveness: a signal ends the process, although requests may hang and     *)
(* whatever the server and the other goroutines do.                        *)
SignalEndsProcess == signalled ~> (exit # "no")
=============================================================================
