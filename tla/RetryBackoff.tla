---------------------------- MODULE RetryBackoff ----------------------------
(***************************************************************************)
(* The reconnection backoff of a streaming worker: getRetryDelay in        *)
(* atlas/stream_strategy_worker.go.  A delay is a signed integer of        *)
(* IntBits bits (time.Duration is an int64 count of nanoseconds), so the   *)
(* product minRetryDelay * (1 << retryAttempt) wraps around.               *)
(***************************************************************************)
EXTENDS Integers

CONSTANTS
  MinRetryDelay,   \* minRetryDelay, in the unit of time.Duration
  MaxRetryDelay,   \* maxRetryDelay, same unit
  IntBits          \* width of time.Duration (64 in the code)

(* 1 << n *)
Pow2[n \in Nat] == IF n = 0 THEN 1 ELSE 2 * Pow2[n - 1]

(* time.Duration has the values -Half .. Half - 1. *)
Half == Pow2[IntBits - 1]

(* The constants are 1 s, 60 s and 64 bits: the delay of the first retry   *)
(* is far from the largest time.Duration, and half the cap is not zero.    *)
ASSUME BackoffAssumption ==
  /\ MinRetryDelay \in Nat \ {0}
  /\ MaxRetryDelay \in Nat \ {0, 1}
  /\ IntBits \in Nat \ {0}
  /\ 2 * MinRetryDelay < Half

(* Two's complement value of x in IntBits bits. *)
Wrap(x) == ((x + Half) % (2 * Half)) - Half

(* Fault: the shift is one too large. *)
BaseDelayOffByOne(n) == Wrap(MinRetryDelay * Pow2[n + 1])

(* minRetryDelay * time.Duration(1 << retryAttempt) *)
BaseDelay(n) == Wrap(MinRetryDelay * Pow2[n])

(* The delay after the cap; the comparison is signed. *)
CappedDelay(n) ==
  LET d == BaseDelay(n) IN IF d > MaxRetryDelay THEN MaxRetryDelay ELSE d

(* rand.Int63n panics when its argument, delay / 2, is not positive. *)
Panics(n) == CappedDelay(n) \div 2 <= 0

(* Fault: the jitter is not recentred by subtracting a quarter. *)
JitterNotRecentred(n) ==
  LET d == CappedDelay(n) IN {d + j : j \in 0 .. (d \div 2 - 1)}

(* Every value getRetryDelay can return when it does not panic. *)
RetryDelays(n) ==
  LET d == CappedDelay(n) IN {d + j - (d \div 4) : j \in 0 .. (d \div 2 - 1)}
=============================================================================
