------------------------------ MODULE Backoff ------------------------------
(* The waits between retries, in the 64-bit arithmetic of time.Duration:     *)
(* Runner.nextBackoffDelay between two attempts at the lock, and             *)
(* Loop.nextErrorDelay between two passes that failed.  Each yields a range, *)
(* from which the random jitter picks the wait.                              *)
EXTENDS Integers

CONSTANTS
  Limit,              \* a Duration is in -Limit .. Limit - 1; 2^63 in the build
  Second,             \* time.Second
  MinSec, MaxSec,     \* backoff_min_sec and backoff_max_sec
  ErrorMin, ErrorMax  \* Loop.errorMinDelay and errorMaxDelay

(* What Config.validate and NewLoop establish, and no more: nothing bounds   *)
(* the configured seconds from above.                                        *)
ASSUME BackoffAssumption ==
  /\ Limit \in Nat /\ Second \in 1 .. Limit - 1
  /\ MinSec \in Nat \ {0} /\ MaxSec \in Nat /\ MinSec <= MaxSec
  /\ ErrorMin \in 1 .. Limit - 1 /\ ErrorMax \in ErrorMin .. Limit - 1

(* Two's complement: a sum or product as the machine keeps it.               *)
Wrap(x) == ((x + Limit) % (2 * Limit)) - Limit

Bounded(x, low, high) == IF x < low THEN low ELSE IF x > high THEN high ELSE x

(* The bounds acquireLock works with.                                        *)
MinBackoff ==
  LET min == Wrap(MinSec * Second) IN IF min <= 0 THEN Second ELSE min
MaxBackoff ==
  LET max == Wrap(MaxSec * Second) IN IF max < MinBackoff THEN MinBackoff ELSE max

(* 1 << n, before it is cut to the machine's width.                          *)
Power[n \in Nat] == IF n = 0 THEN 1 ELSE 2 * Power[n - 1]

(* 1 << attempt, with its guard.                                             *)
Multiplier(attempt) ==
  LET shifted == Wrap(Power[attempt]) IN IF shifted <= 0 THEN 1 ELSE shifted

(* Slip: a product that overflowed is not noticed.                           *)
LockCapUnnoticed(attempt) ==
  LET base == Wrap(MinBackoff * Multiplier(attempt))
  IN  IF base > MaxBackoff THEN MaxBackoff ELSE base

(* nextBackoffDelay: a wait in MinBackoff .. LockCap(attempt).               *)
LockCap(attempt) ==
  Bounded(Wrap(MinBackoff * Multiplier(attempt)), MinBackoff, MaxBackoff)

(* Slip: no cap on the doubling.                                            *)
DoubledUncapped(backoff) ==
  IF backoff <= 0 THEN ErrorMin ELSE Wrap(backoff * 2)

(* nextErrorDelay: errorBackoff doubles, from 0 after a success; the wait is *)
(* in ErrorMin .. errorBackoff.                                              *)
Doubled(backoff) ==
  IF backoff <= 0 THEN ErrorMin ELSE Bounded(Wrap(backoff * 2), ErrorMin, ErrorMax)
=============================================================================
