--------------------------- MODULE Backoff_proofs ---------------------------
(* The waits between retries, for every configuration and machine width.     *)
EXTENDS Backoff, RecursionLemmas

(* What the recursion of Power says.                                         *)
LEMMA PowersDouble ==
  /\ Power \in [Nat -> Nat \ {0}]
  /\ Power[0] = 1
  /\ \A n \in Nat : Power[n + 1] = 2 * Power[n]
<1>. DEFINE Positive == Nat \ {0}
            step == [v \in Positive |-> 2 * v]
            IsPower(f) == f = [n \in Nat |-> IF n = 0 THEN 1 ELSE 2 * f[n - 1]]
<1>1. 1 \in Positive /\ step \in [Positive -> Positive]
  OBVIOUS
<1>2. PICK f \in [Nat -> Positive] : f = [n \in Nat |-> IF n = 0 THEN 1 ELSE step[f[n - 1]]]
  <2>. HIDE DEF step, Positive
  <2>. QED BY <1>1, NatRecursion
<1>3. IsPower(f)
  <2>1. \A n \in Nat : n # 0 => f[n - 1] \in Positive
    OBVIOUS
  <2>2. \A n \in Nat : n # 0 => step[f[n - 1]] = 2 * f[n - 1]
    BY <2>1
  <2>. HIDE DEF step
  <2>. QED BY <1>2, <2>2
<1>4. IsPower(Power)
  <2>1. Power = CHOOSE g : IsPower(g)
    BY Zenon DEF Power
  <2>. HIDE DEF IsPower
  <2>. QED BY <1>3, <2>1
<1>5. Power[0] = 1
  BY <1>4
<1>6. \A n \in Nat : Power[n + 1] = 2 * Power[n]
  BY <1>4
<1>7. Power \in [Nat -> Nat \ {0}]
  <2>. DEFINE S == {n \in Nat : Power[n] \in Nat \ {0}}
  <2>1. 0 \in S
    BY <1>5
  <2>2. \A n \in Nat : n \in S => n + 1 \in S
    BY <1>6
  <2>3. \A n \in Nat : Power[n] \in Nat \ {0}
    <3>1. Nat \subseteq S
      <4>. HIDE DEF S
      <4>. QED BY <2>1, <2>2, SetInduction
    <3>. QED BY <3>1
  <2>4. Power = [n \in Nat |-> Power[n]]
    BY <1>4
  <2>. QED BY <2>3, <2>4
<1>. QED BY <1>5, <1>6, <1>7

(* The machine's result of any sum or product is a Duration.                 *)
LEMMA WrapIsDuration ==
  ASSUME NEW x \in Int
  PROVE  Wrap(x) \in -Limit .. Limit - 1
BY BackoffAssumption DEF Wrap

(* A value that fits is kept.                                                *)
LEMMA WrapKeeps ==
  ASSUME NEW x \in -Limit .. Limit - 1
  PROVE  Wrap(x) = x
<1>1. Limit \in Nat /\ x + Limit \in 0 .. 2 * Limit - 1
  BY BackoffAssumption
<1>2. (x + Limit) % (2 * Limit) = x + Limit
  BY <1>1
<1>. QED BY <1>1, <1>2 DEF Wrap

(* The bounds acquireLock works with are positive, in order and Durations,   *)
(* however large the configured seconds.                                     *)
LEMMA BoundsInOrder ==
  /\ MinBackoff \in 1 .. Limit - 1
  /\ MaxBackoff \in MinBackoff .. Limit - 1
<1>1. MinSec * Second \in Int /\ MaxSec * Second \in Int
  BY BackoffAssumption
<1>2. MinBackoff \in 1 .. Limit - 1
  BY <1>1, WrapIsDuration, BackoffAssumption DEF MinBackoff
<1>3. MaxBackoff \in MinBackoff .. Limit - 1
  BY <1>1, <1>2, WrapIsDuration, BackoffAssumption DEF MaxBackoff
<1>. QED BY <1>2, <1>3

LEMMA MultiplierIsPositive ==
  ASSUME NEW attempt \in Nat
  PROVE  Multiplier(attempt) \in 1 .. Limit - 1
<1>1. Power[attempt] \in Int
  BY PowersDouble
<1>2. Limit > 1
  BY BackoffAssumption
<1>. QED BY <1>1, <1>2, WrapIsDuration, BackoffAssumption DEF Multiplier

(* The wait after a lost attempt stays between the bounds, and the range the *)
(* jitter is drawn from is one Int63n accepts.                               *)
THEOREM LockCapBounded ==
  ASSUME NEW attempt \in Nat
  PROVE  /\ LockCap(attempt) \in MinBackoff .. MaxBackoff
         /\ LockCap(attempt) - MinBackoff + 1 \in 1 .. Limit - 1
<1>. DEFINE base == Wrap(MinBackoff * Multiplier(attempt))
<1>1. base \in Int
  BY BoundsInOrder, MultiplierIsPositive, WrapIsDuration, BackoffAssumption
<1>2. LockCap(attempt) \in MinBackoff .. MaxBackoff
  BY <1>1, BoundsInOrder, BackoffAssumption DEF LockCap, Bounded
<1>3. LockCap(attempt) - MinBackoff + 1 \in 1 .. Limit - 1
  BY <1>2, BoundsInOrder, BackoffAssumption
<1>. QED BY <1>2, <1>3

(* A factor is no larger than a positive product.                            *)
LEMMA FactorFits ==
  ASSUME NEW a \in Nat, a >= 1, NEW m \in Int, a * m >= 1
  PROVE  m >= 1 /\ m <= a * m
<1>1. m >= 1
  <2>1. SUFFICES ASSUME m <= 0 PROVE FALSE
    OBVIOUS
  <2>2. a * m <= 0
    BY <2>1
  <2>. QED BY <2>2
<1>2. (a - 1) * m >= 0
  BY <1>1
<1>3. a * m = (a - 1) * m + m
  OBVIOUS
<1>. QED BY <1>1, <1>2, <1>3

(* As long as nothing overflows, the cap is the doubled wait, up to the      *)
(* maximum.                                                                  *)
THEOREM LockCapDoubles ==
  ASSUME NEW attempt \in Nat, MinBackoff * Power[attempt] < Limit
  PROVE  LockCap(attempt) = IF MinBackoff * Power[attempt] > MaxBackoff
                            THEN MaxBackoff ELSE MinBackoff * Power[attempt]
<1>. DEFINE m == Power[attempt]
<1>1. m \in Nat /\ m >= 1 /\ MinBackoff \in Nat /\ MinBackoff >= 1 /\ MinBackoff <= MaxBackoff
  BY PowersDouble, BoundsInOrder, BackoffAssumption
<1>. HIDE DEF m
<1>2. MinBackoff * m >= 1 /\ MinBackoff * m >= MinBackoff /\ MinBackoff * m \in Nat
  <2>1. MinBackoff * (m - 1) >= 0
    BY <1>1
  <2>2. MinBackoff * m = MinBackoff * (m - 1) + MinBackoff
    BY <1>1
  <2>. QED BY <1>1, <2>1, <2>2
<1>3. m <= MinBackoff * m
  BY <1>1, <1>2, FactorFits
<1>4. m \in 1 .. Limit - 1 /\ MinBackoff * m \in 1 .. Limit - 1
  BY <1>1, <1>2, <1>3, BackoffAssumption DEF m
<1>5. Multiplier(attempt) = m
  BY <1>4, WrapKeeps, BackoffAssumption DEF Multiplier, m
<1>6. Wrap(MinBackoff * m) = MinBackoff * m
  BY <1>4, WrapKeeps, BackoffAssumption
<1>. QED BY <1>1, <1>2, <1>5, <1>6 DEF LockCap, Bounded, m

(* The error backoff stays between its bounds after any number of errors.    *)
THEOREM ErrorBackoffBounded ==
  ASSUME NEW backoff \in 0 .. ErrorMax
  PROVE  Doubled(backoff) \in ErrorMin .. ErrorMax
BY WrapIsDuration, BackoffAssumption DEF Doubled, Bounded

(* It never shrinks from one error to the next, if twice the largest delay   *)
(* is a Duration; otherwise an overflow starts it over.                      *)
THEOREM ErrorBackoffGrows ==
  ASSUME 2 * ErrorMax < Limit, NEW backoff \in 0 .. ErrorMax
  PROVE  Doubled(backoff) >= backoff
BY WrapKeeps, BackoffAssumption DEF Doubled, Bounded
=============================================================================
