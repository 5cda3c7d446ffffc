-------------------------- MODULE RecursionLemmas --------------------------
(* Induction over the naturals, and what it says of recursive functions: the *)
(* ground for the theorems about powers of two and about loops over lists.   *)
(* Everything is stated with sets and functions instead of operators.        *)
EXTENDS Integers, FiniteSetsExt, WellFoundedInduction, TLAPS

(* A set that contains zero and every successor contains all naturals: it    *)
(* has no smallest gap.                                                      *)
LEMMA SetInduction ==
  ASSUME NEW S, 0 \in S, \A n \in Nat : n \in S => n + 1 \in S
  PROVE  Nat \subseteq S
<1>. DEFINE T == Nat \ S
            R == OpToRel(<, Nat)
<1>1. SUFFICES ASSUME T # {} PROVE FALSE
  OBVIOUS
<1>2. PICK x \in T : \A y \in T : <<y, x>> \notin R
  <2>1. IsWellFoundedOn(R, Nat)
    BY NatLessThanWellFounded
  <2>. HIDE DEF R
  <2>. QED BY <1>1, <2>1, WFMin
<1>3. \A y \in T : ~(y < x)
  BY <1>2 DEF OpToRel
<1>. HIDE DEF R
<1>4. x \in Nat /\ x # 0 /\ x \notin S
  OBVIOUS
<1>5. x - 1 \in Nat /\ x - 1 < x /\ (x - 1) + 1 = x
  BY <1>4
<1>6. x - 1 \in S
  BY <1>3, <1>5
<1>. QED BY <1>4, <1>5, <1>6

-----------------------------------------------------------------------------
(* A function of the naturals may be defined from its predecessor's value.   *)
Recursive(f, n, base, step) ==
  /\ f[0] = base
  /\ \A k \in 1 .. n : f[k] = step[f[k - 1]]

LEMMA RecursionUpTo ==
  ASSUME NEW V, NEW base \in V, NEW step \in [V -> V]
  PROVE  \A n \in Nat : \E f \in [0 .. n -> V] : Recursive(f, n, base, step)
<1>. DEFINE S == {n \in Nat : \E f \in [0 .. n -> V] : Recursive(f, n, base, step)}
<1>1. 0 \in S
  <2>. DEFINE f == [k \in 0 .. 0 |-> base]
  <2>1. f \in [0 .. 0 -> V] /\ Recursive(f, 0, base, step)
    BY DEF Recursive
  <2>. QED BY <2>1
<1>2. ASSUME NEW n \in Nat, n \in S PROVE n + 1 \in S
  <2>1. PICK f \in [0 .. n -> V] : Recursive(f, n, base, step)
    BY <1>2
  <2>. DEFINE g == [k \in 0 .. n + 1 |-> IF k = n + 1 THEN step[f[n]] ELSE f[k]]
  <2>2. g \in [0 .. n + 1 -> V]
    OBVIOUS
  <2>3. g[0] = base
    BY <2>1 DEF Recursive
  <2>4. ASSUME NEW k \in 1 .. n + 1 PROVE g[k] = step[g[k - 1]]
    <3>1. CASE k = n + 1
      BY <3>1
    <3>2. CASE k # n + 1
      <4>1. k \in 1 .. n /\ k - 1 \in 0 .. n /\ k - 1 # n + 1
        BY <3>2
      <4>2. g[k] = f[k] /\ g[k - 1] = f[k - 1]
        BY <3>2, <4>1
      <4>. QED BY <2>1, <4>1, <4>2 DEF Recursive
    <3>. QED BY <3>1, <3>2
  <2>5. Recursive(g, n + 1, base, step)
    BY <2>3, <2>4 DEF Recursive
  <2>. HIDE DEF g
  <2>. QED BY <2>2, <2>5
<1>3. Nat \subseteq S
  <2>. HIDE DEF S
  <2>. QED BY <1>1, <1>2, SetInduction
<1>. QED BY <1>3

LEMMA RecursionAgrees ==
  ASSUME NEW base, NEW step, NEW m \in Nat, NEW n \in Nat, NEW f, NEW g,
         Recursive(f, m, base, step), Recursive(g, n, base, step)
  PROVE  \A k \in Nat : k <= m /\ k <= n => f[k] = g[k]
<1>. DEFINE S == {k \in Nat : k <= m /\ k <= n => f[k] = g[k]}
<1>1. 0 \in S
  BY DEF Recursive
<1>2. ASSUME NEW k \in Nat, k \in S PROVE k + 1 \in S
  <2>1. SUFFICES ASSUME k + 1 <= m, k + 1 <= n PROVE f[k + 1] = g[k + 1]
    OBVIOUS
  <2>2. k + 1 \in 1 .. m /\ k + 1 \in 1 .. n /\ (k + 1) - 1 = k
    BY <2>1
  <2>3. f[k] = g[k]
    BY <1>2, <2>1
  <2>. QED BY <2>2, <2>3 DEF Recursive
<1>3. Nat \subseteq S
  <2>. HIDE DEF S
  <2>. QED BY <1>1, <1>2, SetInduction
<1>. QED BY <1>3

LEMMA NatRecursion ==
  ASSUME NEW V, NEW base \in V, NEW step \in [V -> V]
  PROVE  \E f \in [Nat -> V] :
           f = [n \in Nat |-> IF n = 0 THEN base ELSE step[f[n - 1]]]
<1>. DEFINE upTo == [n \in Nat |-> CHOOSE f \in [0 .. n -> V] : Recursive(f, n, base, step)]
            f == [n \in Nat |-> upTo[n][n]]
<1>1. \A n \in Nat : upTo[n] \in [0 .. n -> V] /\ Recursive(upTo[n], n, base, step)
  BY RecursionUpTo
<1>. HIDE DEF upTo
<1>2. f \in [Nat -> V]
  <2>1. ASSUME NEW n \in Nat PROVE upTo[n][n] \in V
    <3>1. n \in 0 .. n
      OBVIOUS
    <3>. QED BY <1>1, <3>1
  <2>. QED BY <2>1
<1>3. ASSUME NEW n \in Nat PROVE f[n] = IF n = 0 THEN base ELSE step[f[n - 1]]
  <2>1. CASE n = 0
    BY <1>1, <2>1 DEF Recursive
  <2>2. CASE n # 0
    <3>1. n - 1 \in Nat /\ n \in 1 .. n /\ n - 1 <= n /\ n - 1 <= n - 1
      BY <2>2
    <3>2. upTo[n][n] = step[upTo[n][n - 1]]
      BY <1>1, <3>1 DEF Recursive
    <3>3. upTo[n][n - 1] = upTo[n - 1][n - 1]
      BY <1>1, <3>1, RecursionAgrees
    <3>. QED BY <2>2, <3>1, <3>2, <3>3
  <2>. QED BY <2>1, <2>2
<1>4. f = [n \in Nat |-> IF n = 0 THEN base ELSE step[f[n - 1]]]
  <2>. HIDE DEF f
  <2>1. f = [n \in Nat |-> f[n]]
    BY <1>2
  <2>. QED BY <1>3, <2>1
<1>. HIDE DEF f
<1>. QED BY <1>2, <1>4

-----------------------------------------------------------------------------
(* The folds of the community modules recurse over sets of indices: the      *)
(* largest index is taken out, the fold of the others is combined with it.   *)
LEMMA LargestIndex ==
  ASSUME NEW k \in Nat, NEW s \in SUBSET (1 .. k + 1), k + 1 \in s
  PROVE  Max(s) = k + 1
<1>1. \A x \in s : k + 1 >= x
  OBVIOUS
<1>2. \A x \in s : x >= k + 1 => x = k + 1
  OBVIOUS
<1>. QED BY <1>1, <1>2, Zenon DEF Max

LEMMA LargestIsMember ==
  \A n \in Nat : \A s \in SUBSET (1 .. n) : s # {} => Max(s) \in s
<1>. DEFINE S == {n \in Nat : \A s \in SUBSET (1 .. n) : s # {} => Max(s) \in s}
<1>1. 0 \in S
  <2>1. 1 .. 0 = {}
    OBVIOUS
  <2>. QED BY <2>1
<1>2. ASSUME NEW n \in Nat, n \in S PROVE n + 1 \in S
  <2>1. SUFFICES ASSUME NEW s \in SUBSET (1 .. n + 1), s # {} PROVE Max(s) \in s
    OBVIOUS
  <2>2. CASE n + 1 \in s
    BY <2>2, LargestIndex
  <2>3. CASE n + 1 \notin s
    <3>1. s \in SUBSET (1 .. n)
      BY <2>3
    <3>. QED BY <1>2, <2>1, <3>1
  <2>. QED BY <2>2, <2>3
<1>3. Nat \subseteq S
  <2>. HIDE DEF S
  <2>. QED BY <1>1, <1>2, SetInduction
<1>. QED BY <1>3

LEMMA LargestOfInterval ==
  ASSUME NEW k \in Nat, k >= 1
  PROVE  Max(1 .. k) = k /\ (1 .. k) \ {k} = 1 .. k - 1
<1>1. PICK j \in Nat : k = j + 1
  <2>1. k - 1 \in Nat /\ k = (k - 1) + 1
    OBVIOUS
  <2>. QED BY <2>1
<1>2. j + 1 \in 1 .. j + 1 /\ 1 .. j + 1 \in SUBSET (1 .. j + 1)
  OBVIOUS
<1>3. Max(1 .. j + 1) = j + 1
  BY <1>2, LargestIndex
<1>. QED BY <1>1, <1>3

Folds(g, n, base, step) ==
  g = [s \in SUBSET (1 .. n) |->
         IF s = {} THEN base ELSE step[<<g[s \ {Max(s)}], Max(s)>>]]

LEMMA FoldExists ==
  ASSUME NEW V, NEW base \in V, NEW step \in [V \X Nat -> V]
  PROVE  \A n \in Nat : \E g \in [SUBSET (1 .. n) -> V] : Folds(g, n, base, step)
<1>. DEFINE S == {n \in Nat : \E g \in [SUBSET (1 .. n) -> V] : Folds(g, n, base, step)}
<1>1. 0 \in S
  <2>. DEFINE g == [s \in SUBSET (1 .. 0) |-> base]
  <2>1. g \in [SUBSET (1 .. 0) -> V]
    OBVIOUS
  <2>2. \A s \in SUBSET (1 .. 0) : s = {}
    OBVIOUS
  <2>3. Folds(g, 0, base, step)
    BY <2>2 DEF Folds
  <2>. HIDE DEF g
  <2>. QED BY <2>1, <2>3
<1>2. ASSUME NEW n \in Nat, n \in S PROVE n + 1 \in S
  <2>1. PICK f \in [SUBSET (1 .. n) -> V] : Folds(f, n, base, step)
    BY <1>2
  <2>2. \A s \in SUBSET (1 .. n + 1) : s \ {n + 1} \in SUBSET (1 .. n)
    OBVIOUS
  <2>3. \A s \in SUBSET (1 .. n + 1) : n + 1 \notin s => s \in SUBSET (1 .. n)
    OBVIOUS
  <2>. DEFINE g == [s \in SUBSET (1 .. n + 1) |->
                      IF n + 1 \in s THEN step[<<f[s \ {n + 1}], n + 1>>] ELSE f[s]]
  <2>4. g \in [SUBSET (1 .. n + 1) -> V]
    BY <2>2, <2>3
  <2>5. ASSUME NEW s \in SUBSET (1 .. n + 1)
        PROVE  g[s] = IF s = {} THEN base ELSE step[<<g[s \ {Max(s)}], Max(s)>>]
    <3>1. CASE n + 1 \in s
      <4>1. Max(s) = n + 1
        BY <3>1, LargestIndex
      <4>2. s \ {n + 1} \in SUBSET (1 .. n + 1) /\ n + 1 \notin s \ {n + 1}
        OBVIOUS
      <4>3. g[s \ {n + 1}] = f[s \ {n + 1}]
        BY <4>2
      <4>4. g[s] = step[<<f[s \ {n + 1}], n + 1>>]
        BY <3>1
      <4>. HIDE DEF g
      <4>. QED BY <3>1, <4>1, <4>3, <4>4
    <3>2. CASE n + 1 \notin s
      <4>1. s \in SUBSET (1 .. n) /\ s \ {Max(s)} \in SUBSET (1 .. n + 1)
            /\ n + 1 \notin s \ {Max(s)}
        BY <2>3, <3>2
      <4>2. g[s] = f[s] /\ g[s \ {Max(s)}] = f[s \ {Max(s)}]
        BY <3>2, <4>1
      <4>3. f[s] = IF s = {} THEN base ELSE step[<<f[s \ {Max(s)}], Max(s)>>]
        BY <2>1, <4>1 DEF Folds
      <4>. HIDE DEF g
      <4>. QED BY <4>2, <4>3
    <3>. QED BY <3>1, <3>2
  <2>6. Folds(g, n + 1, base, step)
    <3>. HIDE DEF g
    <3>1. g = [s \in SUBSET (1 .. n + 1) |-> g[s]]
      BY <2>4
    <3>. QED BY <2>5, <3>1 DEF Folds
  <2>. HIDE DEF g
  <2>. QED BY <2>4, <2>6
<1>3. Nat \subseteq S
  <2>. HIDE DEF S
  <2>. QED BY <1>1, <1>2, SetInduction
<1>. QED BY <1>3
=============================================================================
