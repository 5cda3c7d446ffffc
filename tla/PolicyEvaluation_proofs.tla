----------------------- MODULE PolicyEvaluation_proofs ----------------------
(* The cluster policies, for any finite set of nodes and any policy: the     *)
(* loop over the records counts what the sets hold, and a node that reports  *)
(* itself healthy never takes the permission from another.                   *)
EXTENDS PolicyEvaluation, RecursionLemmas, FiniteSetTheorems, TLAPS

-----------------------------------------------------------------------------
(* One more node raises the threshold by one at most.                        *)
LEMMA CeilGrowsByOne ==
  ASSUME NEW percent \in 0 .. 100, NEW n \in Nat
  PROVE  /\ CeilPercent(percent, n) \in Int
         /\ CeilPercent(percent, n) <= CeilPercent(percent, n + 1)
         /\ CeilPercent(percent, n + 1) <= CeilPercent(percent, n) + 1
<1>. DEFINE a == percent * n
<1>1. a \in Int /\ percent * (n + 1) = a + percent
  OBVIOUS
<1>2. \A x \in Int : /\ (x + 99) \div 100 \in Int
                     /\ (x + 99) \div 100 <= (x + percent + 99) \div 100
                     /\ (x + percent + 99) \div 100 <= (x + 99) \div 100 + 1
  BY SMTT(30)
<1>. QED BY <1>1, <1>2 DEF CeilPercent

(* What a healthy report does to the sets the policies count.                *)
LEMMA HealthyReportAdds ==
  ASSUME NEW N, NEW reports \in [N -> Reports], NEW self \in N, NEW n \in N
  PROVE  LET new == [reports EXCEPT ![n] = "healthy"]
         IN  /\ Healthy(new, self) = Healthy(reports, self) \cup {n}
             /\ Known(new, self) = Known(reports, self) \cup {n}
             /\ UnhealthyPeers(new, self) \subseteq UnhealthyPeers(reports, self)
BY DEF Healthy, Known, UnhealthyPeers, Reports

(* Both counts are of finite sets.                                           *)
LEMMA CountsAreFinite ==
  ASSUME NEW N, IsFiniteSet(N), NEW reports \in [N -> Reports], NEW self \in N
  PROVE  /\ IsFiniteSet(Healthy(reports, self)) /\ IsFiniteSet(Known(reports, self))
         /\ Cardinality(Healthy(reports, self)) \in Nat
         /\ Cardinality(Known(reports, self)) \in Nat
<1>1. Healthy(reports, self) \in SUBSET N /\ Known(reports, self) \in SUBSET N
  BY DEF Healthy, Known
<1>2. IsFiniteSet(Healthy(reports, self)) /\ IsFiniteSet(Known(reports, self))
  BY <1>1, FS_Subset
<1>. QED BY <1>2, FS_CardinalityType

(* A report of health opens the way for others or leaves it as it is: it     *)
(* adds to the healthy nodes at least what it adds to the threshold.         *)
THEOREM HealthyReportsHelp ==
  ASSUME NEW N, IsFiniteSet(N), NEW MaxAbs \in Nat, NEW rules \in Policies(N, MaxAbs),
         NEW reports \in [N -> Reports], NEW self \in N, NEW n \in N,
         ~Blocked(rules, reports, self)
  PROVE  ~Blocked(rules, [reports EXCEPT ![n] = "healthy"], self)
<1>. DEFINE new == [reports EXCEPT ![n] = "healthy"]
            healthy == Cardinality(Healthy(reports, self))
            known == Cardinality(Known(reports, self))
<1>1. /\ Healthy(new, self) = Healthy(reports, self) \cup {n}
      /\ Known(new, self) = Known(reports, self) \cup {n}
      /\ UnhealthyPeers(new, self) \subseteq UnhealthyPeers(reports, self)
  BY HealthyReportAdds
<1>2. IsFiniteSet(Healthy(reports, self)) /\ IsFiniteSet(Known(reports, self))
      /\ healthy \in Nat /\ known \in Nat
  BY CountsAreFinite
<1>3. Cardinality(Healthy(new, self)) = IF n \in Healthy(reports, self) THEN healthy ELSE healthy + 1
  BY <1>1, <1>2, FS_AddElement
<1>4. Cardinality(Known(new, self)) = IF n \in Known(reports, self) THEN known ELSE known + 1
  BY <1>1, <1>2, FS_AddElement
<1>5. n \in Healthy(reports, self) => n \in Known(reports, self)
  BY DEF Healthy, Known
<1>6. rules.minPercent \in 0 .. 100 /\ rules.minAbsolute \in Nat
  BY DEF Policies
<1>7. ~BelowAbsolute(rules, new, self)
  BY <1>2, <1>3, <1>6 DEF Blocked, BelowAbsolute
<1>8. ~BelowFraction(rules, new, self)
  <2>1. /\ CeilPercent(rules.minPercent, known) \in Int
        /\ CeilPercent(rules.minPercent, known) <= CeilPercent(rules.minPercent, known + 1)
        /\ CeilPercent(rules.minPercent, known + 1) <= CeilPercent(rules.minPercent, known) + 1
    BY <1>2, <1>6, CeilGrowsByOne
  <2>2. CeilPercent(rules.minPercent, known + 1) \in Int
    BY <1>2, <1>6, CeilGrowsByOne DEF CeilPercent
  <2>3. ~(healthy < CeilPercent(rules.minPercent, known))
    BY DEF Blocked, BelowFraction
  <2>4. CASE n \in Healthy(reports, self)
    BY <1>3, <1>4, <1>5, <2>3, <2>4 DEF BelowFraction
  <2>5. CASE n \notin Healthy(reports, self) /\ n \in Known(reports, self)
    <3>1. ~(healthy + 1 < CeilPercent(rules.minPercent, known))
      BY <1>2, <2>1, <2>3
    <3>. HIDE DEF healthy, known
    <3>. QED BY <1>3, <1>4, <2>5, <3>1 DEF BelowFraction
  <2>6. CASE n \notin Healthy(reports, self) /\ n \notin Known(reports, self)
    <3>. HIDE DEF healthy, known
    <3>1. ~(healthy + 1 < CeilPercent(rules.minPercent, known + 1))
      BY <1>2, <2>1, <2>2, <2>3
    <3>. QED BY <1>3, <1>4, <2>6, <3>1 DEF BelowFraction
  <2>. QED BY <2>4, <2>5, <2>6
<1>9. ~OnlyFallbackLeft(rules, new, self)
  <2>1. Healthy(new, self) \subseteq rules.fallback => Healthy(reports, self) \subseteq rules.fallback
    BY <1>1
  <2>. QED BY <2>1 DEF Blocked, OnlyFallbackLeft
<1>10. UnhealthyPeers(new, self) = {}
  BY <1>1 DEF Blocked
<1>. QED BY <1>7, <1>8, <1>9, <1>10 DEF Blocked

-----------------------------------------------------------------------------
TypeInv == rec \in [Node -> Reports] /\ policy \in Policies(Node, MaxAbsolute)

LEMMA Typing == Spec => []TypeInv
<1>1. Init => TypeInv
  BY PolicyAssumption DEF Init, TypeInv, Policies, Reports
<1>2. TypeInv /\ [Next]_vars => TypeInv'
  BY DEF TypeInv, Next, ReportHealthy, ReportUnhealthy, vars, Reports
<1>. QED BY <1>1, <1>2, PTL DEF Spec

(* A list that Status returns has each record once.                          *)
Reported == {m \in Node : rec[m] # "none"}

RecordOf(m) == [node |-> m, healthy |-> rec[m] = "healthy"]

LEMMA RecordsAreFinite == IsFiniteSet(Records) /\ Cardinality(Records) \in Nat
<1>. DEFINE f == [m \in Reported |-> RecordOf(m)]
<1>1. IsFiniteSet(Reported)
  BY PolicyAssumption, FS_Subset DEF Reported
<1>2. f \in Surjection(Reported, Records)
  BY DEF Surjection, Records, RecordOf, Reported
<1>3. IsFiniteSet(Records)
  <2>. HIDE DEF f
  <2>. QED BY <1>1, <1>2, FS_Surjection
<1>. QED BY <1>3, FS_CardinalityType

LEMMA StatusLists ==
  ASSUME NEW records \in Status
  PROVE  /\ records \in [1 .. Cardinality(Records) -> Records]
         /\ \A r \in Records : \E i \in 1 .. Cardinality(Records) : records[i] = r
<1>. DEFINE n == Cardinality(Records)
<1>1. records \in Injection(1 .. n, Records)
  BY DEF Status, SetToSeqs, Injection, IsInjective
<1>2. n \in Nat /\ IsFiniteSet(Records)
  BY RecordsAreFinite
<1>3. Cardinality(1 .. n) = n
  BY <1>2, FS_Interval
<1>4. records \in Surjection(1 .. n, Records)
  <2>. HIDE DEF n
  <2>. QED BY <1>1, <1>2, <1>3, FS_Injection DEF n
<1>. QED BY <1>1, <1>4 DEF Injection, Surjection

LEMMA StatusExists == Status # {}
<1>1. PICK f : f \in Bijection(1 .. Cardinality(Records), Records)
  BY RecordsAreFinite, FS_CardinalityType DEF ExistsBijection
<1>2. f \in Status
  BY <1>1 DEF Status, SetToSeqs, Bijection, Injection, IsInjective
<1>. QED BY <1>2

-----------------------------------------------------------------------------
(* evaluateClusterPolicies' loop, one record after the other.                *)
Counts == [seen : SUBSET Node, total : Nat, healthy : Nat, nonFallback : Nat]

LEMMA LoopByRecord ==
  ASSUME NEW self \in Node, NEW n \in Nat, NEW records \in [1 .. n -> Records]
  PROVE  \E v :
           /\ v[0] = CountSelf(self)
           /\ \A k \in 1 .. n : v[k] = CountRecord(v[k - 1], records[k])
           /\ FoldLeft(CountRecord, CountSelf(self), records) = v[n]
<1>. DEFINE base == CountSelf(self)
            IsLoop(h) == h = [s \in SUBSET (1 .. n) |->
                                IF s = {} THEN base
                                ELSE CountRecord(h[s \ {Max(s)}], records[Max(s)])]
            folded == CHOOSE h : IsLoop(h)
            v == [k \in 0 .. n |-> folded[1 .. k]]
<1>1. DOMAIN records = 1 .. n /\ \A k \in 1 .. n : records[k] \in Records
  OBVIOUS
<1>2. FoldLeft(CountRecord, base, records) = folded[1 .. n]
  <2>1. FoldLeft(CountRecord, base, records)
          = (CHOOSE h : h = [s \in SUBSET (DOMAIN records) |->
                               IF s = {} THEN base
                               ELSE CountRecord(h[s \ {Max(s)}], records[Max(s)])])[DOMAIN records]
    BY DEF FoldLeft, MapThenFoldSet
  <2>. QED BY <1>1, <2>1
<1>3. IsLoop(folded)
  <2>. DEFINE step == [p \in Counts \X Nat |->
                         IF p[2] \in 1 .. n THEN CountRecord(p[1], records[p[2]]) ELSE base]
  <2>1. base \in Counts
    BY DEF Counts, CountSelf, One
  <2>2. ASSUME NEW c \in Counts, NEW r \in Records PROVE CountRecord(c, r) \in Counts
    BY DEF Counts, CountRecord, One, Records
  <2>3. step \in [Counts \X Nat -> Counts]
    <3>. HIDE DEF base
    <3>. QED BY <1>1, <2>1, <2>2
  <2>4. PICK h \in [SUBSET (1 .. n) -> Counts] : Folds(h, n, base, step)
    <3>. HIDE DEF step, base
    <3>. QED BY <2>1, <2>3, FoldExists
  <2>5. ASSUME NEW s \in SUBSET (1 .. n), s # {}
        PROVE  step[<<h[s \ {Max(s)}], Max(s)>>] = CountRecord(h[s \ {Max(s)}], records[Max(s)])
    <3>1. Max(s) \in 1 .. n
      BY <2>5, LargestIsMember
    <3>. HIDE DEF step
    <3>2. s \ {Max(s)} \in SUBSET (1 .. n)
      OBVIOUS
    <3>3. h[s \ {Max(s)}] \in Counts
      BY <3>2
    <3>4. <<h[s \ {Max(s)}], Max(s)>> \in Counts \X Nat
      BY <3>1, <3>3
    <3>. QED BY <3>1, <3>4 DEF step
  <2>6. IsLoop(h)
    <3>. HIDE DEF step, base
    <3>. QED BY <2>4, <2>5 DEF Folds
  <2>. HIDE DEF IsLoop
  <2>. QED BY <2>6
<1>4. v[0] = base
  <2>1. 1 .. 0 = {} /\ {} \in SUBSET (1 .. n)
    OBVIOUS
  <2>2. folded[{}] = base
    <3>. HIDE DEF folded, base
    <3>. QED BY <1>3
  <2>. HIDE DEF folded, base
  <2>. QED BY <2>1, <2>2
<1>5. ASSUME NEW k \in 1 .. n PROVE v[k] = CountRecord(v[k - 1], records[k])
  <2>1. Max(1 .. k) = k /\ (1 .. k) \ {k} = 1 .. k - 1
    BY LargestOfInterval
  <2>2. 1 .. k \in SUBSET (1 .. n) /\ k \in 1 .. k
    OBVIOUS
  <2>3. folded[1 .. k] = CountRecord(folded[1 .. k - 1], records[k])
    <3>. HIDE DEF folded, base
    <3>. QED BY <1>3, <2>1, <2>2
  <2>. HIDE DEF folded
  <2>. QED BY <2>3
<1>6. v[n] = folded[1 .. n]
  OBVIOUS
<1>. HIDE DEF v
<1>. QED BY <1>2, <1>4, <1>5, <1>6

(* What the counters hold once the nodes in D have been seen.                *)
HealthyIn(D, self) == {m \in D : m = self \/ rec[m] = "healthy"}

Counted(c, self, D) ==
  /\ c.seen = D
  /\ c.total = Cardinality(D)
  /\ c.healthy = Cardinality(HealthyIn(D, self))
  /\ c.nonFallback = Cardinality(HealthyIn(D, self) \ policy.fallback)

LEMMA CountSelfCounts ==
  ASSUME NEW self \in Node
  PROVE  Counted(CountSelf(self), self, {self})
<1>1. HealthyIn({self}, self) = {self}
  BY DEF HealthyIn
<1>2. {self} \ policy.fallback = IF self \in policy.fallback THEN {} ELSE {self}
  OBVIOUS
<1>3. Cardinality({self}) = 1 /\ Cardinality({}) = 0
  BY FS_Singleton, FS_EmptySet
<1>. QED BY <1>1, <1>2, <1>3 DEF Counted, CountSelf, One

LEMMA CountRecordCounts ==
  ASSUME NEW self \in Node, NEW D \in SUBSET Node, self \in D, NEW m \in Node,
         NEW c, Counted(c, self, D)
  PROVE  Counted(CountRecord(c, RecordOf(m)), self, D \cup {m})
<1>. DEFINE H == HealthyIn(D, self)
            K == HealthyIn(D \cup {m}, self)
            F == policy.fallback
<1>1. IsFiniteSet(D) /\ IsFiniteSet(H) /\ IsFiniteSet(H \ F)
  <2>1. H \in SUBSET Node /\ H \ F \in SUBSET Node
    BY DEF HealthyIn
  <2>. HIDE DEF H, F
  <2>. QED BY <2>1, PolicyAssumption, FS_Subset
<1>2. CASE m \in D
  <2>1. D \cup {m} = D /\ CountRecord(c, RecordOf(m)) = c
    BY <1>2 DEF Counted, CountRecord, RecordOf
  <2>. QED BY <2>1
<1>3. CASE m \notin D
  <2>. DEFINE good == rec[m] = "healthy"
              d == CountRecord(c, RecordOf(m))
  <2>1. /\ d.seen = D \cup {m}
        /\ d.total = c.total + 1
        /\ d.healthy = c.healthy + One(good)
        /\ d.nonFallback = c.nonFallback + One(good /\ m \notin F)
    BY <1>3 DEF Counted, CountRecord, RecordOf
  <2>2. K = (IF good THEN H \cup {m} ELSE H) /\ m \notin H
    BY <1>3 DEF HealthyIn
  <2>3. K \ F = IF good /\ m \notin F THEN (H \ F) \cup {m} ELSE H \ F
    <3>. HIDE DEF H, K, F, good
    <3>. QED BY <2>2
  <2>. HIDE DEF H, K, F, good, d
  <2>4. Cardinality(D \cup {m}) = Cardinality(D) + 1
    BY <1>1, <1>3, FS_AddElement
  <2>5. Cardinality(H) \in Nat /\ Cardinality(H \ F) \in Nat
    BY <1>1, FS_CardinalityType
  <2>6. Cardinality(K) = Cardinality(H) + One(good)
    <3>1. CASE good
      BY <1>1, <2>2, <2>5, <3>1, FS_AddElement DEF One
    <3>2. CASE ~good
      BY <2>2, <2>5, <3>2 DEF One
    <3>. QED BY <3>1, <3>2
  <2>7. Cardinality(K \ F) = Cardinality(H \ F) + One(good /\ m \notin F)
    <3>1. CASE good /\ m \notin F
      BY <1>1, <2>2, <2>3, <2>5, <3>1, FS_AddElement DEF One
    <3>2. CASE ~(good /\ m \notin F)
      <4>1. K \ F = H \ F
        BY <2>3, <3>2
      <4>2. One(good /\ m \notin F) = 0
        BY <3>2 DEF One
      <4>3. Cardinality(K \ F) = Cardinality(H \ F) + 0
        BY <2>5, <4>1
      <4>. QED BY <4>2, <4>3, Zenon
    <3>. QED BY <3>1, <3>2
  <2>8. /\ c.total = Cardinality(D) /\ c.healthy = Cardinality(H)
        /\ c.nonFallback = Cardinality(H \ F)
    BY DEF Counted, H, F
  <2>9. /\ d.seen = D \cup {m} /\ d.total = Cardinality(D \cup {m})
        /\ d.healthy = Cardinality(K) /\ d.nonFallback = Cardinality(K \ F)
    BY <2>1, <2>4, <2>6, <2>7, <2>8
  <2>. QED BY <2>9 DEF Counted, K, F, d
<1>. QED BY <1>2, <1>3

(* The loop has counted every node on record, whatever the order.            *)
LEMMA LoopCounts ==
  ASSUME TypeInv, NEW self \in Node, NEW records \in Status
  PROVE  Counted(FoldLeft(CountRecord, CountSelf(self), records), self, Known(rec, self))
<1>. DEFINE n == Cardinality(Records)
            Done(k) == {self} \cup {records[i].node : i \in 1 .. k}
<1>1. /\ n \in Nat /\ records \in [1 .. n -> Records]
      /\ \A r \in Records : \E i \in 1 .. n : records[i] = r
  BY RecordsAreFinite, StatusLists
<1>2. \A i \in 1 .. n : /\ records[i].node \in Reported
                        /\ records[i] = RecordOf(records[i].node)
  BY <1>1 DEF Records, RecordOf, Reported
<1>. HIDE DEF n
<1>3. PICK v : /\ v[0] = CountSelf(self)
               /\ \A k \in 1 .. n : v[k] = CountRecord(v[k - 1], records[k])
               /\ FoldLeft(CountRecord, CountSelf(self), records) = v[n]
  BY <1>1, LoopByRecord
<1>. DEFINE S == {k \in Nat : k <= n => Counted(v[k], self, Done(k))}
<1>4. 0 \in S
  <2>1. Done(0) = {self}
    OBVIOUS
  <2>. QED BY <1>3, <2>1, CountSelfCounts
<1>5. ASSUME NEW k \in Nat, k \in S PROVE k + 1 \in S
  <2>1. SUFFICES ASSUME k + 1 <= n PROVE Counted(v[k + 1], self, Done(k + 1))
    OBVIOUS
  <2>2. k + 1 \in 1 .. n /\ (k + 1) - 1 = k /\ 1 .. k + 1 = (1 .. k) \cup {k + 1}
        /\ 1 .. k \subseteq 1 .. n /\ k <= n
    BY <1>1, <2>1
  <2>. DEFINE m == records[k + 1].node
  <2>3. v[k + 1] = CountRecord(v[k], RecordOf(m)) /\ m \in Node
    BY <1>2, <1>3, <2>2 DEF Reported
  <2>4. Done(k + 1) = Done(k) \cup {m}
    BY <2>2
  <2>5. Done(k) \in SUBSET Node /\ self \in Done(k)
    BY <1>2, <2>2 DEF Reported
  <2>6. Counted(v[k], self, Done(k))
    BY <1>5, <2>2
  <2>. HIDE DEF m, Done
  <2>. QED BY <2>3, <2>4, <2>5, <2>6, CountRecordCounts
<1>6. Counted(v[n], self, Done(n))
  <2>1. Nat \subseteq S
    <3>. HIDE DEF S
    <3>. QED BY <1>4, <1>5, SetInduction
  <2>. HIDE DEF Done
  <2>. QED BY <1>1, <2>1
<1>7. Done(n) = Known(rec, self)
  <2>1. ASSUME NEW m \in Reported PROVE \E i \in 1 .. n : records[i].node = m
    <3>1. RecordOf(m) \in Records /\ RecordOf(m).node = m
      BY DEF RecordOf, Records, Reported
    <3>. QED BY <1>1, <3>1
  <2>2. Known(rec, self) = Reported \cup {self}
    BY DEF Known, Reported, TypeInv
  <2>. QED BY <1>2, <2>1, <2>2
<1>. QED BY <1>3, <1>6, <1>7

LEMMA LoopDecides ==
  ASSUME TypeInv, NEW self \in Node, NEW records \in Status
  PROVE  evaluateClusterPolicies(records, self) <=> Blocked(policy, rec, self)
<1>. DEFINE c == FoldLeft(CountRecord, CountSelf(self), records)
            H == Healthy(rec, self)
<1>1. /\ c.total = Cardinality(Known(rec, self)) /\ c.healthy = Cardinality(H)
      /\ c.nonFallback = Cardinality(H \ policy.fallback)
  <2>1. HealthyIn(Known(rec, self), self) = H
    BY DEF HealthyIn, Known, Healthy, TypeInv
  <2>. QED BY <2>1, LoopCounts DEF Counted
<1>2. filterClusterRecords(records, self) # {} <=> UnhealthyPeers(rec, self) # {}
  <2>1. Range(records) = Records
    BY StatusLists DEF Range
  <2>2. ASSUME NEW r \in Records, r.node # self, ~r.healthy
        PROVE  r.node \in UnhealthyPeers(rec, self)
    <3>1. PICK m \in Node : rec[m] # "none" /\ r = RecordOf(m)
      BY DEF Records, RecordOf
    <3>2. r.node = m /\ rec[m] # "healthy"
      BY <2>2, <3>1 DEF RecordOf
    <3>. QED BY <2>2, <3>1, <3>2 DEF UnhealthyPeers, TypeInv, Reports
  <2>3. ASSUME NEW m \in UnhealthyPeers(rec, self)
        PROVE  RecordOf(m) \in Records /\ RecordOf(m).node # self /\ ~RecordOf(m).healthy
    BY <2>3 DEF Records, RecordOf, UnhealthyPeers, TypeInv
  <2>. QED BY <2>1, <2>2, <2>3 DEF filterClusterRecords
<1>3. /\ IsFiniteSet(H) /\ Cardinality(H) \in Nat /\ Cardinality(Known(rec, self)) \in Nat
  BY PolicyAssumption, CountsAreFinite DEF TypeInv
<1>4. policy.minPercent \in 0 .. 100 /\ policy.minAbsolute \in Nat
  BY PolicyAssumption DEF TypeInv, Policies
<1>5. c.nonFallback = 0 <=> H \subseteq policy.fallback
  <2>1. IsFiniteSet(H \ policy.fallback)
    BY <1>3, FS_Subset
  <2>2. Cardinality(H \ policy.fallback) = 0 <=> H \ policy.fallback = {}
    BY <2>1, FS_EmptySet
  <2>. HIDE DEF c, H
  <2>. QED BY <1>1, <2>2
<1>6. c.healthy > 0
  <2>1. self \in H
    BY DEF Healthy
  <2>2. Cardinality(H) # 0
    BY <1>3, <2>1, FS_EmptySet
  <2>. HIDE DEF c, H
  <2>. QED BY <1>1, <1>3, <2>2
<1>. HIDE DEF c
<1>7. policy.minAbsolute # 0 /\ c.healthy < policy.minAbsolute <=> BelowAbsolute(policy, rec, self)
  BY <1>1, <1>3, <1>4 DEF BelowAbsolute
<1>8. policy.minPercent # 0 /\ c.healthy < CeilPercent(policy.minPercent, c.total)
        <=> BelowFraction(policy, rec, self)
  <2>1. \A k \in Nat : CeilPercent(0, k) = 0
    BY DEF CeilPercent
  <2>. QED BY <1>1, <1>3, <1>4, <2>1 DEF BelowFraction
<1>. QED BY <1>2, <1>5, <1>6, <1>7, <1>8 DEF evaluateClusterPolicies, Blocked, OnlyFallbackLeft, c

-----------------------------------------------------------------------------
(* The loop and the sets never disagree, for any number of nodes.            *)
THEOREM CountsAgree == Spec => []CountsAgreeWithSets
<1>1. TypeInv => CountsAgreeWithSets
  BY LoopDecides DEF CountsAgreeWithSets
<1>. QED BY <1>1, Typing, PTL

(* Nor does a healthy report ever take another node's permission.            *)
THEOREM HealthyReportsOpen == Spec => HealthyReportsNeverBlock
<1>. DEFINE SetsDecide == \A self \in Node : Refused(self) <=> Blocked(policy, rec, self)
<1>1. TypeInv => SetsDecide
  BY LoopDecides, StatusExists DEF Refused
<1>2. ASSUME TypeInv, SetsDecide, SetsDecide', NEW n \in Node, NEW self \in Node,
             ReportHealthy(n), ~Refused(self)
      PROVE  ~Refused(self)'
  <2>1. Refused(self)' <=> Blocked(policy', rec', self)
    BY <1>2
  <2>2. ~Blocked(policy, rec, self)
    BY <1>2
  <2>3. ~Blocked(policy, [rec EXCEPT ![n] = "healthy"], self)
    BY <2>2, PolicyAssumption, HealthyReportsHelp, <1>2 DEF TypeInv
  <2>. QED BY <1>2, <2>1, <2>3 DEF ReportHealthy
<1>3. TypeInv /\ SetsDecide /\ SetsDecide'
        => [\A n, self \in Node : ReportHealthy(n) /\ ~Refused(self) => ~Refused(self)']_vars
  BY <1>2
<1>. HIDE DEF SetsDecide
<1>. QED BY <1>1, <1>3, Typing, PTL DEF HealthyReportsNeverBlock
=============================================================================
