-------------------------- MODULE PolicyEvaluation --------------------------
(* Runner.evaluateClusterPolicies as the code computes it: one pass over the *)
(* list of records etcd returned, counting nodes.  RebootCluster decides     *)
(* with the sets of ClusterPolicies instead; here the two are compared while *)
(* the nodes publish their health.                                           *)
EXTENDS ClusterPolicies, SequencesExt

CONSTANTS Node, Percents, MaxAbsolute

ASSUME PolicyAssumption == /\ IsFiniteSet(Node)
                           /\ Percents \subseteq 0 .. 100 /\ MaxAbsolute \in Nat

VARIABLES rec,       \* etcd: the record of each node, or "none"
          policy     \* the cluster policies, the same on every node

vars == <<rec, policy>>

Init == /\ rec = [n \in Node |-> "none"]
        /\ policy \in [minAbsolute : 0 .. MaxAbsolute, minPercent : Percents,
                       forbidOnlyFallback : BOOLEAN, fallback : SUBSET Node]

ReportHealthy(n) == rec' = [rec EXCEPT ![n] = "healthy"] /\ UNCHANGED policy
ReportUnhealthy(n) == rec' = [rec EXCEPT ![n] = "unhealthy"] /\ UNCHANGED policy

Next == \E n \in Node : ReportHealthy(n) \/ ReportUnhealthy(n)

Spec == Init /\ [][Next]_vars

-----------------------------------------------------------------------------
(* clusterhealth Status: a list with one record per key under the prefix,    *)
(* in the order of the keys.  The nodes' names are not in the model, so any  *)
(* order may be the one.                                                     *)
Records == {[node |-> n, healthy |-> rec[n] = "healthy"] :
              n \in {m \in Node : rec[m] # "none"}}

Status == SetToSeqs(Records)

filterClusterRecords(records, exclude) ==
  {r \in Range(records) : r.node # exclude /\ ~r.healthy}

One(condition) == IF condition THEN 1 ELSE 0

(* The counters before the loop: the node counts itself, as healthy.         *)
CountSelf(self) ==
  [seen |-> {self}, total |-> 1, healthy |-> 1,
   nonFallback |-> One(self \notin policy.fallback)]

(* Slip: fallback nodes are left out of the healthy count.                   *)
CountMembersOnly(c, r) ==
  IF r.node \in c.seen THEN c
  ELSE LET member == r.healthy /\ r.node \notin policy.fallback
       IN  [seen |-> c.seen \cup {r.node}, total |-> c.total + 1,
            healthy |-> c.healthy + One(member),
            nonFallback |-> c.nonFallback + One(member)]

(* Slip: the node's own record counts a second time.                         *)
CountTwice(c, r) ==
  [seen |-> c.seen, total |-> c.total + 1,
   healthy |-> c.healthy + One(r.healthy),
   nonFallback |-> c.nonFallback + One(r.healthy /\ r.node \notin policy.fallback)]

(* The loop body.                                                            *)
CountRecord(c, r) ==
  IF r.node \in c.seen THEN c
  ELSE [seen |-> c.seen \cup {r.node}, total |-> c.total + 1,
        healthy |-> c.healthy + One(r.healthy),
        nonFallback |-> c.nonFallback + One(r.healthy /\ r.node \notin policy.fallback)]

evaluateClusterPolicies(records, self) ==
  LET c == FoldLeft(CountRecord, CountSelf(self), records)
  IN  \/ filterClusterRecords(records, self) # {}
      \/ policy.minAbsolute # 0 /\ c.healthy < policy.minAbsolute
      \/ policy.minPercent # 0 /\ c.healthy < CeilPercent(policy.minPercent, c.total)
      \/ /\ policy.forbidOnlyFallback /\ policy.fallback # {}
         /\ c.healthy > 0 /\ c.nonFallback = 0

-----------------------------------------------------------------------------
(* The counting loop decides as the definitions over sets do, for every node *)
(* and every policy, in whatever order etcd lists the records.               *)
CountsAgreeWithSets ==
  \A self \in Node, records \in Status :
    evaluateClusterPolicies(records, self) <=> Blocked(policy, rec, self)

(* A node that reports itself healthy never takes the permission from        *)
(* another: the fraction's threshold grows by at most the one it adds.       *)
Refused(self) == \E records \in Status : evaluateClusterPolicies(records, self)

HealthyReportsNeverBlock ==
  [][\A n, self \in Node : ReportHealthy(n) /\ ~Refused(self) => ~Refused(self)']_vars
=============================================================================
