-------------------------- MODULE ClusterPolicies --------------------------
(* Runner.evaluateClusterPolicies: does the shared health record, as one     *)
(* node reads it, allow that node to reboot?  The record holds one entry per *)
(* node that has ever published; the node itself always counts as known and  *)
(* healthy, whatever its own entry says.                                     *)
EXTENDS Integers, FiniteSets

(* config.ClusterPolicies; 0 stands for a threshold that is not set, and     *)
(* minPercent for min_healthy_fraction in hundredths.                        *)
Policies(Nodes, MaxAbs) ==
  [minAbsolute : 0 .. MaxAbs, minPercent : 0 .. 100,
   forbidOnlyFallback : BOOLEAN, fallback : SUBSET Nodes]

(* What a node may have published; "none" is a node without an entry.        *)
Reports == {"none", "healthy", "unhealthy"}

Known(rec, self) == {n \in DOMAIN rec : rec[n] # "none"} \cup {self}

Healthy(rec, self) == {n \in DOMAIN rec : rec[n] = "healthy"} \cup {self}

UnhealthyPeers(rec, self) == {n \in DOMAIN rec \ {self} : rec[n] = "unhealthy"}

CeilPercent(percent, n) == (percent * n + 99) \div 100

BelowAbsolute(policy, rec, self) ==
  Cardinality(Healthy(rec, self)) < policy.minAbsolute

BelowFraction(policy, rec, self) ==
  Cardinality(Healthy(rec, self))
    < CeilPercent(policy.minPercent, Cardinality(Known(rec, self)))

OnlyFallbackLeft(policy, rec, self) ==
  /\ policy.forbidOnlyFallback
  /\ policy.fallback # {}
  /\ Healthy(rec, self) \subseteq policy.fallback

Blocked(policy, rec, self) ==
  \/ UnhealthyPeers(rec, self) # {}
  \/ BelowAbsolute(policy, rec, self)
  \/ BelowFraction(policy, rec, self)
  \/ OnlyFallbackLeft(policy, rec, self)
=============================================================================
