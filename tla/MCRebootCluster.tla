-------------------------- MODULE MCRebootCluster --------------------------
(* Instances of RebootCluster for TLC: policies as constants, and initial    *)
(* states in which both nodes ask for a reboot nothing stands against yet.   *)
EXTENDS RebootCluster, TLC

NoPolicy == [minAbsolute |-> 0, minPercent |-> 0,
             forbidOnlyFallback |-> FALSE, fallback |-> {}]

(* One of the two nodes is the cluster's only fallback.                      *)
OneFallback ==
  [NoPolicy EXCEPT !.forbidOnlyFallback = TRUE,
                   !.fallback = {CHOOSE n \in Node : TRUE}]

MCInit ==
  /\ Init
  /\ rec = [n \in Node |-> "none"]
  /\ kill = {} /\ due = Node /\ fit = Node /\ open = TRUE

(* Some nodes are unhealthy and say so, and may recover, the nodes that      *)
(* reboot also with a kill switch that stops their passes.                   *)
MCFairInit ==
  /\ Init
  /\ rec = [n \in Node |-> IF n \in fit THEN "none" ELSE "unhealthy"]
  /\ kill \in {{}, Node \ DryRun} /\ due = Node /\ open = TRUE

Symmetry == Permutations(Node)

MCSpec == MCInit /\ [][Next]_vars
MCFairSpec == MCFairInit /\ [][Next]_vars /\ Fairness
=============================================================================
