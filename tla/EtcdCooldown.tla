---------------------------- MODULE EtcdCooldown ----------------------------
(* pkg/cooldown/etcd.go over the etcd v3 client: Start grants a lease and    *)
(* puts the key under it, Status reads the key and then asks how long its    *)
(* lease has to live.  Any RPC may fail before or after etcd applied it, a   *)
(* put that failed may even be applied later, and a process may die at any   *)
(* step.  Nobody keeps these leases alive.                                   *)

CONSTANTS Node, Lease, NoNode, NoLease

ASSUME EtcdCooldownAssumption == NoNode \notin Node /\ NoLease \notin Lease

VARIABLES
  leases,     \* etcd: the live leases
  ending,     \* those whose time to live is down to zero whole seconds
  key,        \* etcd: the lease the cooldown key hangs on, NoLease without a key
  owner,      \* the node each lease's payload names
  late,       \* leases with a put that failed and may still be applied
  pc,         \* where each node is in Start or Status
  mine,       \* the lease each Start works with
  saw,        \* the lease of the key each Status has read
  answer,     \* what each Status returned last
  pending,    \* history: what a Status under way may answer
  confirmed   \* history: the leases whose Start returned without an error

vars == <<leases, ending, key, owner, late, pc, mine, saw, answer, pending, confirmed>>

etcdVars == <<leases, ending, key, owner>>

TypeOK ==
  /\ leases \subseteq Lease
  /\ ending \subseteq leases
  /\ key \in leases \cup {NoLease}
  /\ owner \in [Lease -> Node]
  /\ late \subseteq Lease
  /\ pc \in [Node -> {"idle", "put", "revoke", "get", "ttl"}]
  /\ mine \in [Node -> Lease \cup {NoLease}]
  /\ saw \in [Node -> Lease \cup {NoLease}]
  /\ answer \in [Node -> Node \cup {NoNode}]
  /\ pending \in [Node -> SUBSET (Node \cup {NoNode})]
  /\ confirmed \subseteq Lease

Init ==
  /\ leases = {} /\ ending = {} /\ key = NoLease /\ late = {} /\ confirmed = {}
  /\ owner \in [Lease -> Node]
  /\ pc = [n \in Node |-> "idle"]
  /\ mine = [n \in Node |-> NoLease] /\ saw = [n \in Node |-> NoLease]
  /\ answer = [n \in Node |-> NoNode]
  /\ pending = [n \in Node |-> {}]

-----------------------------------------------------------------------------
(* The marker, as a reader that asks now is told it.                         *)
InForce == IF key \in leases \ ending THEN key ELSE NoLease
Marker == IF key \in leases \ ending THEN owner[key] ELSE NoNode

(* A change of the marker goes into what the reads under way may answer.     *)
Remember ==
  pending' = IF InForce' = InForce THEN pending
             ELSE [n \in Node |-> IF pending[n] = {} THEN {}
                                  ELSE pending[n] \cup {Marker', NoNode}]

(* etcd, external: a lease that goes takes its key along.                    *)
Drop(l) ==
  /\ leases' = leases \ {l} /\ ending' = ending \ {l}
  /\ key' = IF key = l THEN NoLease ELSE key
  /\ UNCHANGED owner

Fresh(l) ==
  /\ l \notin leases \cup late
  /\ \A n \in Node : mine[n] # l /\ saw[n] # l

Grants(n, l) ==
  /\ Fresh(l)
  /\ leases' = leases \cup {l} /\ owner' = [owner EXCEPT ![l] = n]
  /\ confirmed' = confirmed \ {l}
  /\ UNCHANGED <<ending, key>>

-----------------------------------------------------------------------------
(* Start.                                                                    *)

Grant(n) ==
  /\ pc[n] = "idle"
  /\ \E l \in Lease : Grants(n, l) /\ mine' = [mine EXCEPT ![n] = l]
  /\ pc' = [pc EXCEPT ![n] = "put"]
  /\ UNCHANGED <<late, saw, answer, pending>>

(* Only the lost reply shows: a lease nobody knows, which runs out.          *)
GrantFails(n) ==
  /\ pc[n] = "idle"
  /\ \E l \in Lease : Grants(n, l)
  /\ UNCHANGED <<late, pc, mine, saw, answer, pending>>

StartReturns(n) ==
  /\ pc' = [pc EXCEPT ![n] = "idle"]
  /\ mine' = [mine EXCEPT ![n] = NoLease]
  /\ UNCHANGED <<saw, answer>>

(* Slip: the put is not made under the lease.                                *)
PutUnleased(n) ==
  /\ pc[n] = "put"
  /\ key' = mine[n] /\ UNCHANGED <<leases, ending, owner, late>>
  /\ confirmed' = confirmed \cup {mine[n]}
  /\ Remember /\ StartReturns(n)

(* The put is refused when the lease has run out.                            *)
Put(n) ==
  /\ pc[n] = "put" /\ mine[n] \in leases
  /\ key' = mine[n] /\ UNCHANGED <<leases, ending, owner, late>>
  /\ confirmed' = confirmed \cup {mine[n]}
  /\ Remember /\ StartReturns(n)

PutFails(n) ==
  /\ pc[n] = "put"
  /\ \/ late' \in {late, late \cup {mine[n]}} /\ UNCHANGED key
     \/ mine[n] \in leases /\ key' = mine[n] /\ UNCHANGED late
  /\ pc' = [pc EXCEPT ![n] = "revoke"]
  /\ UNCHANGED <<leases, ending, owner, mine, saw, answer, confirmed>>
  /\ Remember

(* Slip: the clean-up deletes the key instead of the lease.                  *)
DeleteKey(n) ==
  /\ pc[n] = "revoke"
  /\ key' \in {key, NoLease} /\ UNCHANGED <<leases, ending, owner, late, confirmed>>
  /\ Remember /\ StartReturns(n)

(* The clean-up after a failed put, with its own time limit; whether it      *)
(* worked is not looked at.                                                  *)
Revoke(n) ==
  /\ pc[n] = "revoke"
  /\ Drop(mine[n]) \/ UNCHANGED etcdVars
  /\ UNCHANGED <<late, confirmed>>
  /\ Remember /\ StartReturns(n)

-----------------------------------------------------------------------------
(* Status.                                                                   *)

Ask(n) ==
  /\ pc[n] = "idle"
  /\ pc' = [pc EXCEPT ![n] = "get"]
  /\ pending' = [pending EXCEPT ![n] = {Marker}]
  /\ UNCHANGED <<etcdVars, late, mine, saw, answer, confirmed>>

Answers(n, m) ==
  /\ pc' = [pc EXCEPT ![n] = "idle"] /\ saw' = [saw EXCEPT ![n] = NoLease]
  /\ answer' = [answer EXCEPT ![n] = m]
  /\ pending' = [pending EXCEPT ![n] = {}]
  /\ UNCHANGED <<etcdVars, late, mine, confirmed>>

Get(n) ==
  /\ pc[n] = "get"
  /\ \/ key = NoLease /\ Answers(n, NoNode)
     \/ /\ key # NoLease
        /\ pc' = [pc EXCEPT ![n] = "ttl"] /\ saw' = [saw EXCEPT ![n] = key]
        /\ UNCHANGED <<etcdVars, late, mine, answer, pending, confirmed>>

(* Slip: only a time to live below zero counts as none.                      *)
TimeToLiveBelowZero(n) ==
  /\ pc[n] = "ttl"
  /\ Answers(n, IF saw[n] \in leases THEN owner[saw[n]] ELSE NoNode)

(* No lease answers -1, one in its last second 0.                            *)
TimeToLive(n) ==
  /\ pc[n] = "ttl"
  /\ Answers(n, IF saw[n] \in leases \ ending THEN owner[saw[n]] ELSE NoNode)

StatusFails(n) == pc[n] \in {"get", "ttl"} /\ Answers(n, answer[n])

-----------------------------------------------------------------------------
(* The outside world.                                                        *)

LatePut(l) ==
  /\ l \in late /\ late' = late \ {l}
  /\ key' = IF l \in leases THEN l ELSE key
  /\ UNCHANGED <<leases, ending, owner, pc, mine, saw, answer, confirmed>>
  /\ Remember

LeaseNearsEnd(l) ==
  /\ l \in leases \ ending /\ ending' = ending \cup {l}
  /\ UNCHANGED <<leases, key, owner, late, pc, mine, saw, answer, confirmed>>
  /\ Remember

LeaseExpires(l) ==
  /\ l \in ending /\ Drop(l)
  /\ UNCHANGED <<late, pc, mine, saw, answer, confirmed>>
  /\ Remember

Crash(n) ==
  /\ pc[n] # "idle" /\ pc' = [pc EXCEPT ![n] = "idle"]
  /\ late' = late \/ (pc[n] = "put" /\ late' = late \cup {mine[n]})
  /\ mine' = [mine EXCEPT ![n] = NoLease] /\ saw' = [saw EXCEPT ![n] = NoLease]
  /\ pending' = [pending EXCEPT ![n] = {}]
  /\ UNCHANGED <<etcdVars, answer, confirmed>>

Next ==
  \/ \E n \in Node :
       \/ Grant(n) \/ GrantFails(n) \/ Put(n) \/ PutFails(n) \/ Revoke(n)
       \/ Ask(n) \/ Get(n) \/ TimeToLive(n) \/ StatusFails(n) \/ Crash(n)
  \/ \E l \in Lease : LatePut(l) \/ LeaseNearsEnd(l) \/ LeaseExpires(l)

(* Time passes.                                                              *)
Fairness == \A l \in Lease : WF_vars(LeaseNearsEnd(l)) /\ WF_vars(LeaseExpires(l))

Spec == Init /\ [][Next]_vars /\ Fairness

-----------------------------------------------------------------------------
(* Status asks etcd twice, and the marker may go or be replaced in between:  *)
(* its answers are still those of CooldownMarker.                            *)
Abstract == INSTANCE CooldownMarker WITH marker <- Marker

ImplementsCooldownMarker == Abstract!Spec

(* The marker a node has rebooted under is in force for its whole time,      *)
(* unless another takes its place: no other node's clean-up removes it.      *)
ConfirmedMarkersLast ==
  [][key' = NoLease /\ key \in confirmed => key \in ending]_vars

(* Whatever failed or died, no marker blocks the cluster for ever.           *)
MarkersEnd == \A l \in Lease : key = l ~> key # l
=============================================================================
