------------------------ MODULE EtcdCooldown_proofs ------------------------
(* EtcdCooldown behaves as CooldownMarker promises, and a confirmed marker   *)
(* is in force for its whole time, for every number of nodes and leases.     *)
EXTENDS EtcdCooldown, TLAPS

-----------------------------------------------------------------------------
(* The inductive invariant.                                                  *)

Live == leases \ ending

(* Every Start works under a lease of its own, not confirmed yet.            *)
OwnLease(n) ==
  /\ pc[n] \in {"put", "revoke"} => mine[n] \in Lease
  /\ mine[n] # NoLease => mine[n] \notin confirmed
  /\ \A m \in Node : m # n /\ mine[m] = mine[n] => mine[n] = NoLease

(* A Status under way may answer with the marker in force now; once it has   *)
(* read a key, with that one's node as long as its lease lives and with      *)
(* "none" afterwards, or when the key has been replaced meanwhile.           *)
Reading(n) ==
  /\ pc[n] \in {"get", "ttl"} => Marker \in pending[n]
  /\ pc[n] = "ttl" =>
       /\ saw[n] \in Lease
       /\ saw[n] \in Live => owner[saw[n]] \in pending[n]
       /\ ~(saw[n] \in Live /\ key = saw[n]) => NoNode \in pending[n]

(* Only a Status under way has answers to choose from.                       *)
Pending(n) == pending[n] # {} => pc[n] \in {"get", "ttl"}

IInv == TypeOK /\ \A n \in Node : OwnLease(n) /\ Reading(n) /\ Pending(n)

-----------------------------------------------------------------------------
LEMMA MarkerType == TypeOK => Marker \in Node \cup {NoNode}
BY DEF TypeOK, Marker

(* What a change of the key or of a lease does to the reads under way.       *)
LEMMA RememberType ==
  ASSUME TypeOK, Marker' \in Node \cup {NoNode}, Remember
  PROVE  /\ pending' \in [Node -> SUBSET (Node \cup {NoNode})]
         /\ \A n \in Node : pending[n] \subseteq pending'[n]
         /\ \A n \in Node : pending'[n] # {} => pending[n] # {}
<1>1. CASE InForce' = InForce
  BY <1>1 DEF Remember, TypeOK
<1>2. CASE InForce' # InForce
  BY <1>2 DEF Remember, TypeOK
<1>. QED BY <1>1, <1>2

(* The lease in force stays the same, or the answers grow.                   *)
LEMMA RememberCases ==
  ASSUME TypeOK, TypeOK', UNCHANGED owner, Remember
  PROVE  \/ Marker' = Marker /\ InForce' = InForce /\ pending' = pending
         \/ \A n \in Node : pending[n] # {} =>
              Marker' \in pending'[n] /\ NoNode \in pending'[n]
<1>1. CASE InForce' = InForce
  <2>1. Marker' = Marker
    BY <1>1, EtcdCooldownAssumption DEF InForce, Marker, TypeOK
  <2>. QED BY <1>1, <2>1 DEF Remember
<1>2. CASE InForce' # InForce
  BY <1>2 DEF Remember, TypeOK
<1>. QED BY <1>1, <1>2

(* A change that brings no lease to life keeps every read under way right.   *)
LEMMA RememberReads ==
  ASSUME IInv, TypeOK', UNCHANGED owner, Remember, Live' \subseteq Live,
         NEW n \in Node, pc'[n] \in {"get", "ttl"} => pc'[n] = pc[n] /\ saw'[n] = saw[n]
  PROVE  Reading(n)'
<1> USE DEF IInv
<1>0. CASE pc'[n] \notin {"get", "ttl"}
  BY <1>0 DEF Reading
<1>1. CASE pc'[n] \in {"get", "ttl"}
  <2>1. /\ Marker \in pending[n] /\ pending[n] # {} /\ pc'[n] = pc[n] /\ saw'[n] = saw[n]
        /\ pc[n] = "ttl" =>
             /\ saw[n] \in Lease
             /\ saw[n] \in Live => owner[saw[n]] \in pending[n]
             /\ ~(saw[n] \in Live /\ key = saw[n]) => NoNode \in pending[n]
    BY <1>1 DEF Reading
  <2>2. pending[n] \subseteq pending'[n]
    <3>1. Marker' \in Node \cup {NoNode}
      BY DEF TypeOK, Marker
    <3>. QED BY <3>1, RememberType
  <2>3. CASE Marker' = Marker /\ InForce' = InForce /\ pending' = pending
    <3>1. saw[n] \in Live /\ key = saw[n] /\ pc[n] = "ttl" =>
            saw'[n] \in Live' /\ key' = saw'[n]
      BY <2>1, <2>3, EtcdCooldownAssumption DEF InForce, Live, TypeOK
    <3>. QED BY <2>1, <2>3, <3>1 DEF Reading
  <2>4. CASE Marker' \in pending'[n] /\ NoNode \in pending'[n]
    BY <2>1, <2>2, <2>4 DEF Reading
  <2>. QED BY <2>1, <2>3, <2>4, RememberCases
<1>. QED BY <1>0, <1>1

-----------------------------------------------------------------------------
LEMMA TypeInit == Init => TypeOK
BY DEF Init, TypeOK

LEMMA TypeStep ==
  ASSUME TypeOK, [Next]_vars, \A n \in Node : pc[n] \in {"put", "revoke"} => mine[n] \in Lease
  PROVE  TypeOK'
<1> USE DEF TypeOK
<1>1. ASSUME NEW n \in Node, Grant(n) \/ GrantFails(n) PROVE TypeOK'
  BY <1>1 DEF Grant, GrantFails, Grants
<1>2. ASSUME NEW n \in Node, Put(n) \/ PutFails(n) \/ Revoke(n) PROVE TypeOK'
  <2>1. /\ leases' \subseteq Lease /\ ending' \subseteq leases' /\ owner' = owner
        /\ key' \in leases' \cup {NoLease}
    BY <1>2 DEF Put, PutFails, Revoke, Drop, etcdVars
  <2>2. Marker' \in Node \cup {NoNode}
    BY <2>1 DEF Marker
  <2>3. pending' \in [Node -> SUBSET (Node \cup {NoNode})]
    BY <1>2, <2>2, RememberType DEF Put, PutFails, Revoke
  <2>. QED BY <1>2, <2>1, <2>3 DEF Put, PutFails, Revoke, StartReturns
<1>3. ASSUME NEW n \in Node, Ask(n) PROVE TypeOK'
  BY <1>3, MarkerType DEF Ask, etcdVars
<1>4. ASSUME NEW n \in Node, Get(n) \/ TimeToLive(n) \/ StatusFails(n) PROVE TypeOK'
  BY <1>4 DEF Get, TimeToLive, StatusFails, Answers, etcdVars
<1>5. ASSUME NEW n \in Node, Crash(n) PROVE TypeOK'
  BY <1>5 DEF Crash, etcdVars
<1>6. ASSUME NEW l \in Lease, LatePut(l) \/ LeaseNearsEnd(l) \/ LeaseExpires(l) PROVE TypeOK'
  <2>1. /\ leases' \subseteq Lease /\ ending' \subseteq leases' /\ owner' = owner
        /\ key' \in leases' \cup {NoLease}
    BY <1>6 DEF LatePut, LeaseNearsEnd, LeaseExpires, Drop
  <2>2. Marker' \in Node \cup {NoNode}
    BY <2>1 DEF Marker
  <2>3. pending' \in [Node -> SUBSET (Node \cup {NoNode})]
    BY <1>6, <2>2, RememberType DEF LatePut, LeaseNearsEnd, LeaseExpires
  <2>. QED BY <1>6, <2>1, <2>3 DEF LatePut, LeaseNearsEnd, LeaseExpires
<1>7. CASE UNCHANGED vars
  BY <1>7 DEF vars
<1>. QED BY <1>1, <1>2, <1>3, <1>4, <1>5, <1>6, <1>7 DEF Next

LEMMA OwnLeaseStep ==
  ASSUME IInv, Next, NEW m \in Node
  PROVE  OwnLease(m)'
<1> USE EtcdCooldownAssumption DEF IInv, TypeOK, OwnLease
<1>1. ASSUME NEW n \in Node, Grant(n) PROVE OwnLease(m)'
  <2>1. PICK l \in Lease : Grants(n, l) /\ mine' = [mine EXCEPT ![n] = l]
    BY <1>1 DEF Grant
  <2>2. l \notin confirmed' /\ \A k \in Node : mine[k] # l
    BY <2>1 DEF Grants, Fresh
  <2>. QED BY <1>1, <2>1, <2>2 DEF Grant, Grants
<1>2. ASSUME NEW n \in Node, GrantFails(n) PROVE OwnLease(m)'
  BY <1>2 DEF GrantFails, Grants
<1>3. ASSUME NEW n \in Node, Put(n) PROVE OwnLease(m)'
  BY <1>3 DEF Put, StartReturns
<1>4. ASSUME NEW n \in Node, PutFails(n) PROVE OwnLease(m)'
  BY <1>4 DEF PutFails
<1>5. ASSUME NEW n \in Node, Revoke(n) PROVE OwnLease(m)'
  BY <1>5 DEF Revoke, StartReturns
<1>6. ASSUME NEW n \in Node, Ask(n) \/ Get(n) \/ TimeToLive(n) \/ StatusFails(n) PROVE OwnLease(m)'
  BY <1>6 DEF Ask, Get, TimeToLive, StatusFails, Answers
<1>7. ASSUME NEW n \in Node, Crash(n) PROVE OwnLease(m)'
  BY <1>7 DEF Crash
<1>8. ASSUME NEW l \in Lease, LatePut(l) \/ LeaseNearsEnd(l) \/ LeaseExpires(l) PROVE OwnLease(m)'
  BY <1>8 DEF LatePut, LeaseNearsEnd, LeaseExpires
<1>. QED BY <1>1, <1>2, <1>3, <1>4, <1>5, <1>6, <1>7, <1>8 DEF Next

LEMMA ReadingStep ==
  ASSUME IInv, TypeOK', Next, NEW m \in Node
  PROVE  Reading(m)' /\ Pending(m)'
<1> DEFINE Goal == Reading(m)' /\ Pending(m)'
<1> USE DEF IInv, TypeOK
<1>1. ASSUME Remember, Live' \subseteq Live, UNCHANGED <<owner, saw>>,
             \E n \in Node : \/ pc' = pc
                             \/ pc[n] \in {"put", "revoke"} /\ \E p \in {"revoke", "idle"} :
                                  pc' = [pc EXCEPT ![n] = p]
      PROVE  Goal
  <2>1. pc'[m] \in {"get", "ttl"} <=> pc[m] \in {"get", "ttl"}
    BY <1>1
  <2>2. pc'[m] \in {"get", "ttl"} => pc'[m] = pc[m] /\ saw'[m] = saw[m]
    BY <1>1
  <2>3. Reading(m)'
    BY <1>1, <2>2, RememberReads
  <2>4. pending'[m] # {} => pending[m] # {}
    <3>1. Marker' \in Node \cup {NoNode}
      BY DEF Marker
    <3>. QED BY <1>1, <3>1, RememberType
  <2>5. Pending(m)'
    BY <2>1, <2>4 DEF Pending
  <2>. QED BY <2>3, <2>5
<1>2. ASSUME NEW n \in Node, Grant(n) \/ GrantFails(n) PROVE Goal
  <2>1. PICK l \in Lease : Grants(n, l)
    BY <1>2 DEF Grant, GrantFails
  <2>2. /\ l \notin leases /\ saw[m] # l /\ key' = key /\ key # l
        /\ \A k \in Lease : k # l => owner'[k] = owner[k] /\ (k \in Live' <=> k \in Live)
    BY <2>1, EtcdCooldownAssumption DEF Grants, Fresh, Live
  <2>3. Marker' = Marker
    BY <2>1, <2>2, EtcdCooldownAssumption DEF Marker, Live, Grants
  <2>4. saw' = saw /\ pending' = pending /\ (pc'[m] \in {"get", "ttl"} => pc'[m] = pc[m])
        /\ (pc[m] \in {"get", "ttl"} => pc'[m] = pc[m])
    BY <1>2 DEF Grant, GrantFails
  <2>. QED BY <2>2, <2>3, <2>4 DEF Reading, Pending
<1>3. ASSUME NEW n \in Node, Put(n) \/ PutFails(n) \/ Revoke(n) PROVE Goal
  <2>1. Live' \subseteq Live
    BY <1>3 DEF Put, PutFails, Revoke, Drop, Live, etcdVars
  <2>2. /\ Remember /\ UNCHANGED <<owner, saw>>
        /\ pc[n] \in {"put", "revoke"}
        /\ pc' = [pc EXCEPT ![n] = "revoke"] \/ pc' = [pc EXCEPT ![n] = "idle"]
    BY <1>3 DEF Put, PutFails, Revoke, StartReturns, Drop, etcdVars
  <2>. QED BY <1>1, <2>1, <2>2
<1>4. ASSUME NEW n \in Node, Ask(n) PROVE Goal
  <2>1. Marker' = Marker
    BY <1>4 DEF Ask, etcdVars, Marker
  <2>. QED BY <1>4, <2>1 DEF Ask, etcdVars, Reading, Pending, Live
<1>5. ASSUME NEW n \in Node, NEW a, Answers(n, a) PROVE Goal
  <2>1. Marker' = Marker
    BY <1>5 DEF Answers, etcdVars, Marker
  <2>. QED BY <1>5, <2>1 DEF Answers, etcdVars, Reading, Pending, Live
<1>6. ASSUME NEW n \in Node, Get(n) PROVE Goal
  <2>1. CASE key = NoLease
    BY <1>5, <1>6, <2>1 DEF Get
  <2>2. CASE key # NoLease
    <3>1. Marker' = Marker
      BY <1>6, <2>2 DEF Get, etcdVars, Marker
    <3>2. key \in Live => Marker = owner[key]
      BY DEF Live, Marker
    <3>3. key \notin Live => Marker = NoNode
      BY DEF Live, Marker
    <3>. QED BY <1>6, <2>2, <3>1, <3>2, <3>3 DEF Get, etcdVars, Reading, Pending, Live
  <2>. QED BY <2>1, <2>2
<1>7. ASSUME NEW n \in Node, TimeToLive(n) \/ StatusFails(n) PROVE Goal
  BY <1>5, <1>7 DEF TimeToLive, StatusFails
<1>8. ASSUME NEW n \in Node, Crash(n) PROVE Goal
  <2>1. Marker' = Marker
    BY <1>8 DEF Crash, etcdVars, Marker
  <2>. QED BY <1>8, <2>1 DEF Crash, etcdVars, Reading, Pending, Live
<1>9. ASSUME NEW l \in Lease, LatePut(l) \/ LeaseNearsEnd(l) \/ LeaseExpires(l) PROVE Goal
  <2>1. Live' \subseteq Live
    BY <1>9 DEF LatePut, LeaseNearsEnd, LeaseExpires, Drop, Live
  <2>2. Remember /\ UNCHANGED <<owner, saw, pc>>
    BY <1>9 DEF LatePut, LeaseNearsEnd, LeaseExpires, Drop
  <2>. QED BY <1>1, <2>1, <2>2
<1>. QED BY <1>2, <1>3, <1>4, <1>6, <1>7, <1>8, <1>9 DEF Next

LEMMA Stuttering == IInv /\ UNCHANGED vars => IInv'
BY DEF IInv, TypeOK, OwnLease, Reading, Pending, Live, Marker, vars

THEOREM Invariant == Spec => []IInv
<1>1. Init => IInv
  BY TypeInit, EtcdCooldownAssumption DEF IInv, Init, OwnLease, Reading, Pending
<1>2. IInv /\ [Next]_vars => IInv'
  <2>1. ASSUME IInv, Next PROVE IInv'
    <3>1. TypeOK'
      BY <2>1, TypeStep DEF IInv, OwnLease
    <3>. QED BY <2>1, <3>1, OwnLeaseStep, ReadingStep DEF IInv
  <2>. QED BY <2>1, Stuttering
<1>. QED BY <1>1, <1>2, PTL DEF Spec

(* The variables keep their types.                                           *)
THEOREM TypeCorrect == Spec => []TypeOK
BY Invariant, PTL DEF IInv

-----------------------------------------------------------------------------
LEMMA ConfirmedStep ==
  ASSUME IInv, [Next]_vars, key' = NoLease, key \in confirmed
  PROVE  key \in ending \/ UNCHANGED key
<1> USE EtcdCooldownAssumption DEF IInv, TypeOK
<1>1. ASSUME NEW n \in Node, Grant(n) \/ GrantFails(n) PROVE UNCHANGED key
  BY <1>1 DEF Grant, GrantFails, Grants
<1>2. ASSUME NEW n \in Node, Put(n) \/ PutFails(n) PROVE UNCHANGED key
  BY <1>2 DEF Put, PutFails, OwnLease
<1>3. ASSUME NEW n \in Node, Revoke(n) PROVE UNCHANGED key
  BY <1>3 DEF Revoke, Drop, etcdVars, OwnLease
<1>4. ASSUME NEW n \in Node, Ask(n) \/ Get(n) \/ TimeToLive(n) \/ StatusFails(n) \/ Crash(n)
      PROVE  UNCHANGED key
  BY <1>4 DEF Ask, Get, TimeToLive, StatusFails, Crash, Answers, etcdVars
<1>5. ASSUME NEW l \in Lease, LatePut(l) \/ LeaseNearsEnd(l) PROVE UNCHANGED key
  BY <1>5 DEF LatePut, LeaseNearsEnd
<1>6. ASSUME NEW l \in Lease, LeaseExpires(l) PROVE key \in ending \/ UNCHANGED key
  BY <1>6 DEF LeaseExpires, Drop
<1>. QED BY <1>1, <1>2, <1>3, <1>4, <1>5, <1>6 DEF Next, vars

(* No clean-up of another node, however late, removes a confirmed marker.    *)
THEOREM ConfirmedLast == Spec => ConfirmedMarkersLast
<1>1. IInv /\ [Next]_vars => [key' = NoLease /\ key \in confirmed => key \in ending]_vars
  <2>1. IInv => NoLease \notin confirmed
    BY EtcdCooldownAssumption DEF IInv, TypeOK
  <2>. QED BY <2>1, ConfirmedStep
<1>. QED BY <1>1, Invariant, PTL DEF Spec, ConfirmedMarkersLast

-----------------------------------------------------------------------------
LEMMA RefinementStep ==
  ASSUME IInv, IInv', [Next]_vars
  PROVE  [Abstract!Next]_(Abstract!vars)
<1> DEFINE Goal == [Abstract!Next]_(Abstract!vars)
<1> USE DEF IInv, TypeOK
<1>1. ASSUME UNCHANGED <<Marker, pending, answer>> PROVE Goal
  BY <1>1 DEF Abstract!vars
<1>2. ASSUME Remember, UNCHANGED <<owner, answer>> PROVE Goal
  <2>1. CASE InForce' = InForce
    <3>1. Marker' = Marker
      BY <1>2, <2>1, EtcdCooldownAssumption DEF InForce, Marker
    <3>. QED BY <1>1, <1>2, <2>1, <3>1 DEF Remember
  <2>2. CASE InForce' # InForce
    <3>1. Abstract!Becomes(Marker')
      BY <1>2, <2>2 DEF Remember, Abstract!Becomes
    <3>2. CASE Marker' \in Node
      BY <3>1, <3>2 DEF Abstract!Next, Abstract!Start
    <3>3. CASE Marker' = NoNode
      <4>1. Marker # NoNode
        BY <1>2, <2>2, <3>3, EtcdCooldownAssumption DEF InForce, Marker
      <4>. QED BY <3>1, <3>3, <4>1 DEF Abstract!Next, Abstract!End
    <3>4. Marker' \in Node \cup {NoNode}
      BY DEF Marker
    <3>. QED BY <3>2, <3>3, <3>4
  <2>. QED BY <2>1, <2>2
<1>3. ASSUME NEW n \in Node, Grant(n) \/ GrantFails(n) PROVE Goal
  <2>1. PICK l \in Lease : Grants(n, l)
    BY <1>3 DEF Grant, GrantFails
  <2>2. Marker' = Marker
    BY <2>1, EtcdCooldownAssumption DEF Grants, Fresh, Marker
  <2>. QED BY <1>1, <1>3, <2>2 DEF Grant, GrantFails
<1>4. ASSUME NEW n \in Node, Put(n) \/ PutFails(n) \/ Revoke(n) PROVE Goal
  BY <1>2, <1>4 DEF Put, PutFails, Revoke, StartReturns, Drop, etcdVars
<1>5. ASSUME NEW n \in Node, Ask(n) PROVE Goal
  <2>1. Marker' = Marker /\ pending[n] = {}
    BY <1>5 DEF Ask, etcdVars, Marker, Pending
  <2>. QED BY <1>5, <2>1 DEF Ask, Abstract!Next, Abstract!Ask
<1>6. ASSUME NEW n \in Node, NEW a \in pending[n], Answers(n, a) PROVE Goal
  <2>1. Marker' = Marker
    BY <1>6 DEF Answers, etcdVars, Marker
  <2>. QED BY <1>6, <2>1 DEF Answers, Abstract!Next, Abstract!Answer
<1>7. ASSUME NEW n \in Node, Get(n) PROVE Goal
  <2>1. CASE key = NoLease
    BY <1>6, <1>7, <2>1, EtcdCooldownAssumption DEF Get, Reading, Marker
  <2>2. CASE key # NoLease
    BY <1>1, <1>7, <2>2 DEF Get, etcdVars, Marker
  <2>. QED BY <2>1, <2>2
<1>8. ASSUME NEW n \in Node, TimeToLive(n) PROVE Goal
  BY <1>6, <1>8 DEF TimeToLive, Reading, Live
<1>9. ASSUME NEW n \in Node, StatusFails(n) \/ Crash(n) PROVE Goal
  <2>1. Marker' = Marker /\ answer' = answer /\ pending' = [pending EXCEPT ![n] = {}]
    BY <1>9 DEF StatusFails, Answers, Crash, etcdVars, Marker
  <2>. QED BY <2>1 DEF Abstract!Next, Abstract!GiveUp
<1>10. ASSUME NEW l \in Lease, LatePut(l) \/ LeaseNearsEnd(l) \/ LeaseExpires(l) PROVE Goal
  BY <1>2, <1>10 DEF LatePut, LeaseNearsEnd, LeaseExpires, Drop
<1>11. CASE UNCHANGED vars
  BY <1>1, <1>11 DEF vars, Marker
<1>. QED BY <1>3, <1>4, <1>5, <1>7, <1>8, <1>9, <1>10, <1>11 DEF Next

(* Start and Status, whatever fails, is late or dies under way, behave as    *)
(* CooldownMarker promises.                                                  *)
THEOREM Refinement == Spec => ImplementsCooldownMarker
<1>1. Init => Abstract!Init
  BY EtcdCooldownAssumption DEF Init, Abstract!Init, Marker
<1>. QED BY <1>1, Invariant, RefinementStep, PTL DEF Spec, ImplementsCooldownMarker, Abstract!Spec
=============================================================================
