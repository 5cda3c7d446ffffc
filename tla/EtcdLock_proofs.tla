-------------------------- MODULE EtcdLock_proofs --------------------------
(* Proofs about EtcdLock for any set of clients and sessions.                *)
(*                                                                           *)
(* A session is a winner if its key is there and its client has been told,   *)
(* or is about to be told, that it has the lock.  There is at most one       *)
(* winner, because a key is put by its winner only into an empty prefix.     *)
EXTENDS EtcdLock, TLAPS

Winner(s) == /\ s \in keys
             /\ \/ granted[s] # NoClient
                \/ \E c \in Client : sess[c] = s /\ pc[c] = "annotate"

OwnSessions == /\ \A c \in Client : sess[c] \in Session <=> pc[c] # "idle"
               /\ \A c, d \in Client : sess[c] = sess[d] /\ sess[c] \in Session => c = d

GrantedKeys == \A s \in Session : granted[s] # NoClient => s \in keys

NotYetGranted == \A c \in Client : pc[c] \in {"trylock", "delete", "annotate"}
                                     => granted[sess[c]] = NoClient

AnnotatedKeys == \A c \in Client : pc[c] = "annotate" /\ sess[c] \in leases
                                     => sess[c] \in keys

OneWinner == \A s, t \in Session : Winner(s) /\ Winner(t) => s = t

IInv == /\ TypeOK
        /\ OwnSessions
        /\ GrantedKeys
        /\ NotYetGranted
        /\ AnnotatedKeys
        /\ OneWinner

-----------------------------------------------------------------------------
(* Every variable keeps its type, and every key hangs on a live lease.       *)
LEMMA TypeStep == TypeOK /\ [Next]_vars => TypeOK'
<1> SUFFICES ASSUME TypeOK, [Next]_vars PROVE TypeOK'
  OBVIOUS
<1> USE EtcdLockAssumption DEF TypeOK, PcValues, Results, KeepKeys, PutKey, DeleteKey, DropLease
<1>1. ASSUME NEW c \in Client, NewSession(c) \/ NewSessionFails(c) PROVE TypeOK'
  BY <1>1 DEF NewSession, NewSessionFails
<1>2. ASSUME NEW c \in Client, TryLock(c) \/ TryLockFails(c) PROVE TypeOK'
  BY <1>2 DEF TryLock, TryLockFails
<1>3. ASSUME NEW c \in Client, DeleteOwnKey(c) \/ DeleteOwnKeyFails(c) PROVE TypeOK'
  BY <1>3 DEF DeleteOwnKey, DeleteOwnKeyFails
<1>4. ASSUME NEW c \in Client, Annotate(c) \/ AnnotateFails(c) PROVE TypeOK'
  BY <1>4 DEF Annotate, AnnotateFails
<1>5. ASSUME NEW c \in Client, StartRelease(c) \/ Unlock(c) \/ Close(c) PROVE TypeOK'
  BY <1>5 DEF StartRelease, Unlock, Close
<1>6. ASSUME NEW c \in Client, Crash(c) PROVE TypeOK'
  BY <1>6 DEF Crash
<1>7. ASSUME NEW s \in Session, LeaseExpires(s) PROVE TypeOK'
  BY <1>7 DEF LeaseExpires
<1>8. CASE UNCHANGED vars
  BY <1>8 DEF vars
<1>. QED BY <1>1, <1>2, <1>3, <1>4, <1>5, <1>6, <1>7, <1>8 DEF Next, ClientStep

THEOREM TypeCorrect == Spec => []TypeOK
<1>1. Init => TypeOK
  BY EtcdLockAssumption DEF Init, TypeOK, PcValues, Results
<1>. QED BY <1>1, TypeStep, PTL DEF Spec

-----------------------------------------------------------------------------
(* The strengthened invariant is kept by every step.                         *)
LEMMA InvInit == Init => IInv
  BY EtcdLockAssumption DEF Init, IInv, TypeOK, PcValues, Results, OwnSessions,
     GrantedKeys, NotYetGranted, AnnotatedKeys, OneWinner, Winner

LEMMA InvStep == IInv /\ [Next]_vars => IInv'
<1> SUFFICES ASSUME IInv, [Next]_vars PROVE IInv'
  OBVIOUS
<1>0. TypeOK'
  BY TypeStep DEF IInv
<1> DEFINE Rest == /\ OwnSessions /\ GrantedKeys /\ NotYetGranted
                   /\ AnnotatedKeys /\ OneWinner
<1> USE EtcdLockAssumption DEF IInv, TypeOK, PcValues, KeepKeys, PutKey, DeleteKey, DropLease,
        OwnSessions, GrantedKeys, NotYetGranted, AnnotatedKeys, OneWinner, Winner
<1>1. ASSUME NEW c \in Client, NewSession(c) PROVE Rest'
  BY <1>1 DEF NewSession, Fresh
<1>2. ASSUME NEW c \in Client, NewSessionFails(c) PROVE Rest'
  BY <1>2 DEF NewSessionFails, Fresh
<1>3. ASSUME NEW c \in Client, TryLock(c) PROVE Rest'
  BY <1>3 DEF TryLock, IsFirst
<1>4. ASSUME NEW c \in Client, TryLockFails(c) PROVE Rest'
  BY <1>4 DEF TryLockFails
<1>5. ASSUME NEW c \in Client, DeleteOwnKey(c) \/ DeleteOwnKeyFails(c) PROVE Rest'
  BY <1>5 DEF DeleteOwnKey, DeleteOwnKeyFails
<1>6. ASSUME NEW c \in Client, Annotate(c) PROVE Rest'
  BY <1>6 DEF Annotate
<1>7. ASSUME NEW c \in Client, AnnotateFails(c) PROVE Rest'
  BY <1>7 DEF AnnotateFails
<1>8. ASSUME NEW c \in Client, StartRelease(c) \/ Unlock(c) PROVE Rest'
  BY <1>8 DEF StartRelease, Unlock
<1>9. ASSUME NEW c \in Client, Close(c) PROVE Rest'
  BY <1>9 DEF Close
<1>10. ASSUME NEW c \in Client, Crash(c) PROVE Rest'
  BY <1>10 DEF Crash
<1>11. ASSUME NEW s \in Session, LeaseExpires(s) PROVE Rest'
  BY <1>11 DEF LeaseExpires
<1>12. CASE UNCHANGED vars
  BY <1>12 DEF vars
<1>. QED BY <1>0, <1>1, <1>2, <1>3, <1>4, <1>5, <1>6, <1>7, <1>8, <1>9, <1>10, <1>11, <1>12
        DEF Next, ClientStep

THEOREM Invariant == Spec => []IInv
  BY InvInit, InvStep, PTL DEF Spec

(* etcd never honours two leases Acquire handed out.                         *)
THEOREM MutualExclusion == Spec => []AtMostOneHonoured
<1>1. IInv => AtMostOneHonoured
  BY DEF IInv, TypeOK, OneWinner, Winner, AtMostOneHonoured, Honoured
<1>. QED BY <1>1, Invariant, PTL

-----------------------------------------------------------------------------
(* Refinement: each step is a step of LeaseLock or leaves it alone.          *)

(* The abstract holder is the client of any honoured session.                *)
LEMMA HolderOfHonoured ==
  ASSUME IInv, NEW s \in Honoured
  PROVE  AbsHolder = granted[s] /\ AbsHolder \in Client /\ AbsHolder # NoClient
<1>1. Honoured = {s}
  BY DEF IInv, TypeOK, OneWinner, Winner, Honoured
<1>. QED BY <1>1 DEF AbsHolder, Honoured, IInv, TypeOK

(* Deleting a key is an Expire of the abstract lock, or nothing.             *)
LEMMA DeleteRefines ==
  ASSUME IInv, NEW s \in Session, DeleteKey(s)
  PROVE  \/ AbsHolder' = AbsHolder
         \/ AbsHolder # NoClient /\ AbsHolder' = NoClient
<1>1. Honoured' = Honoured \ {s}
  BY DEF DeleteKey, Honoured, IInv, TypeOK
<1>2. CASE s \in Honoured
  <2>1. Honoured' = {}
    BY <1>1, <1>2 DEF IInv, TypeOK, OneWinner, Winner, Honoured
  <2>. QED BY <2>1, <1>2, HolderOfHonoured DEF AbsHolder
<1>3. CASE s \notin Honoured
  <2>1. Honoured' = Honoured /\ \A t \in Honoured : granted'[t] = granted[t]
    BY <1>1, <1>3 DEF DeleteKey, Honoured, IInv, TypeOK
  <2>. QED BY <2>1 DEF AbsHolder
<1>. QED BY <1>2, <1>3

LEMMA RefinementStep ==
  ASSUME IInv, IInv', [Next]_vars
  PROVE  [Abstract!LockNext]_(Abstract!lockVars)
<1> DEFINE Goal == [Abstract!LockNext]_(Abstract!lockVars)
<1> USE DEF IInv, TypeOK
<1>1. ASSUME UNCHANGED <<keys, granted, AbsHeld>> PROVE Goal
  BY <1>1 DEF AbsHolder, Honoured, Abstract!lockVars
<1>2. ASSUME NEW s \in Session, DeleteKey(s), UNCHANGED AbsHeld PROVE Goal
  BY <1>2, DeleteRefines DEF Abstract!LockNext, Abstract!Expire, Abstract!lockVars
<1>3. ASSUME NEW c \in Client, pc[c] = "held", UNCHANGED <<keys, granted>>,
             AbsHeld' = AbsHeld \ {c}
      PROVE  Goal
  <2>1. c \in AbsHeld /\ AbsHolder' = AbsHolder
    BY <1>3 DEF AbsHeld, AbsHolder, Honoured
  <2>. QED BY <1>3, <2>1 DEF Abstract!LockNext, Abstract!Abandon
<1>5. ASSUME NEW c \in Client, NewSession(c) \/ NewSessionFails(c) PROVE Goal
  <2>1. UNCHANGED AbsHeld
    BY <1>5 DEF NewSession, NewSessionFails, AbsHeld
  <2>. QED BY <1>1, <1>5, <2>1 DEF NewSession, NewSessionFails, KeepKeys
<1>6. ASSUME NEW c \in Client, TryLock(c) \/ TryLockFails(c) PROVE Goal
  <2>1. UNCHANGED AbsHeld
    BY <1>6 DEF TryLock, TryLockFails, AbsHeld
  <2>2. granted' = granted /\ (keys' = keys \/ keys' = keys \cup {sess[c]})
    BY <1>6 DEF TryLock, TryLockFails, KeepKeys, PutKey
  <2>3. granted[sess[c]] = NoClient
    BY <1>6 DEF TryLock, TryLockFails, NotYetGranted
  <2>4. UNCHANGED <<Honoured, granted>>
    BY <2>2, <2>3 DEF Honoured
  <2>. QED BY <2>1, <2>4 DEF AbsHolder, Abstract!lockVars
<1>7. ASSUME NEW c \in Client, DeleteOwnKey(c) \/ DeleteOwnKeyFails(c) PROVE Goal
  <2>1. UNCHANGED AbsHeld /\ sess[c] \in Session
    BY <1>7 DEF DeleteOwnKey, DeleteOwnKeyFails, AbsHeld, OwnSessions
  <2>. QED BY <1>1, <1>2, <1>7, <2>1 DEF DeleteOwnKey, DeleteOwnKeyFails, KeepKeys
<1>8. ASSUME NEW c \in Client, Annotate(c) PROVE Goal
  <2>1. /\ sess[c] \in Session /\ Winner(sess[c])
        /\ granted[sess[c]] = NoClient
    BY <1>8 DEF Annotate, OwnSessions, AnnotatedKeys, NotYetGranted, Winner
  <2>2. Honoured = {}
    BY <2>1 DEF Honoured, OneWinner, Winner
  <2>3. Honoured' = {sess[c]} /\ granted'[sess[c]] = c
    BY <1>8, <2>1, <2>2, EtcdLockAssumption DEF Annotate, Honoured, Winner
  <2>4. AbsHolder = NoClient /\ AbsHolder' = c
    BY <2>2, <2>3 DEF AbsHolder
  <2>5. c \notin AbsHeld /\ AbsHeld' = AbsHeld \cup {c}
    BY <1>8 DEF Annotate, AbsHeld
  <2>. QED BY <2>4, <2>5 DEF Abstract!LockNext, Abstract!Grant
<1>9. ASSUME NEW c \in Client, AnnotateFails(c) PROVE Goal
  <2>1. UNCHANGED AbsHeld
    BY <1>9 DEF AnnotateFails, AbsHeld
  <2>. QED BY <1>1, <1>9, <2>1 DEF AnnotateFails, KeepKeys
<1>10. ASSUME NEW c \in Client, StartRelease(c) PROVE Goal
  <2>1. AbsHeld' = AbsHeld \ {c}
    BY <1>10 DEF StartRelease, AbsHeld
  <2>. QED BY <1>3, <1>10, <2>1 DEF StartRelease, KeepKeys
<1>11. ASSUME NEW c \in Client, Unlock(c) \/ Close(c) PROVE Goal
  <2>1. UNCHANGED AbsHeld /\ sess[c] \in Session
    BY <1>11 DEF Unlock, Close, AbsHeld, OwnSessions
  <2>. QED BY <1>1, <1>2, <1>11, <2>1 DEF Unlock, Close, KeepKeys, DropLease
<1>12. ASSUME NEW c \in Client, Crash(c) PROVE Goal
  <2>1. CASE pc[c] = "held"
    <3>1. AbsHeld' = AbsHeld \ {c}
      BY <1>12 DEF Crash, AbsHeld
    <3>. QED BY <1>3, <1>12, <2>1, <3>1 DEF Crash, KeepKeys
  <2>2. CASE pc[c] # "held"
    <3>1. UNCHANGED AbsHeld
      BY <1>12, <2>2 DEF Crash, AbsHeld
    <3>. QED BY <1>1, <1>12, <3>1 DEF Crash, KeepKeys
  <2>. QED BY <2>1, <2>2
<1>13. ASSUME NEW s \in Session, LeaseExpires(s) PROVE Goal
  <2>1. UNCHANGED AbsHeld
    BY <1>13 DEF LeaseExpires, AbsHeld
  <2>. QED BY <1>2, <1>13, <2>1 DEF LeaseExpires, DropLease
<1>14. ASSUME UNCHANGED vars PROVE Goal
  BY <1>1, <1>14 DEF vars, AbsHeld
<1>. QED BY <1>5, <1>6, <1>7, <1>8, <1>9, <1>10, <1>11, <1>12, <1>13, <1>14
        DEF Next, ClientStep

(* Acquire and Release, whatever fails under way, behave as the atomic lock  *)
(* of LeaseLock.                                                             *)
THEOREM Refinement == Spec => ImplementsLeaseLock
<1>1. Init => Abstract!LockInit
  BY DEF Init, Abstract!LockInit, AbsHolder, AbsHeld, Honoured
<1>. QED BY <1>1, Invariant, RefinementStep, PTL DEF Spec, ImplementsLeaseLock, Abstract!LockSpec
-----------------------------------------------------------------------------
(* The losers of the lock: what Close finds in result is the answer of the   *)
(* attempt it ends, and "notAcquired" is answered without a key.             *)
LoserInv ==
  \A c \in Client :
    /\ pc[c] \in {"held", "unlock"} => result[c] # "notAcquired"
    /\ pc[c] = "close" /\ result[c] = "notAcquired" => sess[c] \notin keys

LEMMA LoserStep == IInv /\ LoserInv /\ [Next]_vars => LoserInv'
<1> SUFFICES ASSUME IInv, LoserInv, [Next]_vars PROVE LoserInv'
  OBVIOUS
<1> USE EtcdLockAssumption DEF IInv, TypeOK, OwnSessions, LoserInv, PcValues, Results,
        KeepKeys, PutKey, DeleteKey, DropLease
<1>1. ASSUME NEW c \in Client, NewSession(c) \/ NewSessionFails(c) PROVE LoserInv'
  BY <1>1 DEF NewSession, NewSessionFails
<1>2. ASSUME NEW c \in Client, TryLock(c) \/ TryLockFails(c) PROVE LoserInv'
  BY <1>2 DEF TryLock, TryLockFails
<1>3. ASSUME NEW c \in Client, DeleteOwnKey(c) \/ DeleteOwnKeyFails(c) PROVE LoserInv'
  BY <1>3 DEF DeleteOwnKey, DeleteOwnKeyFails
<1>4. ASSUME NEW c \in Client, Annotate(c) \/ AnnotateFails(c) PROVE LoserInv'
  BY <1>4 DEF Annotate, AnnotateFails
<1>5. ASSUME NEW c \in Client, StartRelease(c) \/ Unlock(c) PROVE LoserInv'
  BY <1>5 DEF StartRelease, Unlock
<1>6. ASSUME NEW c \in Client, Close(c) PROVE LoserInv'
  BY <1>6 DEF Close
<1>7. ASSUME NEW c \in Client, Crash(c) PROVE LoserInv'
  BY <1>7 DEF Crash
<1>8. ASSUME NEW s \in Session, LeaseExpires(s) PROVE LoserInv'
  BY <1>8 DEF LeaseExpires
<1>9. CASE UNCHANGED vars
  BY <1>9 DEF vars
<1>. QED BY <1>1, <1>2, <1>3, <1>4, <1>5, <1>6, <1>7, <1>8, <1>9 DEF Next, ClientStep

(* A key once taken back does not return while its session is being closed.  *)
LEMMA LoserKeyStaysGone ==
  ASSUME IInv, LoserInv, [Next]_vars,
         NEW c \in Client, pc[c] = "close", result[c] = "notAcquired"
  PROVE  sess[c] \notin keys'
<1> USE EtcdLockAssumption DEF IInv, TypeOK, OwnSessions, LoserInv,
        KeepKeys, PutKey, DeleteKey, DropLease
<1>1. ASSUME NEW d \in Client, ClientStep(d), ~(TryLock(d) \/ TryLockFails(d))
      PROVE  keys' \subseteq keys
  BY <1>1 DEF ClientStep, NewSession, NewSessionFails, DeleteOwnKey, DeleteOwnKeyFails,
     Annotate, AnnotateFails, StartRelease, Unlock, Close
<1>2. ASSUME NEW d \in Client, TryLock(d) \/ TryLockFails(d)
      PROVE  keys' \subseteq keys \cup {sess[d]} /\ sess[d] # sess[c]
  BY <1>2 DEF TryLock, TryLockFails
<1>3. ASSUME NEW d \in Client, Crash(d) PROVE keys' = keys
  BY <1>3 DEF Crash
<1>4. ASSUME NEW s \in Session, LeaseExpires(s) PROVE keys' \subseteq keys
  BY <1>4 DEF LeaseExpires
<1>5. UNCHANGED vars => keys' = keys
  BY DEF vars
<1>. QED BY <1>1, <1>2, <1>3, <1>4, <1>5 DEF Next

(* An attempt that was lost leaves no key in the way of the next one.        *)
THEOREM LosersLeaveNoKey == Spec => ContenderLeavesNoKey
<1>1. Init => LoserInv
  BY DEF Init, LoserInv
<1>2. IInv /\ LoserInv /\ [Next]_vars =>
        [\A c \in Client : pc[c] = "close" /\ result[c] = "notAcquired" => sess[c] \notin keys']_vars
  BY LoserKeyStaysGone
<1>. QED BY <1>1, <1>2, Invariant, LoserStep, PTL DEF Spec, ContenderLeavesNoKey
=============================================================================
