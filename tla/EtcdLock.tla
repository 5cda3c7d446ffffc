------------------------------ MODULE EtcdLock ------------------------------
(* pkg/lock/etcd_manager.go over the etcd v3 client: each Acquire opens a    *)
(* session (a lease with a keepalive), tries the mutex once, annotates the   *)
(* key, and otherwise takes its own traces back.  Any RPC may fail before or *)
(* after etcd applied it, a process may die at any step, and a lease may run *)
(* out under a client that has lost etcd.                                    *)
(*                                                                           *)
(* etcd itself is external: the set of live leases and the keys under the    *)
(* lock prefix, one per session and named after its lease.  The mutex belongs *)
(* to the key created first.  TryLock looks once, in the transaction that     *)
(* creates its own, youngest key: it is the first one if it is the only one.  *)

CONSTANTS Client, Session, NoClient, NoSession

ASSUME EtcdLockAssumption == /\ NoClient \notin Client
                             /\ NoSession \notin Session

VARIABLES
  leases,    \* etcd: the sessions whose lease is live
  keys,      \* etcd: the sessions that have a key under the lock prefix
  alive,     \* the sessions some process still sends keepalives for
  granted,   \* for each key, the client Acquire handed its lease to
  pc,        \* where each client is in Acquire or Release
  sess,      \* the session each client works with
  result     \* what each client's last finished Acquire returned

vars == <<leases, keys, alive, granted, pc, sess, result>>

PcValues == {"idle", "trylock", "delete", "annotate", "unlock", "close", "held"}
Results == {"none", "lease", "notAcquired", "error"}

TypeOK ==
  /\ leases \subseteq Session
  /\ keys \subseteq leases          \* a key goes when its lease goes
  /\ alive \subseteq Session
  /\ granted \in [Session -> Client \cup {NoClient}]
  /\ pc \in [Client -> PcValues]
  /\ sess \in [Client -> Session \cup {NoSession}]
  /\ result \in [Client -> Results]

Init ==
  /\ leases = {} /\ keys = {} /\ alive = {}
  /\ granted = [s \in Session |-> NoClient]
  /\ pc = [c \in Client |-> "idle"]
  /\ sess = [c \in Client |-> NoSession]
  /\ result = [c \in Client |-> "none"]

-----------------------------------------------------------------------------
(* etcd, external: what a transaction, a delete and the end of a lease do.   *)

PutKey(s) == keys' = keys \cup {s}

DeleteKey(s) == /\ keys' = keys \ {s}
                /\ granted' = [granted EXCEPT ![s] = NoClient]

KeepKeys == UNCHANGED <<keys, granted>>

DropLease(s) == leases' = leases \ {s} /\ DeleteKey(s)

IsFirst(s) == keys \subseteq {s}

(* A session id is fresh when etcd has no lease of that name and no process  *)
(* remembers it (Session is the bound on outstanding leases).                *)
Fresh(s) == s \notin leases \cup alive /\ \A c \in Client : sess[c] # s

-----------------------------------------------------------------------------
(* Acquire.                                                                  *)

(* concurrency.NewSession: grant a lease and start its keepalive.            *)
NewSession(c) ==
  /\ pc[c] = "idle"
  /\ \E s \in Session :
       /\ Fresh(s)
       /\ leases' = leases \cup {s}
       /\ alive' = alive \cup {s}
       /\ sess' = [sess EXCEPT ![c] = s]
  /\ pc' = [pc EXCEPT ![c] = "trylock"]
  /\ KeepKeys /\ UNCHANGED result

(* The grant failed, or its reply was lost: then the lease exists and nobody *)
(* keeps it alive.                                                           *)
NewSessionFails(c) ==
  /\ pc[c] = "idle"
  /\ leases' = leases \/ \E s \in Session : Fresh(s) /\ leases' = leases \cup {s}
  /\ result' = [result EXCEPT ![c] = "error"]
  /\ KeepKeys /\ UNCHANGED <<alive, pc, sess>>

(* Slip: take the lock without comparing with the first key.                 *)
TryLockUncompared(c) ==
  /\ pc[c] = "trylock"
  /\ sess[c] \in leases
  /\ PutKey(sess[c])
  /\ pc' = [pc EXCEPT ![c] = "annotate"]
  /\ UNCHANGED <<leases, alive, granted, sess, result>>

(* Mutex.TryLock, first RPC: put the key and read the first one.             *)
TryLock(c) ==
  /\ pc[c] = "trylock"
  /\ sess[c] \in leases
  /\ PutKey(sess[c])
  /\ pc' = [pc EXCEPT ![c] = IF IsFirst(sess[c]) THEN "annotate" ELSE "delete"]
  /\ UNCHANGED <<leases, alive, granted, sess, result>>

(* Slip: return on the error without closing the session.                    *)
TryLockFailsUnclosed(c) ==
  /\ pc[c] = "trylock"
  /\ sess[c] \in leases /\ PutKey(sess[c])
  /\ pc' = [pc EXCEPT ![c] = "idle"]
  /\ sess' = [sess EXCEPT ![c] = NoSession]
  /\ result' = [result EXCEPT ![c] = "error"]
  /\ UNCHANGED <<leases, alive, granted>>

TryLockFails(c) ==
  /\ pc[c] = "trylock"
  /\ \/ KeepKeys
     \/ sess[c] \in leases /\ PutKey(sess[c]) /\ UNCHANGED granted
  /\ pc' = [pc EXCEPT ![c] = "close"]
  /\ result' = [result EXCEPT ![c] = "error"]
  /\ UNCHANGED <<leases, alive, sess>>

(* Slip: report contention and leave the key in the queue.                   *)
LeaveOwnKey(c) ==
  /\ pc[c] = "delete"
  /\ pc' = [pc EXCEPT ![c] = "close"]
  /\ result' = [result EXCEPT ![c] = "notAcquired"]
  /\ KeepKeys /\ UNCHANGED <<leases, alive, sess>>

(* Mutex.TryLock, second RPC: someone else's key came first, take ours back. *)
DeleteOwnKey(c) ==
  /\ pc[c] = "delete"
  /\ DeleteKey(sess[c])
  /\ pc' = [pc EXCEPT ![c] = "close"]
  /\ result' = [result EXCEPT ![c] = "notAcquired"]
  /\ UNCHANGED <<leases, alive, sess>>

DeleteOwnKeyFails(c) ==
  /\ pc[c] = "delete"
  /\ KeepKeys \/ DeleteKey(sess[c])
  /\ pc' = [pc EXCEPT ![c] = "close"]
  /\ result' = [result EXCEPT ![c] = "error"]
  /\ UNCHANGED <<leases, alive, sess>>

(* Slip: annotate without the lease option, so the put also succeeds after   *)
(* the lease is gone and the key it recreates has no lease.                  *)
AnnotateWithoutLease(c) ==
  /\ pc[c] = "annotate"
  /\ PutKey(sess[c])
  /\ granted' = [granted EXCEPT ![sess[c]] = c]
  /\ pc' = [pc EXCEPT ![c] = "held"]
  /\ result' = [result EXCEPT ![c] = "lease"]
  /\ UNCHANGED <<leases, alive, sess>>

(* annotateLease: a put under the session's lease, refused once the lease is *)
(* gone.  Then Acquire returns the lease.                                    *)
Annotate(c) ==
  /\ pc[c] = "annotate"
  /\ sess[c] \in leases
  /\ granted' = [granted EXCEPT ![sess[c]] = c]
  /\ pc' = [pc EXCEPT ![c] = "held"]
  /\ result' = [result EXCEPT ![c] = "lease"]
  /\ UNCHANGED <<leases, keys, alive, sess>>

AnnotateFails(c) ==
  /\ pc[c] = "annotate"
  /\ pc' = [pc EXCEPT ![c] = "unlock"]
  /\ result' = [result EXCEPT ![c] = "error"]
  /\ KeepKeys /\ UNCHANGED <<leases, alive, sess>>

-----------------------------------------------------------------------------
(* Release, and the clean-up of a failed Acquire, which shares its RPCs.     *)

StartRelease(c) ==
  /\ pc[c] = "held"
  /\ pc' = [pc EXCEPT ![c] = "unlock"]
  /\ KeepKeys /\ UNCHANGED <<leases, alive, sess, result>>

(* Mutex.Unlock: delete the key; whatever came of it, go on to Close.        *)
Unlock(c) ==
  /\ pc[c] = "unlock"
  /\ DeleteKey(sess[c]) \/ KeepKeys
  /\ pc' = [pc EXCEPT ![c] = "close"]
  /\ UNCHANGED <<leases, alive, sess, result>>

(* Session.Close: stop the keepalive and revoke the lease, which deletes its *)
(* key.  If the revocation fails the lease is left to its TTL.               *)
Close(c) ==
  /\ pc[c] = "close"
  /\ alive' = alive \ {sess[c]}
  /\ \/ DropLease(sess[c])
     \/ KeepKeys /\ UNCHANGED leases
  /\ pc' = [pc EXCEPT ![c] = "idle"]
  /\ sess' = [sess EXCEPT ![c] = NoSession]
  /\ UNCHANGED result

-----------------------------------------------------------------------------
(* Faults and time.                                                          *)

(* The process dies: its keepalives stop, its keys stay.                     *)
Crash(c) ==
  /\ pc[c] # "idle"
  /\ alive' = alive \ {sess[c]}
  /\ pc' = [pc EXCEPT ![c] = "idle"]
  /\ sess' = [sess EXCEPT ![c] = NoSession]
  /\ result' = [result EXCEPT ![c] = "none"]
  /\ KeepKeys /\ UNCHANGED leases

(* A lease's TTL runs out.  Without keepalives it must; with them it may, if *)
(* the client is cut off from etcd for a whole TTL.  Nothing in the daemon   *)
(* watches Session.Done, so the client goes on as before.                    *)
LeaseExpires(s) ==
  /\ s \in leases
  /\ DropLease(s)
  /\ UNCHANGED <<alive, pc, sess, result>>

-----------------------------------------------------------------------------
ClientStep(c) ==
  \/ NewSession(c) \/ NewSessionFails(c)
  \/ TryLock(c) \/ TryLockFails(c)
  \/ DeleteOwnKey(c) \/ DeleteOwnKeyFails(c)
  \/ Annotate(c) \/ AnnotateFails(c)
  \/ StartRelease(c) \/ Unlock(c) \/ Close(c)

Next ==
  \/ \E c \in Client : ClientStep(c) \/ Crash(c)
  \/ \E s \in Session : LeaseExpires(s)

(* A call that has been started goes on (its RPCs return or time out), and a *)
(* lease nobody keeps alive runs out.  Nothing forces a client to call       *)
(* Acquire, to call Release, or to die.                                      *)
Fairness ==
  /\ \A c \in Client : WF_vars(pc[c] \notin {"idle", "held"} /\ ClientStep(c))
  /\ \A s \in Session : WF_vars(s \notin alive /\ LeaseExpires(s))

Spec == Init /\ [][Next]_vars
FairSpec == Spec /\ Fairness
-----------------------------------------------------------------------------
(* Refinement mapping onto LeaseLock.                                        *)

Honoured == {s \in keys : granted[s] # NoClient}

AbsHolder == IF Honoured = {} THEN NoClient
             ELSE granted[CHOOSE s \in Honoured : TRUE]

AbsHeld == {c \in Client : pc[c] = "held"}

Abstract == INSTANCE LeaseLock WITH holder <- AbsHolder, held <- AbsHeld

-----------------------------------------------------------------------------
(* Properties.                                                               *)

(* Mutual exclusion at the service: whatever RPCs fail and whoever dies,     *)
(* etcd never honours two leases Acquire handed out.                         *)
AtMostOneHonoured == \A s, t \in Honoured : s = t

(* Acquire, as a whole, is the atomic lock operation its callers assume.     *)
ImplementsLeaseLock == Abstract!LockSpec

(* An Acquire that reports ErrNotAcquired has taken its key back, so a loser *)
(* never stands in the way of the next contender.                            *)
ContenderLeavesNoKey ==
  [][\A c \in Client : pc[c] = "close" /\ result[c] = "notAcquired" => sess[c] \notin keys']_vars

(* No call, failure or death leaves a key behind for good: a key belongs to  *)
(* a lease in use, or it disappears.                                         *)
KeysDoNotOutliveTheirUsers ==
  \A s \in Session :
    s \in keys /\ (\A c \in Client : pc[c] = "held" => sess[c] # s)
      ~> (s \notin keys \/ \E c \in Client : pc[c] = "held" /\ sess[c] = s)
=============================================================================
