----------------------------- MODULE LeaseLock -----------------------------
(* What pkg/lock promises its callers (lock.Manager and lock.Lease): a lock  *)
(* backed by a lease.  A client believes it holds the lock from the moment   *)
(* Acquire returns a Lease until it gives that Lease back; the service may   *)
(* stop honouring it earlier, and no one tells the client.                   *)
(* EtcdLock implements this module; RebootCluster is built on it.            *)

CONSTANTS Client,     \* processes that call Acquire
          NoClient    \* "nobody"

VARIABLES holder,     \* the client whose lease the service honours
          held        \* the clients that were handed a Lease and still use it

lockVars == <<holder, held>>

LockTypeOK == /\ holder \in Client \cup {NoClient}
              /\ held \subseteq Client

LockInit == /\ holder = NoClient
            /\ held = {}

(* Acquire returns a Lease: only while the service honours no other one.     *)
Grant(c) == /\ c \notin held
            /\ holder = NoClient
            /\ holder' = c
            /\ held' = held \cup {c}

(* Release succeeded: the client stops using the lease, the service frees it *)
(* unless it has already passed to somebody else.                            *)
Release(c) == /\ c \in held
              /\ held' = held \ {c}
              /\ holder' = IF holder = c THEN NoClient ELSE holder

(* The client stops using its lease and the service does not hear of it: the *)
(* process died, or the release RPCs failed.                                 *)
Abandon(c) == /\ c \in held
              /\ held' = held \ {c}
              /\ UNCHANGED holder

(* The lease's TTL runs out at the service.                                  *)
Expire == /\ holder # NoClient
          /\ holder' = NoClient
          /\ UNCHANGED held

LockNext == \/ \E c \in Client : Grant(c) \/ Release(c) \/ Abandon(c)
            \/ Expire

LockSpec == LockInit /\ [][LockNext]_lockVars
=============================================================================
