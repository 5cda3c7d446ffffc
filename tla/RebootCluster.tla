--------------------------- MODULE RebootCluster ---------------------------
(* The nodes of a cluster, each running `clusterrebootd run`: Runner.RunOnce *)
(* step by step inside Loop.Run, the heartbeat goroutine beside it, and the  *)
(* three things they share through etcd: the lock (LeaseLock), the cooldown  *)
(* marker and the health records.  Each read of the outside world (a file, a *)
(* script, a detector, the clock, etcd) is a step of its own, so anything    *)
(* may change between two of them.                                           *)
EXTENDS ClusterPolicies

CONSTANTS
  Node, NoNode,
  DryRun,           \* the nodes configured with dry_run
  CooldownOn,       \* is min_reboot_interval_sec positive?
  Policy,           \* cluster_policies
  MaxLockTries,     \* Runner.maxLockTries
  MaxFlips,         \* bound: changes of the outside world
  MaxFaults         \* bound: errors, crashes, stops and leases lost by a live process

ASSUME ClusterAssumption == /\ NoNode \notin Node /\ IsFiniteSet(Node)
                            /\ DryRun \subseteq Node
                            /\ CooldownOn \in BOOLEAN
                            /\ MaxLockTries \in Nat \ {0}
                            /\ MaxFlips \in Nat
                            /\ MaxFaults \in Nat

VARIABLES
  pc,         \* where each node's main goroutine is
  tries,      \* attempts at the lock already lost in this pass
  script,     \* the main goroutine's last script result, until it is published
  beat,       \* heartbeat goroutine: idle, or the result it has yet to publish
  holder,     \* etcd: whose lock lease is honoured
  held,       \* the nodes whose process has a lock lease in hand
  stray,      \* etcd: is there a lock key left by an attempt that ended badly?
  marker,     \* etcd: who started the cooldown in force
  rec,        \* etcd: the published health records
  rebooting,  \* the nodes with a reboot command accepted, until they are back
  kill,       \* the nodes with a kill switch file
  due,        \* the nodes whose detectors ask for a reboot
  fit,        \* the nodes whose health script would pass
  open,       \* do the maintenance windows allow a reboot now?
  flips, faults, lapses,
  clear,      \* history: the gates that were open at some moment since the lock
  seen        \* history: likewise, since the pass began, for the gates that
              \* RunOnce checks once

lock == <<holder, held>>
main == <<pc, tries, script>>
world == <<kill, due, fit, open, stray, flips, lapses>>
vars == <<pc, tries, script, beat, holder, held, stray, marker, rec, rebooting,
          kill, due, fit, open, flips, faults, lapses, clear, seen>>

INSTANCE LeaseLock WITH Client <- Node, NoClient <- NoNode

UnderLock == {"kill2", "cluster2", "detect2", "health2", "publish2", "ready", "exec"}
BeforeLock == {"kill1", "window", "detect1", "monitor", "publish0", "cluster1",
               "health1", "publish1", "cooldown", "lock"}
PcValues == UnderLock \cup BeforeLock \cup {"pause", "exited"}

-----------------------------------------------------------------------------
(* The gates of RunOnce, as the outside world and etcd stand.                *)
Gates == {"kill", "window", "detect", "cluster", "health", "cooldown"}

checkKill(n) == n \in kill             \* a stat of the kill switch file
requiresReboot(n) == n \in due         \* Engine.Evaluate
scriptPasses(n) == n \in fit           \* exit status 0 of the health script
cooldownActive == CooldownOn /\ marker # NoNode

Passes(n, g) ==
  CASE g = "kill"     -> ~checkKill(n)
    [] g = "window"   -> open
    [] g = "detect"   -> requiresReboot(n)
    [] g = "cluster"  -> ~Blocked(Policy, rec, n)
    [] g = "health"   -> scriptPasses(n)
    [] g = "cooldown" -> ~cooldownActive

PassedNow(n) == {g \in Gates : Passes(n, g)}

(* The gates checked again under the lock, and those that are not.           *)
RecheckedGates == {"kill", "cluster", "detect", "health"}
OnceGates == {"window", "cooldown"}

InPass == (BeforeLock \ {"kill1"}) \cup UnderLock

(* Keeps the history variables; the last conjunct of every action.           *)
Track ==
  /\ clear' = [n \in Node |->
                 IF pc'[n] \notin UnderLock THEN {}
                 ELSE (IF pc[n] \in UnderLock THEN clear[n] ELSE {}) \cup PassedNow(n)']
  /\ seen' = [n \in Node |->
                 IF pc'[n] \notin InPass THEN {}
                 ELSE (IF pc[n] \in InPass THEN seen[n] ELSE {})
                        \cup (PassedNow(n)' \cap OnceGates)]

Results == {"healthy", "unhealthy"}

TypeOK ==
  /\ pc \in [Node -> PcValues]
  /\ tries \in [Node -> 0 .. MaxLockTries - 1]
  /\ script \in [Node -> Results]
  /\ beat \in [Node -> Results \cup {"idle"}]
  /\ LockTypeOK
  /\ marker \in Node \cup {NoNode}
  /\ rec \in [Node -> Reports]
  /\ rebooting \subseteq Node
  /\ kill \subseteq Node /\ due \subseteq Node /\ fit \subseteq Node
  /\ open \in BOOLEAN /\ stray \in BOOLEAN
  /\ flips \in 0 .. MaxFlips /\ faults \in 0 .. MaxFaults
  /\ lapses \in 0 .. MaxFaults
  /\ clear \in [Node -> SUBSET Gates]
  /\ seen \in [Node -> SUBSET OnceGates]

Init ==
  /\ pc = [n \in Node |-> "kill1"]
  /\ tries = [n \in Node |-> 0]
  /\ script = [n \in Node |-> "healthy"]
  /\ beat = [n \in Node |-> "idle"]
  /\ LockInit /\ stray = FALSE
  /\ marker = NoNode
  /\ rec \in [Node -> Reports]
  /\ rebooting = {}
  /\ kill \in SUBSET Node /\ due \in SUBSET Node /\ fit \in SUBSET Node
  /\ open \in BOOLEAN
  /\ flips = 0 /\ faults = 0 /\ lapses = 0
  /\ clear = [n \in Node |-> {}]
  /\ seen = [n \in Node |-> {}]

-----------------------------------------------------------------------------
(* Moving between steps.                                                     *)

Move(n, at, next) == pc[n] = at /\ pc' = [pc EXCEPT ![n] = next]

(* One of the errors, crashes and stops the bound allows.                    *)
Fault == faults + lapses < MaxFaults /\ faults' = faults + 1

(* Slip: the process drops its lease and does not tell etcd.                 *)
DropLease(n) == IF n \in held THEN Abandon(n) ELSE UNCHANGED lock

(* Slip: a return path without the deferred release.                         *)
KeepLease(n) == UNCHANGED lock

(* The deferred releaseLease, Outcome.ReleaseLock: give the lease back if    *)
(* there is one; the RPCs may fail, and then it is left to its TTL.          *)
GiveBack(n) ==
  \/ n \in held /\ Release(n)
  \/ n \notin held /\ UNCHANGED lock

GiveBackOrFail(n) ==
  \/ GiveBack(n) /\ UNCHANGED faults
  \/ Abandon(n) /\ Fault

(* A read of gate g at step `at`: go on if it lets the node pass, otherwise  *)
(* RunOnce returns a blocking outcome and its deferred release runs.         *)
Gate(n, at, g, next) ==
  /\ IF Passes(n, g)
     THEN Move(n, at, next) /\ UNCHANGED <<lock, faults>>
     ELSE Move(n, at, "pause") /\ GiveBackOrFail(n)
  /\ UNCHANGED <<tries, script, beat, marker, rec, rebooting, world>>
  /\ Track

(* What the health script reports when it runs now.                          *)
Result(n) == IF scriptPasses(n) THEN "healthy" ELSE "unhealthy"

(* runHealthWithObservability: run the script.                               *)
RunScript(n, at, next) ==
  /\ Move(n, at, next)
  /\ script' = [script EXCEPT ![n] = Result(n)]
  /\ UNCHANGED <<tries, beat, lock, marker, rec, rebooting, world, faults>>
  /\ Track

(* updateClusterHealth: publish the result, then act on it.                  *)
Publish(n, at, next) ==
  /\ IF script[n] = "healthy"
     THEN Move(n, at, next) /\ UNCHANGED <<lock, faults>>
     ELSE Move(n, at, "pause") /\ GiveBackOrFail(n)
  /\ rec' = [rec EXCEPT ![n] = script[n]]
  /\ script' = [script EXCEPT ![n] = "healthy"]
  /\ UNCHANGED <<tries, beat, marker, rebooting, world>>
  /\ Track

-----------------------------------------------------------------------------
(* Runner.RunOnce before the lock.                                           *)

KillSwitchPre(n) == Gate(n, "kill1", "kill", "window")

Window(n) == Gate(n, "window", "window", "detect1")

(* No reboot required: the pass only monitors the node's health.             *)
DetectPre(n) ==
  /\ Move(n, "detect1", IF requiresReboot(n) THEN "cluster1" ELSE "monitor")
  /\ UNCHANGED <<tries, script, beat, lock, marker, rec, rebooting, world, faults>>
  /\ Track

Monitor(n) == RunScript(n, "monitor", "publish0")
PublishMonitor(n) == Publish(n, "publish0", "pause")

ClusterPre(n) == Gate(n, "cluster1", "cluster", "health1")

HealthPre(n) == RunScript(n, "health1", "publish1")
PublishPre(n) == Publish(n, "publish1", IF CooldownOn THEN "cooldown" ELSE "lock")

CooldownStatus(n) == Gate(n, "cooldown", "cooldown", "lock")

-----------------------------------------------------------------------------
(* Runner.acquireLock: up to maxLockTries attempts with a backoff between.   *)

AcquireLock(n) ==
  /\ Move(n, "lock", "kill2")
  /\ ~stray /\ Grant(n)
  /\ tries' = [tries EXCEPT ![n] = 0]
  /\ UNCHANGED <<script, beat, marker, rec, rebooting, world, faults>>
  /\ Track

(* Slip: one attempt more than maxLockTries.                                 *)
ContendedOnceMore(n) ==
  /\ holder # NoNode
  /\ IF tries[n] + 1 <= MaxLockTries
     THEN Move(n, "lock", "lock") /\ tries' = [tries EXCEPT ![n] = @ + 1]
     ELSE Move(n, "lock", "pause") /\ tries' = [tries EXCEPT ![n] = 0]
  /\ UNCHANGED <<script, beat, lock, marker, rec, rebooting, world, faults>>
  /\ Track

(* Lost to the holder, or to the key of another contender: one that passes   *)
(* by, or one that could not take it back.                                   *)
Contended(n) ==
  /\ holder # NoNode \/ stray \/ \E m \in Node \ {n} : pc[m] = "lock"
  /\ IF tries[n] + 1 < MaxLockTries
     THEN /\ Move(n, "lock", "lock")
          /\ tries' = [tries EXCEPT ![n] = @ + 1]
     ELSE /\ Move(n, "lock", "pause")
          /\ tries' = [tries EXCEPT ![n] = 0]
  /\ UNCHANGED <<script, beat, lock, marker, rec, rebooting, world, faults>>
  /\ Track

-----------------------------------------------------------------------------
(* Runner.RunOnce under the lock.                                            *)

KillSwitchPost(n) == Gate(n, "kill2", "kill", "cluster2")

ClusterPost(n) == Gate(n, "cluster2", "cluster", "detect2")

(* Slip: reuse the detectors' verdict from before the lock.                  *)
DetectOnce(n) ==
  /\ Move(n, "detect2", "health2")
  /\ UNCHANGED <<tries, script, beat, lock, marker, rec, rebooting, world, faults>>
  /\ Track

DetectPost(n) == Gate(n, "detect2", "detect", "health2")

HealthPost(n) == RunScript(n, "health2", "publish2")
PublishPost(n) == Publish(n, "publish2", "ready")

(* An attempt at the lock that ends between its RPCs may leave its key: the  *)
(* put took effect, the clean-up did not.                                    *)
KeyLeftBehind(n) == \/ UNCHANGED stray
                    \/ pc[n] = "lock" /\ stray' = TRUE

(* Any read, script, detector or RPC of the pass may return an error, and    *)
(* so may all of them once SIGTERM cancels the context: RunOnce returns it,  *)
(* the lease is released.  An errored publication may have reached etcd.     *)
StepFails(n) ==
  /\ pc[n] \in (BeforeLock \cup UnderLock) \ {"window", "ready", "exec"}
  /\ Move(n, pc[n], "pause")
  /\ Fault /\ (GiveBack(n) \/ Abandon(n))
  /\ \/ UNCHANGED rec
     \/ /\ pc[n] \in {"publish0", "publish1", "publish2"}
        /\ rec' = [rec EXCEPT ![n] = script[n]]
  /\ tries' = [tries EXCEPT ![n] = 0]
  /\ script' = [script EXCEPT ![n] = "healthy"]
  /\ KeyLeftBehind(n)
  /\ UNCHANGED <<beat, marker, rebooting, kill, due, fit, open, flips, lapses>>
  /\ Track

-----------------------------------------------------------------------------
(* Loop.Run on a ready outcome.                                              *)

(* In dry-run mode RunOnce keeps the lease, so its deferred release frees it *)
(* and the loop ends; if the release fails RunOnce returns that error.       *)
FinishDryRun(n) ==
  /\ n \in DryRun
  /\ \/ /\ Move(n, "ready", "exited") /\ GiveBack(n)
        /\ beat' = [beat EXCEPT ![n] = "idle"]
        /\ UNCHANGED faults
     \/ /\ Move(n, "ready", "pause") /\ Abandon(n) /\ Fault
        /\ UNCHANGED beat
  /\ UNCHANGED <<tries, script, marker, rec, rebooting, world>>
  /\ Track

(* Slip: release the lock as soon as the cooldown has started.               *)
StartCooldownUnlock(n) ==
  /\ n \notin DryRun
  /\ Move(n, "ready", "exec")
  /\ marker' = IF CooldownOn THEN n ELSE marker
  /\ Release(n)
  /\ UNCHANGED <<tries, script, beat, rec, rebooting, world, faults>>
  /\ Track

StartCooldown(n) ==
  /\ n \notin DryRun
  /\ Move(n, "ready", "exec")
  /\ marker' = IF CooldownOn THEN n ELSE marker
  /\ UNCHANGED <<tries, script, beat, lock, rec, rebooting, world, faults>>
  /\ Track

(* The marker could not be stored: no reboot, the lock is released and the   *)
(* process ends.  The failed put may have replaced the marker, and revoking  *)
(* its lease may have removed it.                                            *)
StartCooldownFails(n) ==
  /\ n \notin DryRun /\ CooldownOn
  /\ Move(n, "ready", "exited")
  /\ beat' = [beat EXCEPT ![n] = "idle"]
  /\ marker' \in {marker, n, NoNode}
  /\ Fault /\ (GiveBack(n) \/ Abandon(n))
  /\ UNCHANGED <<tries, script, rec, rebooting, world>>
  /\ Track

(* Execute returned nil: the process ends with the lock in hand, so its key  *)
(* stays until the lease's TTL.                                              *)
Execute(n) ==
  /\ Move(n, "exec", "exited")
  /\ beat' = [beat EXCEPT ![n] = "idle"]
  /\ rebooting' = rebooting \cup {n}
  /\ Abandon(n)
  /\ UNCHANGED <<tries, script, marker, rec, world, faults>>
  /\ Track

(* Execute returned an error; the reboot may be on its way all the same.     *)
(* The marker stays, the lock is released, the process ends.                 *)
ExecuteFails(n) ==
  /\ Move(n, "exec", "exited")
  /\ beat' = [beat EXCEPT ![n] = "idle"]
  /\ rebooting' \in {rebooting, rebooting \cup {n}}
  /\ Fault /\ (GiveBack(n) \/ Abandon(n))
  /\ UNCHANGED <<tries, script, marker, rec, world>>
  /\ Track

(* The sleep between two passes, and SIGTERM during it.                      *)
NextPass(n) ==
  /\ Move(n, "pause", "kill1")
  /\ UNCHANGED <<tries, script, beat, lock, marker, rec, rebooting, world, faults>>
  /\ Track

Stop(n) ==
  /\ Move(n, "pause", "exited") /\ Fault
  /\ beat' = [beat EXCEPT ![n] = "idle"]
  /\ UNCHANGED <<tries, script, lock, marker, rec, rebooting, world>>
  /\ Track

-----------------------------------------------------------------------------
(* HealthPublisher.Run beside the loop: run the script, then publish.        *)

Running(n) == pc[n] # "exited"

BeatScript(n) ==
  /\ Running(n) /\ beat[n] = "idle"
  /\ beat' = [beat EXCEPT ![n] = Result(n)]
  /\ UNCHANGED <<main, lock, marker, rec, rebooting, world, faults>>
  /\ Track

(* Slip: a heartbeat that runs the script and does not publish.              *)
BeatSilent(n) ==
  /\ Running(n) /\ beat[n] # "idle"
  /\ beat' = [beat EXCEPT ![n] = "idle"]
  /\ UNCHANGED <<main, lock, marker, rec, rebooting, world, faults>>
  /\ Track

BeatPublish(n) ==
  /\ Running(n) /\ beat[n] # "idle"
  /\ \/ rec' = [rec EXCEPT ![n] = beat[n]] /\ UNCHANGED faults
     \/ UNCHANGED rec /\ Fault
  /\ beat' = [beat EXCEPT ![n] = "idle"]
  /\ UNCHANGED <<main, lock, marker, rebooting, world>>
  /\ Track

-----------------------------------------------------------------------------
(* Processes and machines.                                                   *)

Reset(n, at) == /\ pc' = [pc EXCEPT ![n] = at]
                /\ tries' = [tries EXCEPT ![n] = 0]
                /\ script' = [script EXCEPT ![n] = "healthy"]
                /\ beat' = [beat EXCEPT ![n] = "idle"]

LeaseLeftBehind(n) == IF n \in held THEN Abandon(n) ELSE UNCHANGED lock

(* The process dies; a reboot command it had started may go through.         *)
Crash(n) ==
  /\ Running(n)
  /\ Reset(n, "exited") /\ LeaseLeftBehind(n) /\ KeyLeftBehind(n) /\ Fault
  /\ rebooting' \in {rebooting} \cup {r \in {rebooting \cup {n}} : pc[n] = "exec"}
  /\ UNCHANGED <<marker, rec, kill, due, fit, open, flips, lapses>>
  /\ Track

(* systemd starts the daemon again (Restart=always), even on a machine that  *)
(* is about to go down.                                                      *)
ServiceStart(n) ==
  /\ Move(n, "exited", "kill1")
  /\ UNCHANGED <<tries, script, beat, lock, marker, rec, rebooting, world, faults>>
  /\ Track

(* The machine is back from its reboot, which no longer is required.         *)
MachineUp(n) ==
  /\ n \in rebooting
  /\ rebooting' = rebooting \ {n}
  /\ due' = due \ {n}
  /\ Reset(n, "kill1") /\ LeaseLeftBehind(n) /\ KeyLeftBehind(n)
  /\ UNCHANGED <<marker, rec, kill, fit, open, flips, faults, lapses>>
  /\ Track

-----------------------------------------------------------------------------
(* Time and the outside world.                                               *)

(* The TTL of a lease whose process is gone runs out.                        *)
LeaseTTL ==
  /\ holder \notin held /\ Expire
  /\ UNCHANGED <<main, beat, marker, rec, rebooting, world, faults>>
  /\ Track

(* The lease of a live process runs out: it was cut off from etcd for a TTL. *)
LeaseLapses ==
  /\ faults + lapses < MaxFaults /\ lapses' = lapses + 1
  /\ holder \in held /\ Expire
  /\ UNCHANGED <<main, beat, marker, rec, rebooting, kill, due, fit, open, stray, flips, faults>>
  /\ Track

(* A key left behind goes with its lease.                                    *)
StrayTTL ==
  /\ stray /\ stray' = FALSE
  /\ UNCHANGED <<main, beat, lock, marker, rec, rebooting, kill, due, fit, open, flips, faults, lapses>>
  /\ Track

(* Slip: a cooldown marker stored without a lease.                           *)
MarkerStays == FALSE /\ UNCHANGED vars

MarkerExpires ==
  /\ marker # NoNode /\ marker' = NoNode
  /\ UNCHANGED <<main, beat, lock, rec, rebooting, world, faults>>
  /\ Track

Toggle(S, n) == IF n \in S THEN S \ {n} ELSE S \cup {n}

(* An operator touches or removes a kill switch, packages are installed, a   *)
(* service fails or recovers, a maintenance window begins or ends.           *)
Flip ==
  /\ flips < MaxFlips /\ flips' = flips + 1
  /\ \/ \E n \in Node : kill' = Toggle(kill, n) /\ UNCHANGED <<due, fit, open>>
     \/ \E n \in Node : due' = Toggle(due, n) /\ UNCHANGED <<kill, fit, open>>
     \/ \E n \in Node : fit' = Toggle(fit, n) /\ UNCHANGED <<kill, due, open>>
     \/ open' = ~open /\ UNCHANGED <<kill, due, fit>>
  /\ UNCHANGED <<main, beat, lock, stray, marker, rec, rebooting, faults, lapses>>
  /\ Track

-----------------------------------------------------------------------------
Pass(n) ==
  \/ KillSwitchPre(n) \/ Window(n) \/ DetectPre(n)
  \/ Monitor(n) \/ PublishMonitor(n)
  \/ ClusterPre(n) \/ HealthPre(n) \/ PublishPre(n) \/ CooldownStatus(n)
  \/ AcquireLock(n) \/ Contended(n)
  \/ KillSwitchPost(n) \/ ClusterPost(n) \/ DetectPost(n)
  \/ HealthPost(n) \/ PublishPost(n)
  \/ FinishDryRun(n) \/ StartCooldown(n) \/ Execute(n)
  \/ NextPass(n)

Trouble(n) == StepFails(n) \/ StartCooldownFails(n) \/ ExecuteFails(n) \/ Stop(n) \/ Crash(n)

NodeNext(n) ==
  \/ Pass(n) \/ Trouble(n)
  \/ BeatScript(n) \/ BeatPublish(n)
  \/ ServiceStart(n) \/ MachineUp(n)

Next == \/ \E n \in Node : NodeNext(n)
        \/ LeaseTTL \/ LeaseLapses \/ StrayTTL \/ MarkerExpires \/ Flip

Spec == Init /\ [][Next]_vars

(* Each goroutine keeps running, systemd restarts what ended, a machine that *)
(* goes down comes back, what has a TTL runs out.  A dry-run daemon ends     *)
(* after each ready pass, and systemd gives up on it after a few starts      *)
(* (StartLimitBurst): nothing makes it start again.                          *)
Fairness ==
  /\ \A n \in Node : /\ WF_vars(Pass(n))
                     /\ WF_vars(BeatScript(n)) /\ WF_vars(BeatPublish(n))
                     /\ WF_vars(MachineUp(n))
                     /\ SF_vars(AcquireLock(n))
  /\ \A n \in Node \ DryRun : WF_vars(ServiceStart(n))
  /\ WF_vars(LeaseTTL) /\ WF_vars(StrayTTL) /\ WF_vars(MarkerExpires)

FairSpec == Spec /\ Fairness

-----------------------------------------------------------------------------
(* Properties.                                                               *)

(* A process has a lock lease in hand exactly while it is between the        *)
(* acquisition and the end of the pass or of the reboot command: no return   *)
(* path of RunOnce or Run, blocked, failed, cancelled or dry, leaks it.      *)
LeaseHeldOnlyUnderLock == \A n \in Node : n \in held <=> pc[n] \in UnderLock

(* A reboot command is started only if every rechecked gate was open at some *)
(* moment since the node got the lock, and the other gates at some moment of *)
(* the same pass: no older decision is reused.                               *)
RebootsOnFreshChecks ==
  \A n \in Node : pc[n] = "exec" => /\ RecheckedGates \subseteq clear[n]
                                   /\ OnceGates \subseteq seen[n]

(* A node under the lock that is not the one the lock service honours stands *)
(* for a lease lost by a live process.  With none lost, the gates are        *)
(* rechecked, the cooldown started and the command run by one node at a      *)
(* time, through any error, crash, failed release and restart.               *)
LockedSectionExclusive ==
  Cardinality({n \in Node : pc[n] \in UnderLock /\ n # holder}) <= lapses

(* While a machine goes down and up again, leases that last mean that it is  *)
(* the lock's holder that does: with no lapse, and with somebody honoured as *)
(* long as a machine is away, no other one follows it.                       *)
OnlyTheHolderReboots ==
  [][/\ rebooting \subseteq {holder}
     /\ lapses' = 0 /\ (rebooting' # {} => holder' # NoNode)
     => rebooting' \subseteq {holder'}]_vars

(* The lock is left to its TTL, so that every other node waits for it, only  *)
(* for a reboot or after a fault: a pass that was blocked, or that lost its  *)
(* reason to reboot, frees it at once.                                       *)
LockIsFreed ==
  [][/\ holder \in held
     /\ holder' = holder /\ holder \notin held'
     => faults' > faults \/ holder \in rebooting \cup rebooting']_vars

(* The backoff between attempts is random, so a node that tries again and    *)
(* again does not try only while a key of somebody else's stands in its way. *)
RandomBackoff ==
  \A n \in Node :
    []<>(pc[n] = "lock") => []<>(pc[n] = "lock" /\ holder = NoNode /\ ~stray)

(* A required reboot happens: detectors cannot go on asking for it while the *)
(* node's other gates stay open, every node stays healthy, and no dry-run    *)
(* daemon has left an unhealthy record behind.                               *)
DueNodesReboot ==
  RandomBackoff =>
    \A n \in Node \ DryRun :
      ~<>[](/\ n \in due /\ n \notin kill /\ open /\ fit = Node
            /\ \A m \in DryRun : rec[m] # "unhealthy")

(* The shared record follows a node's health, reboot pending or not, kill    *)
(* switch or not: a block goes away once the node has recovered.             *)
RecordsFollowHealth ==
  \A n \in Node \ DryRun :
    /\ <>[](n \in fit) => <>[](rec[n] = "healthy")
    /\ <>[](n \notin fit) => <>[](rec[n] = "unhealthy")

-----------------------------------------------------------------------------
(* What the documents say of the cluster, and the code does not do.          *)

(* PRD.md: reboots never run in parallel.  The lock is left to its TTL when  *)
(* the reboot command has been accepted; nothing renews it until the machine *)
(* is back.                                                                  *)
NoParallelReboots == Cardinality(rebooting) <= 1

(* STATE.md: the lease is held until the reboot command is invoked, which    *)
(* prevents concurrent reboots.  Nothing watches for its loss, so a node     *)
(* that was cut off from etcd for a TTL goes on to the command while the     *)
(* lock is another's.                                                        *)
CommandsUnderTheLock ==
  [][\A n \in Node : pc[n] = "ready" /\ pc'[n] = "exec" => holder \in {n, NoNode}]_vars

(* OPERATIONS.md: new reboot attempts are refused until the cooldown window  *)
(* expires.  RunOnce reads the marker before it waits for the lock only.     *)
CooldownRefusesReboots ==
  [][\A n \in Node : pc[n] = "ready" /\ pc'[n] = "exec" => marker \in {NoNode, n}]_vars

(* PRD.md: no reboot during blackout windows.  RunOnce evaluates the windows *)
(* at the start of the pass only, so the reboot command may start although   *)
(* the windows have forbidden it ever since the node got the lock.           *)
WindowGuardsReboots == \A n \in Node : pc[n] = "exec" => "window" \in clear[n]
=============================================================================
