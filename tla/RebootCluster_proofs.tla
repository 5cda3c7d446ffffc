----------------------- MODULE RebootCluster_proofs ------------------------
(* Proofs about RebootCluster for any cluster, policy and bound.             *)
EXTENDS RebootCluster, FiniteSetTheorems, TLAPS

(* The lock as the nodes see it.  A node is under the lock exactly while it  *)
(* has a lease in hand, and each lease in hand but the honoured one stands   *)
(* for a lapse.                                                              *)
Intruders == held \ {holder}

LeasesLapsed == Cardinality(Intruders) <= lapses

LockInv == LeaseHeldOnlyUnderLock /\ LeasesLapsed

-----------------------------------------------------------------------------
(* Type correctness.  Gates, script runs and publications have one shape     *)
(* each, whatever the step they stand for.                                   *)

LEMMA TrackType == TypeOK /\ Track /\ pc' \in [Node -> PcValues]
                     => /\ clear' \in [Node -> SUBSET Gates]
                        /\ seen' \in [Node -> SUBSET OnceGates]
  BY DEF TypeOK, Track, PassedNow

LEMMA TriesReset ==
  ASSUME TypeOK, NEW n \in Node, tries' = [tries EXCEPT ![n] = 0]
  PROVE  tries' \in [Node -> 0 .. MaxLockTries - 1]
<1>1. 0 \in 0 .. MaxLockTries - 1
  BY ClusterAssumption
<1>. QED BY <1>1 DEF TypeOK

LEMMA FaultType == TypeOK /\ Fault => faults' \in 0 .. MaxFaults
  BY ClusterAssumption DEF TypeOK, Fault

LEMMA GiveBackType ==
  ASSUME TypeOK, NEW n \in Node, GiveBackOrFail(n) \/ (Fault /\ (GiveBack(n) \/ Abandon(n)))
  PROVE  LockTypeOK' /\ faults' \in 0 .. MaxFaults
  BY ClusterAssumption DEF TypeOK, GiveBackOrFail, GiveBack, Fault, LockTypeOK, Release, Abandon, lock

LEMMA GateType ==
  ASSUME TypeOK, NEW n \in Node, NEW at, NEW g, NEW next \in PcValues, Gate(n, at, g, next)
  PROVE  TypeOK'
<1>1. pc' \in [Node -> PcValues]
  BY DEF Gate, Move, TypeOK, PcValues
<1>2. LockTypeOK' /\ faults' \in 0 .. MaxFaults
  BY GiveBackType DEF Gate, TypeOK, LockTypeOK, lock
<1>. QED BY <1>1, <1>2, TrackType DEF Gate, TypeOK, world

LEMMA RunScriptType ==
  ASSUME TypeOK, NEW n \in Node, NEW at, NEW next \in PcValues, RunScript(n, at, next)
  PROVE  TypeOK'
<1>1. pc' \in [Node -> PcValues]
  BY DEF RunScript, Move, TypeOK
<1>. QED BY <1>1, TrackType DEF RunScript, TypeOK, LockTypeOK, lock, world, Result, Results

LEMMA PublishType ==
  ASSUME TypeOK, NEW n \in Node, NEW at, NEW next \in PcValues, Publish(n, at, next)
  PROVE  TypeOK'
<1>1. pc' \in [Node -> PcValues]
  BY DEF Publish, Move, TypeOK, PcValues
<1>2. LockTypeOK' /\ faults' \in 0 .. MaxFaults
  BY GiveBackType DEF Publish, TypeOK, LockTypeOK, lock
<1>3. rec' \in [Node -> Reports]
  BY DEF Publish, TypeOK, Reports, Results
<1>. QED BY <1>1, <1>2, <1>3, TrackType DEF Publish, TypeOK, Results, world

LEMMA TypeStep == TypeOK /\ [Next]_vars => TypeOK'
<1> SUFFICES ASSUME TypeOK, [Next]_vars PROVE TypeOK'
  OBVIOUS
<1> USE ClusterAssumption DEF PcValues, BeforeLock, UnderLock
<1>1. ASSUME NEW n \in Node, Pass(n) PROVE TypeOK'
  <2>1. CASE KillSwitchPre(n) \/ Window(n) \/ ClusterPre(n) \/ CooldownStatus(n)
    BY <2>1, GateType DEF KillSwitchPre, Window, ClusterPre, CooldownStatus
  <2>2. CASE KillSwitchPost(n) \/ ClusterPost(n) \/ DetectPost(n)
    BY <2>2, GateType DEF KillSwitchPost, ClusterPost, DetectPost
  <2>3. CASE Monitor(n) \/ HealthPre(n) \/ HealthPost(n)
    BY <2>3, RunScriptType DEF Monitor, HealthPre, HealthPost
  <2>4. CASE PublishMonitor(n) \/ PublishPre(n) \/ PublishPost(n)
    BY <2>4, PublishType DEF PublishMonitor, PublishPre, PublishPost
  <2>5. CASE DetectPre(n) \/ NextPass(n)
    <3>1. pc' \in [Node -> PcValues]
      BY <2>5 DEF DetectPre, NextPass, Move, TypeOK
    <3>. QED BY <2>5, <3>1, TrackType DEF DetectPre, NextPass, TypeOK, LockTypeOK, lock, world
  <2>6. CASE AcquireLock(n)
    <3>1. pc' \in [Node -> PcValues]
      BY <2>6 DEF AcquireLock, Move, TypeOK
    <3>. QED BY <2>6, <3>1, TriesReset, TrackType DEF AcquireLock, Grant, TypeOK, LockTypeOK, world
  <2>7. CASE Contended(n)
    <3>1. pc' \in [Node -> PcValues] /\ tries' \in [Node -> 0 .. MaxLockTries - 1]
      BY <2>7 DEF Contended, Move, TypeOK
    <3>. QED BY <2>7, <3>1, TrackType DEF Contended, TypeOK, LockTypeOK, lock, world
  <2>8. CASE FinishDryRun(n)
    <3>1. pc' \in [Node -> PcValues]
      BY <2>8 DEF FinishDryRun, Move, TypeOK
    <3>2. LockTypeOK' /\ faults' \in 0 .. MaxFaults
      BY <2>8, GiveBackType DEF FinishDryRun, GiveBackOrFail, TypeOK
    <3>. QED BY <2>8, <3>1, <3>2, TrackType DEF FinishDryRun, TypeOK, world
  <2>9. CASE StartCooldown(n)
    <3>1. pc' \in [Node -> PcValues]
      BY <2>9 DEF StartCooldown, Move, TypeOK
    <3>. QED BY <2>9, <3>1, TrackType DEF StartCooldown, TypeOK, LockTypeOK, lock, world
  <2>10. CASE Execute(n)
    <3>1. pc' \in [Node -> PcValues]
      BY <2>10 DEF Execute, Move, TypeOK
    <3>. QED BY <2>10, <3>1, TrackType DEF Execute, Abandon, TypeOK, LockTypeOK, world
  <2>. QED BY <1>1, <2>1, <2>2, <2>3, <2>4, <2>5, <2>6, <2>7, <2>8, <2>9, <2>10 DEF Pass
<1>2. ASSUME NEW n \in Node, Trouble(n) PROVE TypeOK'
  <2>1. CASE StepFails(n)
    <3>1. pc' \in [Node -> PcValues] /\ rec' \in [Node -> Reports]
      BY <2>1 DEF StepFails, Move, TypeOK, Reports, Results
    <3>2. LockTypeOK' /\ faults' \in 0 .. MaxFaults
      BY <2>1, GiveBackType DEF StepFails
    <3>. QED BY <2>1, <3>1, <3>2, TriesReset, TrackType DEF StepFails, KeyLeftBehind, TypeOK, Results, world
  <2>2. CASE StartCooldownFails(n) \/ ExecuteFails(n)
    <3>1. pc' \in [Node -> PcValues]
      BY <2>2 DEF StartCooldownFails, ExecuteFails, Move, TypeOK
    <3>2. LockTypeOK' /\ faults' \in 0 .. MaxFaults
      BY <2>2, GiveBackType DEF StartCooldownFails, ExecuteFails
    <3>. QED BY <2>2, <3>1, <3>2, TrackType DEF StartCooldownFails, ExecuteFails, TypeOK, world
  <2>3. CASE Stop(n)
    <3>1. pc' \in [Node -> PcValues]
      BY <2>3 DEF Stop, Move, TypeOK
    <3>. QED BY <2>3, <3>1, FaultType, TrackType DEF Stop, TypeOK, LockTypeOK, lock, world
  <2>4. CASE Crash(n)
    <3>1. pc' \in [Node -> PcValues] /\ LockTypeOK'
      BY <2>4 DEF Crash, Reset, LeaseLeftBehind, Abandon, TypeOK, LockTypeOK, lock
    <3>. QED BY <2>4, <3>1, TriesReset, FaultType, TrackType DEF Crash, Reset, KeyLeftBehind, TypeOK, Results, world
  <2>. QED BY <1>2, <2>1, <2>2, <2>3, <2>4 DEF Trouble
<1>3. ASSUME NEW n \in Node, BeatScript(n) \/ BeatPublish(n) PROVE TypeOK'
  <2>1. rec' \in [Node -> Reports]
    BY <1>3 DEF BeatScript, BeatPublish, TypeOK, Reports, Results
  <2>. QED BY <1>3, <2>1, TrackType
       DEF BeatScript, BeatPublish, Fault, TypeOK, LockTypeOK, Result, Results, lock, main, world
<1>4. ASSUME NEW n \in Node, ServiceStart(n) PROVE TypeOK'
  <2>1. pc' \in [Node -> PcValues]
    BY <1>4 DEF ServiceStart, Move, TypeOK
  <2>. QED BY <1>4, <2>1, TrackType DEF ServiceStart, TypeOK, LockTypeOK, lock, world
<1>5. ASSUME NEW n \in Node, MachineUp(n) PROVE TypeOK'
  <2>1. pc' \in [Node -> PcValues] /\ LockTypeOK'
    BY <1>5 DEF MachineUp, Reset, LeaseLeftBehind, Abandon, TypeOK, LockTypeOK, lock
  <2>. QED BY <1>5, <2>1, TriesReset, TrackType DEF MachineUp, Reset, KeyLeftBehind, TypeOK, Results
<1>6. CASE LeaseTTL \/ LeaseLapses
  BY <1>6, TrackType DEF LeaseTTL, LeaseLapses, Expire, TypeOK, LockTypeOK, main, world
<1>7. CASE StrayTTL \/ MarkerExpires
  BY <1>7, TrackType DEF StrayTTL, MarkerExpires, TypeOK, LockTypeOK, lock, main, world
<1>8. CASE Flip
  <2>1. /\ kill' \subseteq Node /\ due' \subseteq Node /\ fit' \subseteq Node
        /\ open' \in BOOLEAN
    <3>1. CASE open' = ~open /\ UNCHANGED <<kill, due, fit>>
      BY <3>1, Zenon DEF TypeOK
    <3>. QED BY <1>8, <3>1 DEF Flip, Toggle, TypeOK
  <2>2. flips' \in 0 .. MaxFlips
    BY <1>8 DEF Flip, TypeOK
  <2>. QED BY <1>8, <2>1, <2>2, TrackType DEF Flip, TypeOK, LockTypeOK, lock, main
<1>9. CASE UNCHANGED vars
  BY <1>9 DEF vars, TypeOK, LockTypeOK
<1>. QED BY <1>1, <1>2, <1>3, <1>4, <1>5, <1>6, <1>7, <1>8, <1>9 DEF Next, NodeNext

(* Every variable of the cluster keeps its type, the bounds included.        *)
THEOREM TypeCorrect == Spec => []TypeOK
<1>1. Init => TypeOK
  <2>1. Init => open \in BOOLEAN /\ stray \in BOOLEAN
    BY Zenon DEF Init
  <2>. QED BY <2>1, ClusterAssumption
           DEF Init, LockInit, TypeOK, LockTypeOK, PcValues, BeforeLock, Results
<1>. QED BY <1>1, TypeStep, PTL DEF Spec

-----------------------------------------------------------------------------
(* The lock.  A node that moves either stays on its side of the lock and     *)
(* leaves the lease alone, or leaves the locked section and gives it up.     *)

LEMMA IntrudersAreFinite ==
  ASSUME TypeOK
  PROVE  IsFiniteSet(Intruders) /\ Cardinality(Intruders) \in Nat
<1>1. Intruders \in SUBSET Node /\ IsFiniteSet(Node)
  BY ClusterAssumption DEF TypeOK, LockTypeOK, Intruders
<1>2. IsFiniteSet(Intruders)
  BY <1>1, FS_Subset
<1>. QED BY <1>2, FS_CardinalityType

LEMMA NoNewIntruder ==
  ASSUME TypeOK, LeasesLapsed, Intruders' \subseteq Intruders, lapses' = lapses
  PROVE  LeasesLapsed'
<1>1. /\ IsFiniteSet(Intruders) /\ Cardinality(Intruders) \in Nat
      /\ Intruders' \in SUBSET Intruders /\ lapses \in Int
  BY IntrudersAreFinite DEF TypeOK
<1>2. IsFiniteSet(Intruders') /\ Cardinality(Intruders') <= Cardinality(Intruders)
  BY <1>1, FS_Subset
<1>3. Cardinality(Intruders') \in Nat
  BY <1>2, FS_CardinalityType
<1>. HIDE DEF Intruders
<1>. QED BY <1>1, <1>2, <1>3 DEF LeasesLapsed

LEMMA StaysOnItsSide ==
  ASSUME TypeOK, LockInv, UNCHANGED <<lock, lapses>>, NEW n \in Node, NEW next,
         pc' = [pc EXCEPT ![n] = next], pc[n] \in UnderLock <=> next \in UnderLock
  PROVE  LockInv'
  BY DEF TypeOK, LockInv, LeaseHeldOnlyUnderLock, LeasesLapsed, Intruders, lock

LEMMA LeavesTheLock ==
  ASSUME TypeOK, LockInv, UNCHANGED lapses, NEW n \in Node, NEW next,
         pc' = [pc EXCEPT ![n] = next], next \notin UnderLock,
         GiveBack(n) \/ Abandon(n)
  PROVE  LockInv'
<1>1. LeaseHeldOnlyUnderLock'
  BY DEF TypeOK, LockTypeOK, LockInv, LeaseHeldOnlyUnderLock, GiveBack, Release, Abandon, lock
<1>2. Intruders' \subseteq Intruders
  BY ClusterAssumption DEF TypeOK, LockTypeOK, Intruders, GiveBack, Release, Abandon, lock
<1>. QED BY <1>1, <1>2, NoNewIntruder DEF LockInv

LEMMA GateLock ==
  ASSUME TypeOK, LockInv, NEW n \in Node, NEW at, NEW g, NEW next,
         at \in UnderLock <=> next \in UnderLock, Gate(n, at, g, next)
  PROVE  LockInv'
<1>1. CASE Passes(n, g)
  BY <1>1, StaysOnItsSide DEF Gate, Move, world
<1>2. CASE ~Passes(n, g)
  <2>1. "pause" \notin UnderLock
    BY DEF UnderLock
  <2>. QED BY <1>2, <2>1, LeavesTheLock DEF Gate, Move, GiveBackOrFail, world
<1>. QED BY <1>1, <1>2

LEMMA RunScriptLock ==
  ASSUME TypeOK, LockInv, NEW n \in Node, NEW at, NEW next,
         at \in UnderLock <=> next \in UnderLock, RunScript(n, at, next)
  PROVE  LockInv'
  BY StaysOnItsSide DEF RunScript, Move, world

LEMMA PublishLock ==
  ASSUME TypeOK, LockInv, NEW n \in Node, NEW at, NEW next,
         at \in UnderLock <=> next \in UnderLock, Publish(n, at, next)
  PROVE  LockInv'
<1>1. CASE script[n] = "healthy"
  BY <1>1, StaysOnItsSide DEF Publish, Move, world
<1>2. CASE script[n] # "healthy"
  <2>1. "pause" \notin UnderLock
    BY DEF UnderLock
  <2>. QED BY <1>2, <2>1, LeavesTheLock DEF Publish, Move, GiveBackOrFail, world
<1>. QED BY <1>1, <1>2

LEMMA LockInvInit == Init => LockInv
<1>1. Init => Intruders = {}
  BY DEF Init, LockInit, Intruders
<1>2. Init => LeasesLapsed
  BY <1>1, FS_EmptySet DEF Init, LeasesLapsed
<1>. QED BY <1>2 DEF Init, LockInit, LockInv, LeaseHeldOnlyUnderLock, UnderLock

LEMMA LockStep == TypeOK /\ LockInv /\ [Next]_vars => LockInv'
<1> SUFFICES ASSUME TypeOK, LockInv, [Next]_vars PROVE LockInv'
  OBVIOUS
<1>1. ASSUME NEW n \in Node, Pass(n) PROVE LockInv'
  <2>1. CASE KillSwitchPre(n) \/ Window(n) \/ ClusterPre(n) \/ CooldownStatus(n)
    BY <2>1, GateLock DEF KillSwitchPre, Window, ClusterPre, CooldownStatus, UnderLock
  <2>2. CASE KillSwitchPost(n) \/ ClusterPost(n) \/ DetectPost(n)
    BY <2>2, GateLock DEF KillSwitchPost, ClusterPost, DetectPost, UnderLock
  <2>3. CASE Monitor(n) \/ HealthPre(n) \/ HealthPost(n)
    BY <2>3, RunScriptLock DEF Monitor, HealthPre, HealthPost, UnderLock
  <2>4. CASE PublishMonitor(n) \/ PublishPre(n) \/ PublishPost(n)
    BY <2>4, PublishLock DEF PublishMonitor, PublishPre, PublishPost, UnderLock
  <2>5. CASE DetectPre(n) \/ NextPass(n) \/ StartCooldown(n)
    <3>1. PICK next : pc' = [pc EXCEPT ![n] = next] /\ (pc[n] \in UnderLock <=> next \in UnderLock)
      BY <2>5 DEF DetectPre, NextPass, StartCooldown, Move, UnderLock
    <3>2. UNCHANGED <<lock, lapses>>
      BY <2>5 DEF DetectPre, NextPass, StartCooldown, world
    <3>. QED BY <3>1, <3>2, StaysOnItsSide
  <2>6. CASE Contended(n)
    <3>1. PICK next : pc' = [pc EXCEPT ![n] = next] /\ (pc[n] \in UnderLock <=> next \in UnderLock)
      BY <2>6 DEF Contended, Move, UnderLock
    <3>2. UNCHANGED <<lock, lapses>>
      BY <2>6 DEF Contended, world
    <3>. QED BY <3>1, <3>2, StaysOnItsSide
  <2>7. CASE AcquireLock(n)
    <3>1. LeaseHeldOnlyUnderLock'
      BY <2>7 DEF AcquireLock, Move, Grant, TypeOK, LockInv, LeaseHeldOnlyUnderLock, UnderLock
    <3>2. Intruders' \subseteq Intruders /\ lapses' = lapses
      BY <2>7, ClusterAssumption DEF AcquireLock, Grant, TypeOK, LockTypeOK, Intruders, world
    <3>3. LeasesLapsed'
      BY <3>2, NoNewIntruder DEF LockInv
    <3>. QED BY <3>1, <3>3 DEF LockInv
  <2>8. CASE FinishDryRun(n) \/ Execute(n)
    BY <2>8, LeavesTheLock DEF FinishDryRun, Execute, Move, UnderLock, world
  <2>. QED BY <1>1, <2>1, <2>2, <2>3, <2>4, <2>5, <2>6, <2>7, <2>8 DEF Pass
<1>2. ASSUME NEW n \in Node, Trouble(n) PROVE LockInv'
  <2>1. CASE StepFails(n) \/ StartCooldownFails(n) \/ ExecuteFails(n)
    BY <2>1, LeavesTheLock DEF StepFails, StartCooldownFails, ExecuteFails, Move, UnderLock, world
  <2>2. CASE Stop(n)
    BY <2>2, StaysOnItsSide DEF Stop, Move, UnderLock, world
  <2>3. CASE Crash(n)
    BY <2>3, LeavesTheLock DEF Crash, Reset, LeaseLeftBehind, GiveBack, UnderLock, world
  <2>. QED BY <1>2, <2>1, <2>2, <2>3 DEF Trouble
<1>3. ASSUME NEW n \in Node, BeatScript(n) \/ BeatPublish(n) PROVE LockInv'
  BY <1>3 DEF BeatScript, BeatPublish, LockInv, LeaseHeldOnlyUnderLock, LeasesLapsed,
              Intruders, lock, main, world
<1>4. ASSUME NEW n \in Node, ServiceStart(n) PROVE LockInv'
  BY <1>4, StaysOnItsSide DEF ServiceStart, Move, UnderLock, world
<1>5. ASSUME NEW n \in Node, MachineUp(n) PROVE LockInv'
  BY <1>5, LeavesTheLock DEF MachineUp, Reset, LeaseLeftBehind, GiveBack, UnderLock
<1>6. CASE LeaseTTL
  <2>1. LeaseHeldOnlyUnderLock' /\ lapses' = lapses
    BY <1>6 DEF LeaseTTL, Expire, LockInv, LeaseHeldOnlyUnderLock, main, world
  <2>2. Intruders' \subseteq Intruders
    BY <1>6 DEF LeaseTTL, Expire, Intruders
  <2>. QED BY <2>1, <2>2, NoNewIntruder DEF LockInv
<1>7. CASE LeaseLapses
  <2>1. LeaseHeldOnlyUnderLock'
    BY <1>7 DEF LeaseLapses, Expire, LockInv, LeaseHeldOnlyUnderLock, main
  <2>2. Intruders' = Intruders \cup {holder} /\ holder \notin Intruders
    BY <1>7, ClusterAssumption DEF LeaseLapses, Expire, TypeOK, LockTypeOK, Intruders
  <2>3. IsFiniteSet(Intruders) /\ Cardinality(Intruders) \in Nat
    BY IntrudersAreFinite
  <2>4. Cardinality(Intruders') = Cardinality(Intruders) + 1
    BY <2>2, <2>3, FS_AddElement
  <2>5. lapses' = lapses + 1 /\ lapses \in Int
    BY <1>7 DEF LeaseLapses, TypeOK
  <2>6. LeasesLapsed'
    BY <2>3, <2>4, <2>5 DEF LockInv, LeasesLapsed
  <2>. QED BY <2>1, <2>6 DEF LockInv
<1>8. CASE StrayTTL \/ MarkerExpires \/ Flip
  BY <1>8 DEF StrayTTL, MarkerExpires, Flip, LockInv, LeaseHeldOnlyUnderLock, LeasesLapsed, Intruders,
              lock, main, world
<1>9. CASE UNCHANGED vars
  BY <1>9 DEF vars, LockInv, LeaseHeldOnlyUnderLock, LeasesLapsed, Intruders
<1>. QED BY <1>1, <1>2, <1>3, <1>4, <1>5, <1>6, <1>7, <1>8, <1>9 DEF Next, NodeNext

(* No return path leaks the lease, and none is used after it was given up,   *)
(* in a cluster of any size and with any number of failures.                 *)
THEOREM NoLeaseLeak == Spec => []LeaseHeldOnlyUnderLock
<1>1. LockInv => LeaseHeldOnlyUnderLock
  BY DEF LockInv
<1>. QED BY <1>1, LockInvInit, TypeCorrect, LockStep, PTL DEF Spec

(* The locked section is exclusive, but for the leases lost by live          *)
(* processes, one node each.                                                 *)
THEOREM Exclusion == Spec => []LockedSectionExclusive
<1>1. TypeOK /\ LockInv => LockedSectionExclusive
  <2>1. LeaseHeldOnlyUnderLock => {n \in Node : pc[n] \in UnderLock /\ n # holder}
                                     = {n \in Node : n \in held /\ n # holder}
    BY DEF LeaseHeldOnlyUnderLock
  <2>2. TypeOK => {n \in Node : n \in held /\ n # holder} = Intruders
    BY DEF TypeOK, LockTypeOK, Intruders
  <2>. QED BY <2>1, <2>2 DEF LockInv, LeasesLapsed, LockedSectionExclusive
<1>. QED BY <1>1, LockInvInit, TypeCorrect, LockStep, PTL DEF Spec

-----------------------------------------------------------------------------
(* Who reboots.  To the lock every step is one of LeaseLock's, so the holder *)
(* never changes at once from one node to another; and a node whose machine  *)
(* goes down had a lease in hand when it said so.                            *)
LEMMA LockMoves ==
  ASSUME [Next]_vars
  PROVE  [LockNext]_lockVars
<1>. USE DEF LockNext, lockVars, lock
<1>1. ASSUME NEW n \in Node, Pass(n) PROVE [LockNext]_lockVars
  <2>1. CASE \/ KillSwitchPre(n) \/ Window(n) \/ ClusterPre(n) \/ CooldownStatus(n)
             \/ KillSwitchPost(n) \/ ClusterPost(n) \/ DetectPost(n)
    BY <2>1 DEF KillSwitchPre, Window, ClusterPre, CooldownStatus,
                KillSwitchPost, ClusterPost, DetectPost, Gate, GiveBackOrFail, GiveBack
  <2>2. CASE Monitor(n) \/ HealthPre(n) \/ HealthPost(n)
    BY <2>2 DEF Monitor, HealthPre, HealthPost, RunScript
  <2>3. CASE PublishMonitor(n) \/ PublishPre(n) \/ PublishPost(n)
    BY <2>3 DEF PublishMonitor, PublishPre, PublishPost, Publish, GiveBackOrFail, GiveBack
  <2>4. CASE DetectPre(n) \/ AcquireLock(n) \/ Contended(n) \/ NextPass(n)
    BY <2>4 DEF DetectPre, AcquireLock, Contended, NextPass
  <2>5. CASE FinishDryRun(n) \/ StartCooldown(n) \/ Execute(n)
    BY <2>5 DEF FinishDryRun, StartCooldown, Execute, GiveBack
  <2>. QED BY <1>1, <2>1, <2>2, <2>3, <2>4, <2>5 DEF Pass
<1>2. ASSUME NEW n \in Node, Trouble(n) PROVE [LockNext]_lockVars
  BY <1>2 DEF Trouble, StepFails, StartCooldownFails, ExecuteFails, Stop, Crash,
              GiveBack, LeaseLeftBehind
<1>3. ASSUME NEW n \in Node, BeatScript(n) \/ BeatPublish(n) \/ ServiceStart(n) \/ MachineUp(n)
      PROVE  [LockNext]_lockVars
  BY <1>3 DEF BeatScript, BeatPublish, ServiceStart, MachineUp, LeaseLeftBehind
<1>4. CASE LeaseTTL \/ LeaseLapses \/ StrayTTL \/ MarkerExpires \/ Flip
  BY <1>4 DEF LeaseTTL, LeaseLapses, StrayTTL, MarkerExpires, Flip
<1>5. CASE UNCHANGED vars
  BY <1>5 DEF vars
<1>. QED BY <1>1, <1>2, <1>3, <1>4, <1>5 DEF Next, NodeNext

(* The cluster uses the lock as its interface allows, and no other way.      *)
THEOREM ClusterUsesTheLock == Spec => LockSpec
<1>1. Init => LockInit
  BY DEF Init
<1>2. [Next]_vars => [LockNext]_lockVars
  BY LockMoves
<1>. QED BY <1>1, <1>2, PTL DEF Spec, LockSpec

LEMMA LapsesStay ==
  ASSUME TypeOK, [Next]_vars, lapses' = 0
  PROVE  lapses = 0
<1>1. ASSUME NEW n \in Node, NodeNext(n) PROVE UNCHANGED lapses
  <2>1. CASE Pass(n)
    <3>. USE DEF world
    <3>1. CASE \/ KillSwitchPre(n) \/ Window(n) \/ ClusterPre(n) \/ CooldownStatus(n)
               \/ KillSwitchPost(n) \/ ClusterPost(n) \/ DetectPost(n)
      BY <3>1 DEF KillSwitchPre, Window, ClusterPre, CooldownStatus,
                  KillSwitchPost, ClusterPost, DetectPost, Gate
    <3>2. CASE Monitor(n) \/ HealthPre(n) \/ HealthPost(n)
      BY <3>2 DEF Monitor, HealthPre, HealthPost, RunScript
    <3>3. CASE PublishMonitor(n) \/ PublishPre(n) \/ PublishPost(n)
      BY <3>3 DEF PublishMonitor, PublishPre, PublishPost, Publish
    <3>. QED BY <2>1, <3>1, <3>2, <3>3
         DEF Pass, DetectPre, AcquireLock, Contended, FinishDryRun, StartCooldown, Execute, NextPass
  <2>2. CASE Trouble(n)
    BY <2>2 DEF Trouble, StepFails, StartCooldownFails, ExecuteFails, Stop, Crash, world
  <2>. QED BY <1>1, <2>1, <2>2 DEF NodeNext, BeatScript, BeatPublish, ServiceStart, MachineUp, world
<1>2. CASE LeaseLapses
  BY <1>2 DEF LeaseLapses, TypeOK
<1>. QED BY <1>1, <1>2 DEF Next, LeaseTTL, StrayTTL, MarkerExpires, Flip, world, vars

LEMMA MachinesGoDown ==
  ASSUME TypeOK, LockInv, [Next]_vars
  PROVE  \/ rebooting' \subseteq rebooting
         \/ \E n \in held : rebooting' = rebooting \cup {n} /\ holder' \in {holder, NoNode}
<1>1. ASSUME NEW n \in Node, Execute(n) \/ ExecuteFails(n) \/ Crash(n)
      PROVE  \/ rebooting' \subseteq rebooting
             \/ n \in held /\ rebooting' = rebooting \cup {n} /\ holder' \in {holder, NoNode}
  <2>1. pc[n] = "exec" => n \in held
    BY DEF LockInv, LeaseHeldOnlyUnderLock, UnderLock
  <2>2. rebooting' = rebooting \/ (pc[n] = "exec" /\ rebooting' = rebooting \cup {n})
    BY <1>1 DEF Execute, ExecuteFails, Crash, Move
  <2>3. holder' \in {holder, NoNode}
    BY <1>1 DEF Execute, ExecuteFails, Crash, GiveBack, LeaseLeftBehind, Release, Abandon, lock
  <2>. QED BY <2>1, <2>2, <2>3
<1>2. ASSUME NEW n \in Node, Pass(n), ~Execute(n) PROVE rebooting' = rebooting
  <2>1. CASE \/ KillSwitchPre(n) \/ Window(n) \/ ClusterPre(n) \/ CooldownStatus(n)
             \/ KillSwitchPost(n) \/ ClusterPost(n) \/ DetectPost(n)
    BY <2>1 DEF KillSwitchPre, Window, ClusterPre, CooldownStatus,
                KillSwitchPost, ClusterPost, DetectPost, Gate
  <2>2. CASE Monitor(n) \/ HealthPre(n) \/ HealthPost(n)
    BY <2>2 DEF Monitor, HealthPre, HealthPost, RunScript
  <2>3. CASE PublishMonitor(n) \/ PublishPre(n) \/ PublishPost(n)
    BY <2>3 DEF PublishMonitor, PublishPre, PublishPost, Publish
  <2>. QED BY <1>2, <2>1, <2>2, <2>3
       DEF Pass, DetectPre, AcquireLock, Contended, FinishDryRun, StartCooldown, NextPass
<1>3. ASSUME NEW n \in Node, \/ StepFails(n) \/ StartCooldownFails(n) \/ Stop(n)
                             \/ BeatScript(n) \/ BeatPublish(n) \/ ServiceStart(n) \/ MachineUp(n)
      PROVE  rebooting' \subseteq rebooting
  BY <1>3 DEF StepFails, StartCooldownFails, Stop, BeatScript, BeatPublish, ServiceStart, MachineUp
<1>4. CASE LeaseTTL \/ LeaseLapses \/ StrayTTL \/ MarkerExpires \/ Flip \/ UNCHANGED vars
  BY <1>4 DEF LeaseTTL, LeaseLapses, StrayTTL, MarkerExpires, Flip, vars
<1>. QED BY <1>1, <1>2, <1>3, <1>4 DEF Next, NodeNext, Trouble

LEMMA HolderReboots ==
  ASSUME TypeOK, LockInv, [Next]_vars, rebooting \subseteq {holder},
         lapses' = 0, rebooting' # {} => holder' # NoNode
  PROVE  rebooting' \subseteq {holder'}
<1>1. holder' = holder \/ holder' = NoNode \/ holder = NoNode
  BY LockMoves DEF LockNext, lockVars, Grant, Release, Abandon, Expire
<1>2. rebooting \subseteq Node
  BY DEF TypeOK
<1>3. CASE rebooting' \subseteq rebooting
  BY <1>1, <1>2, <1>3, ClusterAssumption
<1>4. ASSUME NEW n \in held, rebooting' = rebooting \cup {n}, holder' \in {holder, NoNode}
      PROVE  rebooting' \subseteq {holder'}
  <2>1. lapses = 0
    BY LapsesStay
  <2>2. Intruders = {}
    BY <2>1, IntrudersAreFinite, FS_EmptySet DEF LockInv, LeasesLapsed
  <2>3. n = holder
    BY <1>4, <2>2 DEF Intruders
  <2>4. holder' = holder
    BY <1>4
  <2>. QED BY <1>4, <2>3, <2>4
<1>. QED BY <1>3, <1>4, MachinesGoDown

(* While leases last, the machine that is away is the lock holder's.         *)
THEOREM HolderIsAway == Spec => OnlyTheHolderReboots
<1>1. TypeOK /\ LockInv /\ [Next]_vars
        => (/\ rebooting \subseteq {holder}
            /\ lapses' = 0 /\ (rebooting' # {} => holder' # NoNode)
            => rebooting' \subseteq {holder'})
  BY HolderReboots
<1>. QED BY <1>1, LockInvInit, TypeCorrect, LockStep, PTL DEF Spec, OnlyTheHolderReboots

(* What the lock would have to do for the documents' promise: if no live     *)
(* process lost its lease, and the one left behind by a reboot command       *)
(* outlasted the reboot, no two machines would be away at the same time.     *)
LeasesLast == lapses = 0 /\ (rebooting # {} => holder # NoNode)

THEOREM LastingLeasesSuffice == Spec /\ []LeasesLast => []NoParallelReboots
<1>. DEFINE Away == rebooting \subseteq {holder}
<1>1. Init => Away
  BY DEF Init
<1>2. TypeOK /\ LockInv /\ LeasesLast' /\ Away /\ [Next]_vars => Away'
  BY HolderReboots DEF LeasesLast
<1>3. Away => NoParallelReboots
  <2>1. SUFFICES ASSUME Away PROVE NoParallelReboots
    OBVIOUS
  <2>2. rebooting = {} \/ rebooting = {holder}
    BY <2>1
  <2>3. Cardinality(rebooting) \in {0, 1}
    BY <2>2, FS_EmptySet, FS_Singleton
  <2>. QED BY <2>3 DEF NoParallelReboots
<1>. HIDE DEF Away
<1>. QED BY <1>1, <1>2, <1>3, LockInvInit, TypeCorrect, LockStep, PTL DEF Spec

(* Likewise for the promise that a reboot command is invoked under the lock: *)
(* lapses alone break it.                                                    *)
THEOREM LapsesAloneBreakTheLock == Spec /\ [](lapses = 0) => CommandsUnderTheLock
<1>1. TypeOK /\ LockInv /\ lapses = 0
        => [\A n \in Node : pc[n] = "ready" /\ pc'[n] = "exec" => holder \in {n, NoNode}]_vars
  <2>1. SUFFICES ASSUME TypeOK, LockInv, lapses = 0, NEW n \in Node, pc[n] = "ready"
                 PROVE  holder = n
    OBVIOUS
  <2>2. n \in held
    BY <2>1 DEF LockInv, LeaseHeldOnlyUnderLock, UnderLock
  <2>3. Intruders = {}
    BY <2>1, IntrudersAreFinite, FS_EmptySet DEF LockInv, LeasesLapsed
  <2>. QED BY <2>2, <2>3 DEF Intruders
<1>. QED BY <1>1, LockInvInit, TypeCorrect, LockStep, PTL DEF Spec, CommandsUnderTheLock

-----------------------------------------------------------------------------
(* Who leaves the lock to its TTL.  A step that takes the holder's lease out *)
(* of its hand and leaves it honoured is an Abandon of the holder's.         *)
LEMMA AbandonedByTheHolder ==
  ASSUME TypeOK, NEW n \in Node, GiveBack(n) \/ Abandon(n) \/ LeaseLeftBehind(n),
         holder \in held, holder' = holder, holder \notin held'
  PROVE  holder = n /\ Abandon(n)
BY ClusterAssumption DEF TypeOK, LockTypeOK, GiveBack, LeaseLeftBehind, Release, Abandon, lock

LEMMA FaultsGrow == TypeOK /\ Fault => faults' > faults
  BY DEF TypeOK, Fault

(* Nobody waits for a TTL but behind a reboot or a fault.                    *)
THEOREM LockFreed == Spec => LockIsFreed
<1>1. ASSUME TypeOK, [Next]_vars, holder \in held, holder' = holder, holder \notin held'
      PROVE  faults' > faults \/ holder \in rebooting \cup rebooting'
  <2>0. ~UNCHANGED lock
    BY <1>1 DEF lock
  <2>1. ASSUME NEW n \in Node, Pass(n) PROVE faults' > faults \/ holder \in rebooting'
    <3>1. ~(GiveBack(n) \/ UNCHANGED lock)
      BY <1>1, <2>0, ClusterAssumption DEF GiveBack, Release, TypeOK, LockTypeOK, lock
    <3>2. CASE Execute(n)
      BY <1>1, <3>2, AbandonedByTheHolder DEF Execute
    <3>3. CASE \/ KillSwitchPre(n) \/ Window(n) \/ ClusterPre(n) \/ CooldownStatus(n)
               \/ KillSwitchPost(n) \/ ClusterPost(n) \/ DetectPost(n)
      <4>1. Fault
        BY <3>1, <3>3 DEF KillSwitchPre, Window, ClusterPre, CooldownStatus,
                          KillSwitchPost, ClusterPost, DetectPost, Gate, GiveBackOrFail, lock
      <4>. QED BY <1>1, <4>1, FaultsGrow
    <3>4. CASE PublishMonitor(n) \/ PublishPre(n) \/ PublishPost(n)
      <4>1. Fault
        BY <3>1, <3>4 DEF PublishMonitor, PublishPre, PublishPost, Publish, GiveBackOrFail, lock
      <4>. QED BY <1>1, <4>1, FaultsGrow
    <3>5. CASE FinishDryRun(n)
      BY <1>1, <3>1, <3>5, FaultsGrow DEF FinishDryRun
    <3>6. CASE Monitor(n) \/ HealthPre(n) \/ HealthPost(n)
      BY <2>0, <3>6 DEF Monitor, HealthPre, HealthPost, RunScript
    <3>7. CASE AcquireLock(n)
      BY <1>1, <3>7, ClusterAssumption DEF AcquireLock, Grant, TypeOK, LockTypeOK
    <3>. QED BY <2>0, <2>1, <3>2, <3>3, <3>4, <3>5, <3>6, <3>7
         DEF Pass, DetectPre, Contended, StartCooldown, NextPass
  <2>2. ASSUME NEW n \in Node, Trouble(n) PROVE faults' > faults
    <3>1. Fault
      BY <2>2 DEF Trouble, StepFails, StartCooldownFails, ExecuteFails, Stop, Crash
    <3>. QED BY <1>1, <3>1, FaultsGrow
  <2>3. ASSUME NEW n \in Node, MachineUp(n) PROVE holder \in rebooting
    BY <1>1, <2>3, AbandonedByTheHolder DEF MachineUp
  <2>4. ASSUME NEW n \in Node, BeatScript(n) \/ BeatPublish(n) \/ ServiceStart(n) PROVE FALSE
    BY <2>0, <2>4 DEF BeatScript, BeatPublish, ServiceStart
  <2>5. CASE LeaseTTL \/ LeaseLapses
    BY <1>1, <2>5 DEF LeaseTTL, LeaseLapses, Expire
  <2>6. CASE StrayTTL \/ MarkerExpires \/ Flip \/ UNCHANGED vars
    BY <2>0, <2>6 DEF StrayTTL, MarkerExpires, Flip, vars, lock
  <2>. QED BY <1>1, <2>1, <2>2, <2>3, <2>4, <2>5, <2>6 DEF Next, NodeNext
<1>2. TypeOK /\ [Next]_vars
        => [/\ holder \in held
             /\ holder' = holder /\ holder \notin held'
             => faults' > faults \/ holder \in rebooting \cup rebooting']_vars
  BY <1>1
<1>. QED BY <1>2, TypeCorrect, PTL DEF Spec, LockIsFreed

-----------------------------------------------------------------------------
(* Freshness.  Each gate a node has passed in its pass is on record: under   *)
(* the lock in clear, for the gates read once in seen; and a script result   *)
(* that is about to be published came from a machine that was fit.           *)

Fresh(n) ==
  /\ pc[n] \in {"cluster2", "detect2", "health2", "publish2", "ready", "exec"} => "kill" \in clear[n]
  /\ pc[n] \in {"detect2", "health2", "publish2", "ready", "exec"} => "cluster" \in clear[n]
  /\ pc[n] \in {"health2", "publish2", "ready", "exec"} => "detect" \in clear[n]
  /\ pc[n] \in {"ready", "exec"} => "health" \in clear[n]
  /\ pc[n] = "publish2" /\ script[n] = "healthy" => "health" \in clear[n]
  /\ pc[n] \in InPass \ {"window"} => "window" \in seen[n]
  /\ pc[n] \in {"lock"} \cup UnderLock => "cooldown" \in seen[n]

FreshInv == \A n \in Node : Fresh(n)

(* What Track records: the histories grow while the node stays in the locked *)
(* section, or in the pass, and take in every gate that is open now.         *)
LEMMA TrackRecords ==
  ASSUME TypeOK, Track, NEW n \in Node
  PROVE  /\ pc[n] \in UnderLock /\ pc'[n] \in UnderLock => clear[n] \subseteq clear'[n]
         /\ \A g \in Gates : pc'[n] \in UnderLock /\ Passes(n, g)' => g \in clear'[n]
         /\ pc[n] \in InPass /\ pc'[n] \in InPass => seen[n] \subseteq seen'[n]
         /\ \A g \in OnceGates : pc'[n] \in InPass /\ Passes(n, g)' => g \in seen'[n]
<1>1. OnceGates \subseteq Gates
  BY DEF OnceGates, Gates
<1>. QED BY <1>1 DEF TypeOK, Track, PassedNow

LEMMA FreshElsewhere ==
  ASSUME TypeOK, Track, NEW m \in Node, Fresh(m),
         pc'[m] = pc[m], script'[m] = script[m]
  PROVE  Fresh(m)'
<1>1. pc[m] \in UnderLock => clear[m] \subseteq clear'[m]
  BY TrackRecords
<1>2. pc[m] \in InPass => seen[m] \subseteq seen'[m]
  BY TrackRecords
<1>. QED BY <1>1, <1>2 DEF Fresh, UnderLock, InPass, BeforeLock

(* A node that is between two passes, or begins one, has passed no gate.     *)
LEMMA FreshOutside ==
  ASSUME NEW n \in Node, pc'[n] \in {"kill1", "pause", "exited"}
  PROVE  Fresh(n)'
  BY DEF Fresh, UnderLock, InPass, BeforeLock

LEMMA GatesStay ==
  ASSUME NEW n \in Node, NEW g \in Gates, UNCHANGED <<world, marker, rec>>, Passes(n, g)
  PROVE  Passes(n, g)'
  BY DEF Passes, checkKill, requiresReboot, scriptPasses, cooldownActive, world, Gates

LEMMA FreshInvInit == Init => FreshInv
  BY DEF Init, FreshInv, Fresh, UnderLock, InPass, BeforeLock

LEMMA GateFresh ==
  ASSUME TypeOK, FreshInv, NEW n \in Node,
         \/ KillSwitchPre(n) \/ Window(n) \/ ClusterPre(n) \/ CooldownStatus(n)
         \/ KillSwitchPost(n) \/ ClusterPost(n) \/ DetectPost(n)
  PROVE  FreshInv'
<1>. USE DEF KillSwitchPre, Window, ClusterPre, CooldownStatus, KillSwitchPost, ClusterPost, DetectPost
<1>0. Track /\ UNCHANGED <<script, world, marker, rec>>
  BY DEF Gate
<1>1. ASSUME NEW m \in Node \ {n} PROVE Fresh(m)'
  <2>1. pc'[m] = pc[m] /\ script'[m] = script[m]
    BY <1>0 DEF Gate, Move, TypeOK
  <2>. QED BY <1>0, <2>1, FreshElsewhere DEF FreshInv
<1>2. Fresh(n)'
  <2>1. CASE pc'[n] = "pause"
    BY <2>1, FreshOutside
  <2>2. CASE pc'[n] # "pause"
    <3>1. \/ pc[n] = "kill1" /\ pc'[n] = "window"
          \/ pc[n] = "window" /\ pc'[n] = "detect1" /\ Passes(n, "window")
          \/ pc[n] = "cluster1" /\ pc'[n] = "health1"
          \/ pc[n] = "cooldown" /\ pc'[n] = "lock" /\ Passes(n, "cooldown")
          \/ pc[n] = "kill2" /\ pc'[n] = "cluster2" /\ Passes(n, "kill")
          \/ pc[n] = "cluster2" /\ pc'[n] = "detect2" /\ Passes(n, "cluster")
          \/ pc[n] = "detect2" /\ pc'[n] = "health2" /\ Passes(n, "detect")
      BY <2>2 DEF Gate, Move, TypeOK
    <3>2. \A g \in Gates : Passes(n, g) => Passes(n, g)'
      BY <1>0, GatesStay
    <3>3. Fresh(n)
      BY DEF FreshInv
    <3>. QED BY <1>0, <3>1, <3>2, <3>3, TrackRecords
         DEF Fresh, UnderLock, InPass, BeforeLock, Gates, OnceGates
  <2>. QED BY <2>1, <2>2
<1>. QED BY <1>1, <1>2 DEF FreshInv

LEMMA ScriptFresh ==
  ASSUME TypeOK, FreshInv, NEW n \in Node,
         Monitor(n) \/ HealthPre(n) \/ HealthPost(n)
  PROVE  FreshInv'
<1>. USE DEF Monitor, HealthPre, HealthPost
<1>0. Track /\ UNCHANGED <<world, marker, rec>>
  BY DEF RunScript
<1>1. ASSUME NEW m \in Node \ {n} PROVE Fresh(m)'
  <2>1. pc'[m] = pc[m] /\ script'[m] = script[m]
    BY DEF RunScript, Move, TypeOK
  <2>. QED BY <1>0, <2>1, FreshElsewhere DEF FreshInv
<1>2. Fresh(n)'
  <2>1. \/ pc[n] = "monitor" /\ pc'[n] = "publish0"
        \/ pc[n] = "health1" /\ pc'[n] = "publish1"
        \/ pc[n] = "health2" /\ pc'[n] = "publish2"
    BY DEF RunScript, Move, TypeOK
  <2>2. script'[n] = "healthy" => Passes(n, "health")'
    <3>1. script'[n] = "healthy" => n \in fit
      BY DEF RunScript, Result, scriptPasses, TypeOK
    <3>. QED BY <1>0, <3>1 DEF Passes, scriptPasses, world
  <2>3. Fresh(n)
    BY DEF FreshInv
  <2>. QED BY <1>0, <2>1, <2>2, <2>3, TrackRecords
       DEF Fresh, UnderLock, InPass, BeforeLock, Gates, OnceGates
<1>. QED BY <1>1, <1>2 DEF FreshInv

LEMMA PublishFresh ==
  ASSUME TypeOK, FreshInv, NEW n \in Node,
         PublishMonitor(n) \/ PublishPre(n) \/ PublishPost(n)
  PROVE  FreshInv'
<1>. USE DEF PublishMonitor, PublishPre, PublishPost
<1>0. Track
  BY DEF Publish
<1>1. ASSUME NEW m \in Node \ {n} PROVE Fresh(m)'
  <2>1. pc'[m] = pc[m] /\ script'[m] = script[m]
    BY DEF Publish, Move, TypeOK
  <2>. QED BY <1>0, <2>1, FreshElsewhere DEF FreshInv
<1>2. Fresh(n)'
  <2>1. CASE pc'[n] = "pause"
    BY <2>1, FreshOutside
  <2>2. CASE pc'[n] # "pause"
    <3>1. \/ pc[n] = "publish1" /\ pc'[n] = "cooldown"
          \/ pc[n] = "publish1" /\ pc'[n] = "lock" /\ ~CooldownOn
          \/ pc[n] = "publish2" /\ pc'[n] = "ready" /\ script[n] = "healthy"
      BY <2>2 DEF Publish, Move, TypeOK
    <3>2. ~CooldownOn => Passes(n, "cooldown")'
      BY DEF Passes, cooldownActive
    <3>3. Fresh(n)
      BY DEF FreshInv
    <3>. QED BY <1>0, <3>1, <3>2, <3>3, TrackRecords
         DEF Fresh, UnderLock, InPass, BeforeLock, Gates, OnceGates
  <2>. QED BY <2>1, <2>2
<1>. QED BY <1>1, <1>2 DEF FreshInv

(* A node that stops being in a pass: the others keep their records.         *)
LEMMA LeavesFresh ==
  ASSUME TypeOK, FreshInv, Track, NEW n \in Node,
         NEW next \in {"kill1", "pause", "exited"}, pc' = [pc EXCEPT ![n] = next],
         \A m \in Node \ {n} : script'[m] = script[m]
  PROVE  FreshInv'
<1>1. pc'[n] = next /\ \A m \in Node \ {n} : pc'[m] = pc[m]
  BY DEF TypeOK
<1>2. Fresh(n)'
  BY <1>1, FreshOutside
<1>3. ASSUME NEW m \in Node \ {n} PROVE Fresh(m)'
  BY <1>1, <1>3, FreshElsewhere DEF FreshInv
<1>. QED BY <1>2, <1>3 DEF FreshInv

LEMMA FreshStep == TypeOK /\ FreshInv /\ [Next]_vars => FreshInv'
<1> SUFFICES ASSUME TypeOK, FreshInv, [Next]_vars PROVE FreshInv'
  OBVIOUS
<1>1. ASSUME NEW n \in Node, Pass(n) PROVE FreshInv'
  <2>1. CASE \/ KillSwitchPre(n) \/ Window(n) \/ ClusterPre(n) \/ CooldownStatus(n)
             \/ KillSwitchPost(n) \/ ClusterPost(n) \/ DetectPost(n)
    BY <2>1, GateFresh
  <2>2. CASE Monitor(n) \/ HealthPre(n) \/ HealthPost(n)
    BY <2>2, ScriptFresh
  <2>3. CASE PublishMonitor(n) \/ PublishPre(n) \/ PublishPost(n)
    BY <2>3, PublishFresh
  <2>4. CASE FinishDryRun(n) \/ Execute(n) \/ NextPass(n)
    BY <2>4, LeavesFresh DEF FinishDryRun, Execute, NextPass, Move
  <2>5. CASE DetectPre(n) \/ AcquireLock(n) \/ Contended(n) \/ StartCooldown(n)
    <3>0. Track /\ UNCHANGED script
      BY <2>5 DEF DetectPre, AcquireLock, Contended, StartCooldown
    <3>1. ASSUME NEW m \in Node \ {n} PROVE Fresh(m)'
      <4>1. pc'[m] = pc[m]
        BY <2>5 DEF DetectPre, AcquireLock, Contended, StartCooldown, Move, TypeOK
      <4>. QED BY <3>0, <4>1, FreshElsewhere DEF FreshInv
    <3>2. Fresh(n)'
      <4>1. \/ pc[n] = "detect1" /\ pc'[n] \in {"cluster1", "monitor"}
            \/ pc[n] = "lock" /\ pc'[n] \in {"kill2", "lock", "pause"}
            \/ pc[n] = "ready" /\ pc'[n] = "exec"
        BY <2>5 DEF DetectPre, AcquireLock, Contended, StartCooldown, Move, TypeOK
      <4>2. Fresh(n)
        BY DEF FreshInv
      <4>. QED BY <3>0, <4>1, <4>2, TrackRecords DEF Fresh, UnderLock, InPass, BeforeLock
    <3>. QED BY <3>1, <3>2 DEF FreshInv
  <2>. QED BY <1>1, <2>1, <2>2, <2>3, <2>4, <2>5 DEF Pass
<1>2. ASSUME NEW n \in Node, Trouble(n) \/ ServiceStart(n) \/ MachineUp(n) PROVE FreshInv'
  <2>1. PICK next \in {"kill1", "pause", "exited"} : pc' = [pc EXCEPT ![n] = next]
    BY <1>2 DEF Trouble, StepFails, StartCooldownFails, ExecuteFails, Stop, Crash,
                ServiceStart, MachineUp, Reset, Move
  <2>2. Track /\ \A m \in Node \ {n} : script'[m] = script[m]
    BY <1>2 DEF Trouble, StepFails, StartCooldownFails, ExecuteFails, Stop, Crash,
                ServiceStart, MachineUp, Reset, TypeOK
  <2>. QED BY <2>1, <2>2, LeavesFresh
<1>3. CASE \/ \E n \in Node : BeatScript(n) \/ BeatPublish(n)
           \/ LeaseTTL \/ LeaseLapses \/ StrayTTL \/ MarkerExpires \/ Flip
  <2>1. Track /\ UNCHANGED <<pc, script>>
    BY <1>3 DEF BeatScript, BeatPublish, LeaseTTL, LeaseLapses, StrayTTL, MarkerExpires, Flip, main
  <2>. QED BY <2>1, FreshElsewhere DEF FreshInv
<1>4. CASE UNCHANGED vars
  BY <1>4 DEF vars, FreshInv, Fresh
<1>. QED BY <1>1, <1>2, <1>3, <1>4 DEF Next, NodeNext

(* Whatever changes around it, a node that starts its reboot command has     *)
(* found each gate open, the rechecked ones since it got the lock.           *)
THEOREM FreshReboots == Spec => []RebootsOnFreshChecks
<1>1. FreshInv => RebootsOnFreshChecks
  BY DEF FreshInv, Fresh, RebootsOnFreshChecks, RecheckedGates, OnceGates, InPass, UnderLock
<1>. QED BY <1>1, FreshInvInit, TypeCorrect, FreshStep, PTL DEF Spec
=============================================================================
