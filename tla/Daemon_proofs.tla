---------------------------- MODULE Daemon_proofs ----------------------------
(* Proofs about one process and its service, for any commands, any number of *)
(* lock attempts, any backoff configuration and any start limit.             *)
EXTENDS Daemon, Backoff_proofs

(* Under the lock no pass comes back to what is checked before it.           *)
PhaseInv == at \in {"window", "cooldown", "session", "lock", "backoff"} => phase # "post-lock"

(* Each place of a script goes with the mutex.                               *)
MutexInv ==
  /\ at = "script" <=> mutex = "main"
  /\ beat = "script" <=> mutex = "beat"
  /\ at \in {"off", "start"} => beat = "off"

(* Before its passes and past the closes the process keeps no lease alive.   *)
ClosedInv == at \in {"start", "stopping", "waiting", "off"} => lease # "kept"

(* Only a ready outcome of a run leads past the loop.                        *)
ReadyInv ==
  /\ at \in {"mark", "exec"} => command = "run" /\ outcome = "ready"
  /\ at = "closing" /\ command \in Daemons /\ ~cancelled => outcome = "ready"

(* What changes the cluster's state runs only where it may.                  *)
TraceInv ==
  /\ beat # "off" => command \in Daemons
  /\ ~Reports \/ at = "off" => ~wrote

(* A backoff follows a lost attempt.                                         *)
TriesInv == at = "backoff" => tries >= 1

(* The answers a decision rests on: every detector has answered, and one     *)
(* asks for a reboot.                                                        *)
AsksForReboot == "reboot" \in heard /\ heard \subseteq {"clear", "reboot"}

(* ... and where the pass is when they are on record: from the detectors to  *)
(* the lock, and again from there to the reboot command.                     *)
HeardInv ==
  /\ phase = "monitor" => at \notin {"off", "start", "kill", "window", "detect", "cluster",
                                    "cooldown", "session", "lock", "backoff", "ready"}
  /\ phase = "monitor" /\ at \in {"health", "script", "publish"} => heard = {"clear"}
  /\ phase = "pre-lock" /\ at \in {"cluster", "health", "script", "publish"} => AsksForReboot
  /\ phase = "post-lock" /\ at \in {"health", "script", "publish"} => AsksForReboot
  /\ at \in {"cooldown", "session", "lock", "backoff", "ready", "mark", "exec"} => AsksForReboot
  /\ at = "decided" /\ outcome = "ready" => AsksForReboot

IInv == /\ TypeOK /\ PhaseInv /\ MutexInv /\ ClosedInv /\ ReadyInv /\ TraceInv /\ TriesInv
        /\ HeardInv

-----------------------------------------------------------------------------
(* The engine, for a list of detectors of any length.                        *)
(* What the loop of Evaluate carries.                                        *)
Verdicts == [requires : BOOLEAN, problems : BOOLEAN, stopped : BOOLEAN]

(* Evaluate's loop, one answer after the other.                              *)
LEMMA LoopByAnswer ==
  ASSUME NEW answers \in Seq(Answers)
  PROVE  \E v :
           /\ v[0] = Unasked
           /\ \A k \in 1 .. Len(answers) : v[k] = Examine(v[k - 1], answers[k])
           /\ FoldLeft(Examine, Unasked, answers) = v[Len(answers)]
<1>. DEFINE n == Len(answers)
            IsLoop(h) == h = [s \in SUBSET (1 .. n) |->
                                IF s = {} THEN Unasked
                                ELSE Examine(h[s \ {Max(s)}], answers[Max(s)])]
            folded == CHOOSE h : IsLoop(h)
            v == [k \in 0 .. n |-> folded[1 .. k]]
<1>1. n \in Nat /\ DOMAIN answers = 1 .. n /\ \A k \in 1 .. n : answers[k] \in Answers
  OBVIOUS
<1>2. FoldLeft(Examine, Unasked, answers) = folded[1 .. n]
  <2>1. FoldLeft(Examine, Unasked, answers)
          = (CHOOSE h : h = [s \in SUBSET (DOMAIN answers) |->
                               IF s = {} THEN Unasked
                               ELSE Examine(h[s \ {Max(s)}], answers[Max(s)])])[DOMAIN answers]
    BY DEF FoldLeft, MapThenFoldSet
  <2>. QED BY <1>1, <2>1
<1>3. IsLoop(folded)
  <2>. DEFINE step == [p \in Verdicts \X Nat |->
                         IF p[2] \in 1 .. n THEN Examine(p[1], answers[p[2]]) ELSE Unasked]
  <2>1. Unasked \in Verdicts /\ step \in [Verdicts \X Nat -> Verdicts]
    BY DEF Verdicts, Unasked, Examine
  <2>2. PICK h \in [SUBSET (1 .. n) -> Verdicts] : Folds(h, n, Unasked, step)
    <3>. HIDE DEF step
    <3>. QED BY <1>1, <2>1, FoldExists
  <2>3. ASSUME NEW s \in SUBSET (1 .. n), s # {}
        PROVE  step[<<h[s \ {Max(s)}], Max(s)>>] = Examine(h[s \ {Max(s)}], answers[Max(s)])
    <3>1. Max(s) \in 1 .. n
      BY <1>1, <2>3, LargestIsMember
    <3>. HIDE DEF step
    <3>2. s \ {Max(s)} \in SUBSET (1 .. n)
      OBVIOUS
    <3>3. h[s \ {Max(s)}] \in Verdicts
      BY <3>2
    <3>4. <<h[s \ {Max(s)}], Max(s)>> \in Verdicts \X Nat
      BY <1>1, <3>1, <3>3
    <3>. QED BY <3>1, <3>4 DEF step
  <2>4. IsLoop(h)
    <3>. HIDE DEF step
    <3>. QED BY <2>2, <2>3 DEF Folds
  <2>. HIDE DEF IsLoop
  <2>. QED BY <2>4
<1>4. v[0] = Unasked
  <2>1. 1 .. 0 = {} /\ {} \in SUBSET (1 .. n)
    OBVIOUS
  <2>2. folded[{}] = Unasked
    <3>. HIDE DEF folded
    <3>. QED BY <1>3
  <2>. QED BY <1>1, <2>1, <2>2
<1>5. ASSUME NEW k \in 1 .. n PROVE v[k] = Examine(v[k - 1], answers[k])
  <2>1. Max(1 .. k) = k /\ (1 .. k) \ {k} = 1 .. k - 1
    BY LargestOfInterval
  <2>2. 1 .. k \in SUBSET (1 .. n) /\ k \in 1 .. k
    BY <1>1
  <2>3. folded[1 .. k] = Examine(folded[1 .. k - 1], answers[k])
    <3>. HIDE DEF folded
    <3>. QED BY <1>3, <2>1, <2>2
  <2>. HIDE DEF folded
  <2>. QED BY <2>3
<1>6. v[n] = folded[1 .. n]
  BY <1>1
<1>. HIDE DEF v
<1>. QED BY <1>2, <1>4, <1>5, <1>6

Heard(answers, k, these) == \E i \in 1 .. k : answers[i] \in these

(* An error anywhere, or a cancelled context, spoils the whole list; without *)
(* one, a single request for a reboot is enough, in any place.               *)
THEOREM WholeListDecides ==
  ASSUME NEW answers \in Seq(Answers)
  PROVE  LET n == Len(answers)
         IN  Evaluate(answers) =
               IF Heard(answers, n, {"error", "cancelled"}) THEN "error"
               ELSE IF Heard(answers, n, {"reboot"}) THEN "reboot" ELSE "clear"
<1>. DEFINE n == Len(answers)
            bad(k) == Heard(answers, k, {"error", "cancelled"})
<1>1. n \in Nat /\ \A k \in 1 .. n : answers[k] \in Answers
  OBVIOUS
<1>2. PICK v : /\ v[0] = Unasked
               /\ \A k \in 1 .. n : v[k] = Examine(v[k - 1], answers[k])
               /\ FoldLeft(Examine, Unasked, answers) = v[n]
  BY LoopByAnswer
<1>. DEFINE S == {k \in Nat : k <= n =>
                    /\ v[k] \in Verdicts
                    /\ v[k].stopped \/ v[k].problems <=> bad(k)
                    /\ ~bad(k) => (v[k].requires <=> Heard(answers, k, {"reboot"}))}
<1>3. 0 \in S
  <2>1. \A these : ~Heard(answers, 0, these)
    BY DEF Heard
  <2>2. v[0] \in Verdicts /\ ~v[0].stopped /\ ~v[0].problems /\ ~v[0].requires
    BY <1>2 DEF Unasked, Verdicts
  <2>. QED BY <2>1, <2>2
<1>4. ASSUME NEW k \in Nat, k \in S PROVE k + 1 \in S
  <2>1. SUFFICES ASSUME k + 1 <= n
                 PROVE  /\ v[k + 1] \in Verdicts
                        /\ v[k + 1].stopped \/ v[k + 1].problems <=> bad(k + 1)
                        /\ ~bad(k + 1) => (v[k + 1].requires <=> Heard(answers, k + 1, {"reboot"}))
    OBVIOUS
  <2>2. k + 1 \in 1 .. n /\ (k + 1) - 1 = k /\ answers[k + 1] \in Answers
    BY <1>1, <2>1
  <2>3. v[k + 1] = Examine(v[k], answers[k + 1])
    BY <1>2, <2>2
  <2>4. \A these : Heard(answers, k + 1, these) <=>
                     Heard(answers, k, these) \/ answers[k + 1] \in these
    <3>1. 1 .. k + 1 = (1 .. k) \cup {k + 1}
      OBVIOUS
    <3>. QED BY <3>1 DEF Heard
  <2>5. /\ v[k] \in Verdicts
        /\ v[k].stopped \/ v[k].problems <=> bad(k)
        /\ ~bad(k) => (v[k].requires <=> Heard(answers, k, {"reboot"}))
    BY <1>1, <1>4, <2>1
  <2>6. CASE v[k].stopped
    <3>1. v[k + 1] = v[k] /\ bad(k) /\ bad(k + 1)
      BY <2>3, <2>4, <2>5, <2>6 DEF Examine
    <3>. QED BY <2>5, <3>1
  <2>7. CASE ~v[k].stopped
    <3>1. /\ v[k + 1].requires = (answers[k + 1] # "cancelled"
                                   /\ (v[k].requires \/ answers[k + 1] = "reboot"))
          /\ v[k + 1].problems = (v[k].problems \/ answers[k + 1] = "error")
          /\ v[k + 1].stopped = (answers[k + 1] = "cancelled")
      BY <2>3, <2>7 DEF Examine
    <3>2. v[k + 1] \in Verdicts
      BY <2>3, <2>7 DEF Examine, Verdicts
    <3>3. bad(k + 1) <=> bad(k) \/ answers[k + 1] \in {"error", "cancelled"}
      BY <2>4
    <3>4. Heard(answers, k + 1, {"reboot"}) <=>
            Heard(answers, k, {"reboot"}) \/ answers[k + 1] = "reboot"
      BY <2>4
    <3>5. v[k + 1].stopped \/ v[k + 1].problems <=> bad(k + 1)
      BY <2>5, <2>7, <3>1, <3>3
    <3>6. ~bad(k + 1) => (v[k + 1].requires <=> Heard(answers, k + 1, {"reboot"}))
      BY <2>5, <3>1, <3>3, <3>4
    <3>. QED BY <3>2, <3>5, <3>6
  <2>. QED BY <2>6, <2>7
<1>5. n \in S
  <2>1. Nat \subseteq S
    <3>. HIDE DEF S
    <3>. QED BY <1>3, <1>4, SetInduction
  <2>. QED BY <1>1, <2>1
<1>6. /\ v[n].stopped \/ v[n].problems <=> bad(n)
      /\ ~bad(n) => (v[n].requires <=> Heard(answers, n, {"reboot"}))
  BY <1>1, <1>5
<1>. QED BY <1>2, <1>6 DEF Evaluate

-----------------------------------------------------------------------------
(* The detectors' answers are answers.                                       *)
LEMMA ProbesAnswer ==
  ASSUME NEW answers \in Probes
  PROVE  /\ {answers[i] : i \in DOMAIN answers} \subseteq Answers
         /\ answers \in Seq(Answers) /\ Len(answers) = 2 /\ DOMAIN answers = 1 .. 2
         /\ \A i \in 1 .. 2 : answers[i] \in Answers
<1>1. PICK s \in Stats, e \in Ends : answers = <<CheckFile(s), CheckCommand(ExitCodes, e)>>
  BY DEF Probes
<1>2. CheckFile(s) \in Answers /\ CheckCommand(ExitCodes, e) \in Answers
  BY DEF CheckFile, CheckCommand, Answers
<1>3. DOMAIN answers = {1, 2} /\ answers[1] = CheckFile(s) /\ answers[2] = CheckCommand(ExitCodes, e)
  BY <1>1
<1>4. 1 .. 2 = {1, 2}
  OBVIOUS
<1>5. answers \in Seq(Answers) /\ Len(answers) = 2
  BY <1>1, <1>2
<1>. QED BY <1>2, <1>3, <1>4, <1>5

(* Where the pass goes on to.                                                *)
LEMMA AfterGates ==
  ASSUME PhaseInv, at \in {"kill", "window", "cluster", "cooldown", "detect", "publish"}
  PROVE  /\ at \in {"kill", "window", "cluster", "cooldown"}
              => After(at) \in {"window", "detect", "cluster", "health", "session"}
         /\ at = "detect" => After(at) \in {"cluster", "health"}
         /\ at = "publish" => After(at) \in {"ready", "cooldown", "session"}
         /\ After(at) \in {"window", "cooldown", "session"} => phase # "post-lock"
BY DEF After, PhaseInv

(* The error backoff keeps its type.                                         *)
LEMMA BackoffType ==
  ASSUME NEW b \in 0 .. ErrorMax
  PROVE  Doubled(b) \in 0 .. ErrorMax
BY ErrorBackoffBounded, BackoffAssumption

-----------------------------------------------------------------------------
LEMMA InitIInv == Init => IInv
<1>. SUFFICES ASSUME Init PROVE IInv
  OBVIOUS
<1>. USE DEF Init, Daemons
<1>1. TypeOK
  <2>1. tries \in 0 .. MaxLockTries - 1 /\ starts \in 0 .. StartLimitBurst
    BY DaemonAssumption
  <2>2. errorBackoff \in 0 .. ErrorMax /\ failures \in 0 .. MaxFailures
    BY DaemonAssumption, BackoffAssumption
  <2>. QED BY <2>1, <2>2 DEF TypeOK, PassPlaces, Children
<1>2. PhaseInv /\ MutexInv /\ ClosedInv /\ ReadyInv /\ TraceInv /\ TriesInv /\ HeardInv
  BY DEF PhaseInv, MutexInv, ClosedInv, ReadyInv, TraceInv, Reports, TriesInv, HeardInv
<1>. QED BY <1>1, <1>2 DEF IInv

(* The phases and the places they go with.                                   *)
LEMMA PhaseStep ==
  ASSUME TypeOK, PhaseInv, [Next]_vars
  PROVE  PhaseInv'
<1>. USE DEF PhaseInv, pass, health, world, loop, outside, elsewhere, Goto, Return,
     ReturnError, GiveBack, Daemons, Reports
<1>1. CASE Gate
  BY <1>1, AfterGates DEF Gate
<1>2. CASE Detect
  BY <1>2, AfterGates DEF Detect
<1>3. CASE LockHealth
  BY <1>3 DEF LockHealth
<1>4. CASE ScriptEnds \/ ScriptFails
  BY <1>4 DEF ScriptEnds, ScriptFails
<1>5. CASE Publish
  BY <1>5, AfterGates DEF Publish
<1>6. CASE NewSession \/ SkipLock \/ BackOff \/ Ready
  BY <1>6 DEF NewSession, SkipLock, BackOff, Ready
<1>7. CASE TryLock
  BY <1>7 DEF TryLock
<1>8. CASE CallFails
  BY <1>8 DEF CallFails
<1>9. CASE Decide
  BY <1>9 DEF Decide, DryRun
<1>10. CASE Failed
  BY <1>10 DEF Failed
<1>11. CASE Sleep \/ FinishOnce
  BY <1>11 DEF Sleep, FinishOnce
<1>12. CASE StartCooldown \/ Execute
  BY <1>12 DEF StartCooldown, Execute
<1>13. CASE Close \/ StopHeartbeat
  BY <1>13 DEF Close, StopHeartbeat
<1>14. CASE End \/ Die
  BY <1>14 DEF End, Die, Gone
<1>15. CASE BeatTop \/ BeatLock \/ BeatScript
  BY <1>15 DEF BeatTop, BeatLock, BeatScript
<1>16. CASE BeatPublish
  BY <1>16 DEF BeatPublish
<1>17. CASE ChildKeepsPipes \/ ChildEnds \/ DetectorsChild \/ EtcdFlips \/ LeaseExpires
  BY <1>17 DEF ChildKeepsPipes, ChildEnds, DetectorsChild, EtcdFlips, LeaseExpires
<1>18. CASE Signal \/ GiveUp \/ IntervalPasses
  BY <1>18 DEF Signal, GiveUp, IntervalPasses
<1>19. CASE Restart \/ OperatorStarts
  <2>1. PICK c : Start(c)
    BY <1>19 DEF Restart, OperatorStarts
  <2>. QED BY <2>1 DEF Start
<1>20. CASE UNCHANGED vars
  BY <1>20 DEF vars
<1>21. CASE Begin \/ BeginFails
  BY <1>21 DEF Begin, BeginFails, Heartbeats
<1>. QED
  BY <1>1, <1>2, <1>3, <1>4, <1>5, <1>6, <1>7, <1>8, <1>9, <1>10, <1>11, <1>12,
     <1>13, <1>14, <1>15, <1>16, <1>17, <1>18, <1>19, <1>20, <1>21
  DEF Next, MainStep, PassStep, LoopStep, ExitStep, BeatStep, Environment, CallCancelled

(* The mutex.                                                                *)
LEMMA MutexStep ==
  ASSUME TypeOK, PhaseInv, MutexInv, [Next]_vars
  PROVE  MutexInv'
<1>. USE DEF MutexInv, pass, health, world, loop, outside, elsewhere, Goto, Return,
     ReturnError, GiveBack, Daemons, Reports
<1>1. CASE Gate
  BY <1>1, AfterGates DEF Gate
<1>2. CASE Detect
  BY <1>2, AfterGates DEF Detect
<1>3. CASE LockHealth
  BY <1>3 DEF LockHealth
<1>4. CASE ScriptEnds \/ ScriptFails
  BY <1>4 DEF ScriptEnds, ScriptFails
<1>5. CASE Publish
  BY <1>5, AfterGates DEF Publish
<1>6. CASE NewSession \/ SkipLock \/ BackOff \/ Ready
  BY <1>6 DEF NewSession, SkipLock, BackOff, Ready
<1>7. CASE TryLock
  BY <1>7 DEF TryLock
<1>8. CASE CallFails
  BY <1>8 DEF CallFails
<1>9. CASE Decide
  BY <1>9 DEF Decide, DryRun
<1>10. CASE Failed
  BY <1>10 DEF Failed
<1>11. CASE Sleep \/ FinishOnce
  BY <1>11 DEF Sleep, FinishOnce
<1>12. CASE StartCooldown \/ Execute
  BY <1>12 DEF StartCooldown, Execute
<1>13. CASE Close \/ StopHeartbeat
  BY <1>13 DEF Close, StopHeartbeat
<1>14. CASE End \/ Die
  BY <1>14 DEF End, Die, Gone
<1>15. CASE BeatTop \/ BeatLock \/ BeatScript
  BY <1>15 DEF BeatTop, BeatLock, BeatScript
<1>16. CASE BeatPublish
  BY <1>16 DEF BeatPublish
<1>17. CASE ChildKeepsPipes \/ ChildEnds \/ DetectorsChild \/ EtcdFlips \/ LeaseExpires
  BY <1>17 DEF ChildKeepsPipes, ChildEnds, DetectorsChild, EtcdFlips, LeaseExpires
<1>18. CASE Signal \/ GiveUp \/ IntervalPasses
  BY <1>18 DEF Signal, GiveUp, IntervalPasses
<1>19. CASE Restart \/ OperatorStarts
  <2>1. PICK c : Start(c)
    BY <1>19 DEF Restart, OperatorStarts
  <2>. QED BY <2>1 DEF Start
<1>20. CASE UNCHANGED vars
  BY <1>20 DEF vars
<1>21. CASE Begin \/ BeginFails
  BY <1>21 DEF Begin, BeginFails, Heartbeats
<1>. QED
  BY <1>1, <1>2, <1>3, <1>4, <1>5, <1>6, <1>7, <1>8, <1>9, <1>10, <1>11, <1>12,
     <1>13, <1>14, <1>15, <1>16, <1>17, <1>18, <1>19, <1>20, <1>21
  DEF Next, MainStep, PassStep, LoopStep, ExitStep, BeatStep, Environment, CallCancelled

(* The lease.                                                                *)
LEMMA ClosedStep ==
  ASSUME TypeOK, PhaseInv, ClosedInv, [Next]_vars
  PROVE  ClosedInv'
<1>. USE DEF ClosedInv, TypeOK, pass, health, world, loop, outside, elsewhere,
     Goto, Return, ReturnError, GiveBack, Daemons, Reports
<1>1. CASE Gate
  BY <1>1, AfterGates DEF Gate
<1>2. CASE Detect
  BY <1>2, AfterGates DEF Detect
<1>3. CASE LockHealth
  BY <1>3 DEF LockHealth
<1>4. CASE ScriptEnds \/ ScriptFails
  BY <1>4 DEF ScriptEnds, ScriptFails
<1>5. CASE Publish
  BY <1>5, AfterGates DEF Publish
<1>6. CASE NewSession \/ SkipLock \/ BackOff \/ Ready
  BY <1>6 DEF NewSession, SkipLock, BackOff, Ready
<1>7. CASE TryLock
  BY <1>7 DEF TryLock
<1>8. CASE CallFails
  BY <1>8 DEF CallFails
<1>9. CASE Decide
  BY <1>9 DEF Decide, DryRun
<1>10. CASE Failed
  BY <1>10 DEF Failed
<1>11. CASE Sleep \/ FinishOnce
  BY <1>11 DEF Sleep, FinishOnce
<1>12. CASE StartCooldown \/ Execute
  BY <1>12 DEF StartCooldown, Execute
<1>13. CASE Close \/ StopHeartbeat
  BY <1>13 DEF Close, StopHeartbeat
<1>14. CASE End \/ Die
  BY <1>14 DEF End, Die, Gone
<1>15. CASE BeatTop \/ BeatLock \/ BeatScript
  BY <1>15 DEF BeatTop, BeatLock, BeatScript
<1>16. CASE BeatPublish
  BY <1>16 DEF BeatPublish
<1>17. CASE ChildKeepsPipes \/ ChildEnds \/ DetectorsChild \/ EtcdFlips \/ LeaseExpires
  BY <1>17 DEF ChildKeepsPipes, ChildEnds, DetectorsChild, EtcdFlips, LeaseExpires
<1>18. CASE Signal \/ GiveUp \/ IntervalPasses
  BY <1>18 DEF Signal, GiveUp, IntervalPasses
<1>19. CASE Restart \/ OperatorStarts
  <2>1. PICK c : Start(c)
    BY <1>19 DEF Restart, OperatorStarts
  <2>. QED BY <2>1 DEF Start
<1>20. CASE UNCHANGED vars
  BY <1>20 DEF vars
<1>21. CASE Begin \/ BeginFails
  BY <1>21 DEF Begin, BeginFails, Heartbeats
<1>. QED
  BY <1>1, <1>2, <1>3, <1>4, <1>5, <1>6, <1>7, <1>8, <1>9, <1>10, <1>11, <1>12,
     <1>13, <1>14, <1>15, <1>16, <1>17, <1>18, <1>19, <1>20, <1>21
  DEF Next, MainStep, PassStep, LoopStep, ExitStep, BeatStep, Environment, CallCancelled

(* The ways out of the loop.                                                 *)
LEMMA ReadyStep ==
  ASSUME TypeOK, PhaseInv, ReadyInv, [Next]_vars
  PROVE  ReadyInv'
<1>. USE DEF ReadyInv, TypeOK, pass, health, world, loop, outside, elsewhere, Goto,
     Return, ReturnError, GiveBack, Daemons, Reports
<1>1. CASE Gate
  BY <1>1, AfterGates DEF Gate
<1>2. CASE Detect
  BY <1>2, AfterGates DEF Detect
<1>3. CASE LockHealth
  BY <1>3 DEF LockHealth
<1>4. CASE ScriptEnds \/ ScriptFails
  BY <1>4 DEF ScriptEnds, ScriptFails
<1>5. CASE Publish
  BY <1>5, AfterGates DEF Publish
<1>6. CASE NewSession \/ SkipLock \/ BackOff \/ Ready
  BY <1>6 DEF NewSession, SkipLock, BackOff, Ready
<1>7. CASE TryLock
  BY <1>7 DEF TryLock
<1>8. CASE CallFails
  BY <1>8 DEF CallFails
<1>9. CASE Decide
  BY <1>9 DEF Decide, DryRun
<1>10. CASE Failed
  BY <1>10 DEF Failed
<1>11. CASE Sleep \/ FinishOnce
  BY <1>11 DEF Sleep, FinishOnce
<1>12. CASE StartCooldown \/ Execute
  BY <1>12 DEF StartCooldown, Execute
<1>13. CASE Close \/ StopHeartbeat
  BY <1>13 DEF Close, StopHeartbeat
<1>14. CASE End \/ Die
  BY <1>14 DEF End, Die, Gone
<1>15. CASE BeatTop \/ BeatLock \/ BeatScript
  BY <1>15 DEF BeatTop, BeatLock, BeatScript
<1>16. CASE BeatPublish
  BY <1>16 DEF BeatPublish
<1>17. CASE ChildKeepsPipes \/ ChildEnds \/ DetectorsChild \/ EtcdFlips \/ LeaseExpires
  BY <1>17 DEF ChildKeepsPipes, ChildEnds, DetectorsChild, EtcdFlips, LeaseExpires
<1>18. CASE Signal \/ GiveUp \/ IntervalPasses
  BY <1>18 DEF Signal, GiveUp, IntervalPasses
<1>19. CASE Restart \/ OperatorStarts
  <2>1. PICK c : Start(c)
    BY <1>19 DEF Restart, OperatorStarts
  <2>. QED BY <2>1 DEF Start
<1>20. CASE UNCHANGED vars
  BY <1>20 DEF vars
<1>21. CASE Begin \/ BeginFails
  BY <1>21 DEF Begin, BeginFails, Heartbeats
<1>. QED
  BY <1>1, <1>2, <1>3, <1>4, <1>5, <1>6, <1>7, <1>8, <1>9, <1>10, <1>11, <1>12,
     <1>13, <1>14, <1>15, <1>16, <1>17, <1>18, <1>19, <1>20, <1>21
  DEF Next, MainStep, PassStep, LoopStep, ExitStep, BeatStep, Environment, CallCancelled

(* The writes.                                                               *)
LEMMA TraceStep ==
  ASSUME TypeOK, PhaseInv, MutexInv, ReadyInv, TraceInv, [Next]_vars
  PROVE  TraceInv'
<1>. USE DEF TraceInv, MutexInv, ReadyInv, pass, health, world, loop, outside,
     elsewhere, Goto, Return, ReturnError, GiveBack, Daemons, Reports
<1>1. CASE Gate
  BY <1>1, AfterGates DEF Gate
<1>2. CASE Detect
  BY <1>2, AfterGates DEF Detect
<1>3. CASE LockHealth
  BY <1>3 DEF LockHealth
<1>4. CASE ScriptEnds \/ ScriptFails
  BY <1>4 DEF ScriptEnds, ScriptFails
<1>5. CASE Publish
  BY <1>5, AfterGates DEF Publish
<1>6. CASE NewSession \/ SkipLock \/ BackOff \/ Ready
  BY <1>6 DEF NewSession, SkipLock, BackOff, Ready
<1>7. CASE TryLock
  BY <1>7 DEF TryLock
<1>8. CASE CallFails
  BY <1>8 DEF CallFails
<1>9. CASE Decide
  BY <1>9 DEF Decide, DryRun
<1>10. CASE Failed
  BY <1>10 DEF Failed
<1>11. CASE Sleep \/ FinishOnce
  BY <1>11 DEF Sleep, FinishOnce
<1>12. CASE StartCooldown \/ Execute
  BY <1>12 DEF StartCooldown, Execute
<1>13. CASE Close \/ StopHeartbeat
  BY <1>13 DEF Close, StopHeartbeat
<1>14. CASE End \/ Die
  BY <1>14 DEF End, Die, Gone
<1>15. CASE BeatTop \/ BeatLock \/ BeatScript
  BY <1>15 DEF BeatTop, BeatLock, BeatScript
<1>16. CASE BeatPublish
  BY <1>16 DEF BeatPublish
<1>17. CASE ChildKeepsPipes \/ ChildEnds \/ DetectorsChild \/ EtcdFlips \/ LeaseExpires
  BY <1>17 DEF ChildKeepsPipes, ChildEnds, DetectorsChild, EtcdFlips, LeaseExpires
<1>18. CASE Signal \/ GiveUp \/ IntervalPasses
  BY <1>18 DEF Signal, GiveUp, IntervalPasses
<1>19. CASE Restart \/ OperatorStarts
  <2>1. PICK c : Start(c)
    BY <1>19 DEF Restart, OperatorStarts
  <2>. QED BY <2>1 DEF Start
<1>20. CASE UNCHANGED vars
  BY <1>20 DEF vars
<1>21. CASE Begin \/ BeginFails
  BY <1>21 DEF Begin, BeginFails, Heartbeats
<1>. QED
  BY <1>1, <1>2, <1>3, <1>4, <1>5, <1>6, <1>7, <1>8, <1>9, <1>10, <1>11, <1>12,
     <1>13, <1>14, <1>15, <1>16, <1>17, <1>18, <1>19, <1>20, <1>21
  DEF Next, MainStep, PassStep, LoopStep, ExitStep, BeatStep, Environment, CallCancelled

(* The attempts.                                                             *)
LEMMA TriesStep ==
  ASSUME TypeOK, PhaseInv, TriesInv, [Next]_vars
  PROVE  TriesInv'
<1>. USE DEF TriesInv, TypeOK, pass, health, world, loop, outside, elsewhere, Goto,
     Return, ReturnError, GiveBack, Daemons, Reports
<1>1. CASE Gate
  BY <1>1, AfterGates DEF Gate
<1>2. CASE Detect
  BY <1>2, AfterGates DEF Detect
<1>3. CASE LockHealth
  BY <1>3 DEF LockHealth
<1>4. CASE ScriptEnds \/ ScriptFails
  BY <1>4 DEF ScriptEnds, ScriptFails
<1>5. CASE Publish
  BY <1>5, AfterGates DEF Publish
<1>6. CASE NewSession \/ SkipLock \/ BackOff \/ Ready
  BY <1>6 DEF NewSession, SkipLock, BackOff, Ready
<1>7. CASE TryLock
  BY <1>7 DEF TryLock
<1>8. CASE CallFails
  BY <1>8 DEF CallFails
<1>9. CASE Decide
  BY <1>9 DEF Decide, DryRun
<1>10. CASE Failed
  BY <1>10 DEF Failed
<1>11. CASE Sleep \/ FinishOnce
  BY <1>11 DEF Sleep, FinishOnce
<1>12. CASE StartCooldown \/ Execute
  BY <1>12 DEF StartCooldown, Execute
<1>13. CASE Close \/ StopHeartbeat
  BY <1>13 DEF Close, StopHeartbeat
<1>14. CASE End \/ Die
  BY <1>14 DEF End, Die, Gone
<1>15. CASE BeatTop \/ BeatLock \/ BeatScript
  BY <1>15 DEF BeatTop, BeatLock, BeatScript
<1>16. CASE BeatPublish
  BY <1>16 DEF BeatPublish
<1>17. CASE ChildKeepsPipes \/ ChildEnds \/ DetectorsChild \/ EtcdFlips \/ LeaseExpires
  BY <1>17 DEF ChildKeepsPipes, ChildEnds, DetectorsChild, EtcdFlips, LeaseExpires
<1>18. CASE Signal \/ GiveUp \/ IntervalPasses
  BY <1>18 DEF Signal, GiveUp, IntervalPasses
<1>19. CASE Restart \/ OperatorStarts
  <2>1. PICK c : Start(c)
    BY <1>19 DEF Restart, OperatorStarts
  <2>. QED BY <2>1 DEF Start
<1>20. CASE UNCHANGED vars
  BY <1>20 DEF vars
<1>21. CASE Begin \/ BeginFails
  BY <1>21 DEF Begin, BeginFails, Heartbeats
<1>. QED
  BY <1>1, <1>2, <1>3, <1>4, <1>5, <1>6, <1>7, <1>8, <1>9, <1>10, <1>11, <1>12,
     <1>13, <1>14, <1>15, <1>16, <1>17, <1>18, <1>19, <1>20, <1>21
  DEF Next, MainStep, PassStep, LoopStep, ExitStep, BeatStep, Environment, CallCancelled

(* What the detectors' step leaves behind.                                   *)
LEMMA DetectHears ==
  ASSUME TypeOK, HeardInv, Detect
  PROVE  \/ at' = "failed"
         \/ at' = "decided" /\ outcome' = "nothing"
         \/ at' = "health" /\ phase' = "monitor" /\ heard' = {"clear"}
         \/ /\ phase = "pre-lock" /\ at' = "cluster" /\ UNCHANGED <<phase, outcome>>
            /\ AsksForReboot'
         \/ /\ phase = "post-lock" /\ at' = "health" /\ UNCHANGED <<phase, outcome>>
            /\ AsksForReboot'
<1>1. PICK answers \in Probes :
        /\ \/ Evaluate(answers) = "error" /\ ReturnError
           \/ Evaluate(answers) = "reboot" /\ Goto(After(at)) /\ UNCHANGED phase
           \/ Evaluate(answers) = "clear" /\ Goto("health") /\ phase' = "monitor"
           \/ Evaluate(answers) = "clear" /\ Return("nothing")
        /\ heard' = (IF at' \in {"decided", "failed"} THEN {}
                     ELSE {answers[i] : i \in DOMAIN answers})
  BY DEF Detect
<1>2. answers \in Seq(Answers) /\ Len(answers) = 2 /\ DOMAIN answers = 1 .. 2
      /\ \A i \in 1 .. 2 : answers[i] \in Answers
  BY ProbesAnswer
<1>3. Evaluate(answers) = IF Heard(answers, 2, {"error", "cancelled"}) THEN "error"
                          ELSE IF Heard(answers, 2, {"reboot"}) THEN "reboot" ELSE "clear"
  BY <1>2, WholeListDecides
<1>. DEFINE all == {answers[i] : i \in DOMAIN answers}
<1>4. Evaluate(answers) = "clear" => all = {"clear"}
  <2>1. Evaluate(answers) = "clear" => \A i \in 1 .. 2 : answers[i] = "clear"
    BY <1>2, <1>3 DEF Heard, Answers
  <2>2. 1 \in 1 .. 2
    OBVIOUS
  <2>. QED BY <1>2, <2>1, <2>2
<1>5. Evaluate(answers) = "reboot" => "reboot" \in all /\ all \subseteq {"clear", "reboot"}
  BY <1>2, <1>3 DEF Heard, Answers
<1>6. at = "detect" /\ phase \in {"pre-lock", "post-lock"}
  BY DEF Detect, HeardInv, TypeOK
<1>7. After(at) = IF phase = "post-lock" THEN "health" ELSE "cluster"
  BY <1>6 DEF After
<1>. HIDE DEF all
<1>8. heard' = IF at' \in {"decided", "failed"} THEN {} ELSE all
  BY <1>1 DEF all
<1>9. CASE Evaluate(answers) = "error"
  BY <1>1, <1>9 DEF ReturnError, GiveBack
<1>10. CASE Evaluate(answers) = "reboot"
  BY <1>1, <1>5, <1>6, <1>7, <1>8, <1>10 DEF Goto, AsksForReboot
<1>11. CASE Evaluate(answers) = "clear"
  BY <1>1, <1>4, <1>8, <1>11 DEF Goto, Return, GiveBack
<1>. QED BY <1>3, <1>9, <1>10, <1>11

(* The answers on record.                                                    *)
LEMMA HeardStep ==
  ASSUME TypeOK, PhaseInv, ReadyInv, HeardInv, [Next]_vars
  PROVE  HeardInv'
<1>. USE DEF TypeOK, HeardInv, AsksForReboot, pass, health, world, loop, outside, elsewhere, Goto, Return,
     ReturnError, GiveBack, Daemons, Reports
<1>1. CASE Gate
  <2>1. UNCHANGED <<phase, heard>>
    BY <1>1 DEF Gate
  <2>2. \/ at' \in {"decided", "failed"} /\ (at' = "decided" => outcome' = "nothing")
        \/ at' = After(at) /\ UNCHANGED outcome
    BY <1>1 DEF Gate
  <2>3. at = "kill" => After(at) \in {"window", "cluster"}
    BY DEF After
  <2>4. at = "window" => After(at) = "detect"
    BY DEF After, PhaseInv
  <2>5. at = "cluster" => After(at) = IF phase = "post-lock" THEN "detect" ELSE "health"
    BY DEF After
  <2>6. at = "cooldown" => After(at) = "session"
    BY DEF After, PhaseInv
  <2>7. at \in {"kill", "window", "cluster", "cooldown"}
    BY <1>1 DEF Gate
  <2>8. CASE at' \in {"decided", "failed"} /\ (at' = "decided" => outcome' = "nothing")
    BY <2>1, <2>8
  <2>9. CASE at' = After(at) /\ UNCHANGED outcome
    <3>1. CASE at = "kill"
      BY <2>1, <2>3, <2>9, <3>1 DEF After
    <3>2. CASE at # "kill"
      BY <2>1, <2>4, <2>5, <2>6, <2>7, <2>9, <3>2
    <3>. QED BY <3>1, <3>2
  <2>. QED BY <2>2, <2>8, <2>9
<1>2. CASE Detect
  BY <1>2, DetectHears DEF Detect
<1>3. CASE LockHealth
  BY <1>3 DEF LockHealth
<1>4. CASE ScriptEnds \/ ScriptFails
  BY <1>4 DEF ScriptEnds, ScriptFails
<1>5. CASE Publish
  BY <1>5 DEF Publish, After
<1>6. CASE NewSession \/ SkipLock \/ BackOff \/ Ready
  BY <1>6 DEF NewSession, SkipLock, BackOff, Ready
<1>7. CASE TryLock
  BY <1>7 DEF TryLock
<1>8. CASE CallFails
  BY <1>8 DEF CallFails
<1>9. CASE Decide
  BY <1>9 DEF Decide, DryRun
<1>10. CASE Failed
  BY <1>10 DEF Failed
<1>11. CASE Sleep \/ FinishOnce
  BY <1>11 DEF Sleep, FinishOnce
<1>12. CASE StartCooldown \/ Execute
  BY <1>12 DEF StartCooldown, Execute
<1>13. CASE Close \/ StopHeartbeat
  BY <1>13 DEF Close, StopHeartbeat
<1>14. CASE End \/ Die
  BY <1>14 DEF End, Die, Gone
<1>15. CASE BeatTop \/ BeatLock \/ BeatScript
  BY <1>15 DEF BeatTop, BeatLock, BeatScript
<1>16. CASE BeatPublish
  BY <1>16 DEF BeatPublish
<1>17. CASE ChildKeepsPipes \/ ChildEnds \/ DetectorsChild \/ EtcdFlips \/ LeaseExpires
  BY <1>17 DEF ChildKeepsPipes, ChildEnds, DetectorsChild, EtcdFlips, LeaseExpires
<1>18. CASE Signal \/ GiveUp \/ IntervalPasses
  BY <1>18 DEF Signal, GiveUp, IntervalPasses
<1>19. CASE Restart \/ OperatorStarts
  <2>1. PICK c : Start(c)
    BY <1>19 DEF Restart, OperatorStarts
  <2>. QED BY <2>1 DEF Start
<1>20. CASE UNCHANGED vars
  BY <1>20 DEF vars
<1>21. CASE Begin \/ BeginFails
  BY <1>21 DEF Begin, BeginFails, Heartbeats
<1>. QED
  BY <1>1, <1>2, <1>3, <1>4, <1>5, <1>6, <1>7, <1>8, <1>9, <1>10, <1>11, <1>12,
     <1>13, <1>14, <1>15, <1>16, <1>17, <1>18, <1>19, <1>20, <1>21
  DEF Next, MainStep, PassStep, LoopStep, ExitStep, BeatStep, Environment, CallCancelled

(* What the error backoff and its history depend on.                         *)
LEMMA LoopSteps ==
  ASSUME [Next]_vars
  PROVE  Decide \/ Failed \/ (errorBackoff' = 0 /\ failures' = 0) \/ UNCHANGED loop
<1>. USE DEF loop, outside, elsewhere
<1>1. CASE Gate
  BY <1>1 DEF Gate
<1>2. CASE Detect
  BY <1>2 DEF Detect
<1>3. CASE LockHealth
  BY <1>3 DEF LockHealth
<1>4. CASE ScriptEnds \/ ScriptFails
  BY <1>4 DEF ScriptEnds, ScriptFails
<1>5. CASE Publish
  BY <1>5 DEF Publish
<1>6. CASE NewSession \/ SkipLock \/ BackOff \/ Ready
  BY <1>6 DEF NewSession, SkipLock, BackOff, Ready
<1>7. CASE TryLock
  BY <1>7 DEF TryLock
<1>8. CASE CallFails
  BY <1>8 DEF CallFails
<1>9. CASE Decide
  BY <1>9
<1>10. CASE Failed
  BY <1>10
<1>11. CASE Sleep \/ FinishOnce
  BY <1>11 DEF Sleep, FinishOnce
<1>12. CASE StartCooldown \/ Execute
  BY <1>12 DEF StartCooldown, Execute
<1>13. CASE Close \/ StopHeartbeat
  BY <1>13 DEF Close, StopHeartbeat
<1>14. CASE End \/ Die
  BY <1>14 DEF End, Die, Gone
<1>15. CASE BeatTop \/ BeatLock \/ BeatScript
  BY <1>15 DEF BeatTop, BeatLock, BeatScript
<1>16. CASE BeatPublish
  BY <1>16 DEF BeatPublish
<1>17. CASE ChildKeepsPipes \/ ChildEnds \/ DetectorsChild \/ EtcdFlips \/ LeaseExpires
  BY <1>17 DEF ChildKeepsPipes, ChildEnds, DetectorsChild, EtcdFlips, LeaseExpires
<1>18. CASE Signal \/ GiveUp \/ IntervalPasses
  BY <1>18 DEF Signal, GiveUp, IntervalPasses
<1>19. CASE Restart \/ OperatorStarts
  <2>1. PICK c : Start(c)
    BY <1>19 DEF Restart, OperatorStarts
  <2>. QED BY <2>1 DEF Start
<1>20. CASE UNCHANGED vars
  BY <1>20 DEF vars
<1>21. CASE Begin \/ BeginFails
  BY <1>21 DEF Begin, BeginFails, Heartbeats
<1>. QED
  BY <1>1, <1>2, <1>3, <1>4, <1>5, <1>6, <1>7, <1>8, <1>9, <1>10, <1>11, <1>12,
     <1>13, <1>14, <1>15, <1>16, <1>17, <1>18, <1>19, <1>20, <1>21
  DEF Next, MainStep, PassStep, LoopStep, ExitStep, BeatStep, Environment, CallCancelled

(* The delays: doubling commutes with the cap at the maximum.                *)
LEMMA DelayStep ==
  ASSUME 2 * ErrorMax < Limit, TypeOK, ErrorDelaysDouble, [Next]_vars
  PROVE  ErrorDelaysDouble'
<1>. DEFINE doubled == ErrorMin * Power[failures - 1]
            due == IF doubled > ErrorMax THEN ErrorMax ELSE doubled
<1>1. CASE errorBackoff' = 0 /\ failures' = 0
  BY <1>1 DEF ErrorDelaysDouble
<1>2. CASE UNCHANGED loop
  BY <1>2 DEF ErrorDelaysDouble, loop
<1>3. CASE Decide
  BY <1>3 DEF ErrorDelaysDouble, Decide
<1>4. CASE Failed
  <2>1. /\ errorBackoff' = Doubled(errorBackoff)
        /\ failures' = IF failures < MaxFailures THEN failures + 1 ELSE failures
    BY <1>4 DEF Failed
  <2>2. /\ failures \in 0 .. MaxFailures /\ MaxFailures \in Nat /\ MaxFailures >= 1
        /\ errorBackoff \in 0 .. ErrorMax
        /\ ErrorMin \in Nat /\ ErrorMax \in Nat /\ 1 <= ErrorMin /\ ErrorMin <= ErrorMax
    BY DaemonAssumption, BackoffAssumption DEF TypeOK
  <2>3. CASE failures = 0
    <3>1. errorBackoff' = ErrorMin /\ failures' = 1
      BY <2>1, <2>2, <2>3 DEF ErrorDelaysDouble, Doubled
    <3>2. ErrorMin * Power[1 - 1] = ErrorMin
      BY <2>2, PowersDouble
    <3>. QED BY <2>2, <3>1, <3>2 DEF ErrorDelaysDouble
  <2>4. CASE failures # 0
    <3>1. failures - 1 \in Nat /\ (failures - 1) + 1 = failures /\ Power[failures - 1] \in Nat \ {0}
      BY <2>2, <2>4, PowersDouble
    <3>2. Power[failures] = 2 * Power[failures - 1]
      BY <3>1, PowersDouble
    <3>3. doubled \in Nat /\ doubled >= ErrorMin /\ ErrorMin * Power[failures] = 2 * doubled
      <4>1. \A a, c \in Nat \ {0} : a * c \in Nat /\ a * c >= a /\ a * (2 * c) = 2 * (a * c)
        <5>1. \A a, c \in Nat \ {0} : a * c = a + a * (c - 1) /\ a * (c - 1) >= 0
          OBVIOUS
        <5>. QED BY <5>1
      <4>. QED BY <2>2, <3>1, <3>2, <4>1
    <3>. HIDE DEF doubled
    <3>4. due \in ErrorMin .. ErrorMax
      BY <2>2, <3>3
    <3>5. /\ failures < MaxFailures => errorBackoff = due
          /\ failures = MaxFailures => errorBackoff \in due .. ErrorMax
      BY <2>4 DEF ErrorDelaysDouble, doubled
    <3>6. errorBackoff >= ErrorMin
      BY <2>2, <3>4, <3>5
    <3>7. Doubled(errorBackoff) = IF 2 * errorBackoff > ErrorMax THEN ErrorMax ELSE 2 * errorBackoff
      <4>1. Wrap(errorBackoff * 2) = errorBackoff * 2
        BY <2>2, WrapKeeps, BackoffAssumption
      <4>. QED BY <2>2, <3>6, <4>1 DEF Doubled, Bounded
    <3>8. CASE failures < MaxFailures
      <4>. DEFINE next == IF 2 * doubled > ErrorMax THEN ErrorMax ELSE 2 * doubled
      <4>1. failures' = failures + 1 /\ (failures + 1) - 1 = failures
        BY <2>1, <2>2, <3>8
      <4>2. errorBackoff' = next
        BY <2>1, <2>2, <3>3, <3>5, <3>7, <3>8
      <4>3. next \in next .. ErrorMax
        BY <2>2, <3>3
      <4>4. ErrorMin * Power[failures' - 1] = 2 * doubled
        BY <3>3, <4>1
      <4>. QED BY <2>2, <4>1, <4>2, <4>3, <4>4 DEF ErrorDelaysDouble
    <3>9. CASE failures = MaxFailures
      <4>. HIDE DEF due
      <4>1. failures' = failures
        BY <2>1, <2>2, <3>9
      <4>2. errorBackoff' \in due .. ErrorMax
        BY <2>1, <2>2, <3>4, <3>5, <3>7, <3>9
      <4>. QED BY <2>2, <2>4, <3>9, <4>1, <4>2 DEF ErrorDelaysDouble, due, doubled
    <3>. QED BY <2>2, <3>8, <3>9
  <2>. QED BY <2>3, <2>4
<1>. QED BY <1>1, <1>2, <1>3, <1>4, LoopSteps

(* Every variable keeps its type.                                            *)
LEMMA TypeStep ==
  ASSUME TypeOK, PhaseInv, ReadyInv, [Next]_vars
  PROVE  TypeOK'
<1>. USE DaemonAssumption DEF TypeOK, Children, PassPlaces, LoopPlaces, ExitPlaces, pass,
     health, world, loop, outside, elsewhere, Goto, Return, ReturnError, GiveBack, Daemons, Reports
<1>1. CASE Gate
  BY <1>1, AfterGates DEF Gate
<1>2. CASE Detect
  <2>1. PICK answers \in Probes :
          /\ heard' = (IF at' \in {"decided", "failed"} THEN {}
                       ELSE {answers[i] : i \in DOMAIN answers})
          /\ \/ ReturnError /\ UNCHANGED phase
             \/ Goto(After(at)) /\ UNCHANGED phase
             \/ Goto("health") /\ phase' = "monitor"
             \/ Return("nothing") /\ UNCHANGED phase
    BY <1>2 DEF Detect
  <2>2. heard' \subseteq Answers
    BY <2>1, ProbesAnswer
  <2>. QED BY <1>2, <2>1, <2>2, AfterGates DEF Detect
<1>3. CASE LockHealth
  BY <1>3 DEF LockHealth
<1>4. CASE ScriptEnds \/ ScriptFails
  BY <1>4 DEF ScriptEnds, ScriptFails
<1>5. CASE Publish
  BY <1>5, AfterGates DEF Publish
<1>6. CASE NewSession \/ SkipLock \/ BackOff \/ Ready
  BY <1>6 DEF NewSession, SkipLock, BackOff, Ready
<1>7. CASE TryLock
  <2>1. LockTries \in Nat /\ LockTries <= MaxLockTries
    BY DEF LockTries
  <2>2. tries' \in 0 .. MaxLockTries - 1
    BY <1>7, <2>1 DEF TryLock
  <2>. QED BY <1>7, <2>2 DEF TryLock
<1>8. CASE CallFails
  <2>1. tries' \in 0 .. MaxLockTries - 1
    BY <1>8 DEF CallFails
  <2>2. wrote' = wrote \/ wrote' = (wrote \/ at = "publish")
    BY <1>8 DEF CallFails
  <2>3. wrote' \in BOOLEAN
    BY <2>2
  <2>. QED BY <1>8, <2>1, <2>3 DEF CallFails
<1>9. CASE Decide
  <2>1. errorBackoff' \in 0 .. ErrorMax /\ failures' \in 0 .. MaxFailures
    BY <1>9, BackoffAssumption DEF Decide
  <2>. QED BY <1>9, <2>1 DEF Decide
<1>10. CASE Failed
  <2>1. errorBackoff' \in 0 .. ErrorMax /\ failures' \in 0 .. MaxFailures
    BY <1>10, BackoffType DEF Failed
  <2>. QED BY <1>10, <2>1 DEF Failed
<1>11. CASE Sleep \/ FinishOnce
  BY <1>11 DEF Sleep, FinishOnce
<1>12. CASE StartCooldown \/ Execute
  <2>1. wrote' = wrote \/ wrote' = TRUE
    BY <1>12 DEF StartCooldown, Execute
  <2>2. wrote' \in BOOLEAN
    BY <2>1
  <2>3. at' \in {"exec", "closing"} /\ lease' \in {"none", "kept", "orphan"}
    BY <1>12 DEF StartCooldown, Execute
  <2>4. UNCHANGED <<command, phase, tries, heard, verdict, probe, beat, mutex, pipes,
                    etcd, cancelled, outcome, errorBackoff, unit, starts, failures>>
    BY <1>12 DEF StartCooldown, Execute
  <2>. QED BY <2>2, <2>3, <2>4
<1>13. CASE Close \/ StopHeartbeat
  <2>1. CASE Close
    BY <2>1 DEF Close
  <2>2. CASE StopHeartbeat
    BY <2>2 DEF StopHeartbeat
  <2>. QED BY <1>13, <2>1, <2>2
<1>14. CASE End \/ Die
  <2>1. /\ tries' \in 0 .. MaxLockTries - 1 /\ failures' \in 0 .. MaxFailures
        /\ errorBackoff' \in 0 .. ErrorMax
    BY <1>14, BackoffAssumption DEF End, Die, Gone
  <2>. QED BY <1>14, <2>1 DEF End, Die, Gone
<1>15. CASE BeatTop \/ BeatLock \/ BeatScript
  BY <1>15 DEF BeatTop, BeatLock, BeatScript
<1>16. CASE BeatPublish
  <2>1. wrote' = TRUE \/ wrote' = wrote \/ wrote' = (wrote \/ ~ClientsClosed)
    BY <1>16 DEF BeatPublish
  <2>2. wrote' \in BOOLEAN
    BY <2>1
  <2>. QED BY <1>16, <2>2 DEF BeatPublish
<1>17. CASE ChildKeepsPipes \/ ChildEnds \/ DetectorsChild \/ EtcdFlips \/ LeaseExpires
  BY <1>17 DEF ChildKeepsPipes, ChildEnds, DetectorsChild, EtcdFlips, LeaseExpires
<1>18. CASE Signal \/ GiveUp \/ IntervalPasses
  <2>1. CASE Signal
    BY <2>1 DEF Signal
  <2>2. CASE GiveUp
    BY <2>2 DEF GiveUp
  <2>3. CASE IntervalPasses
    BY <2>3 DEF IntervalPasses
  <2>. QED BY <1>18, <2>1, <2>2, <2>3
<1>19. CASE Restart
  <2>1. starts' \in 0 .. StartLimitBurst
    BY <1>19 DEF Restart
  <2>. QED BY <1>19, <2>1 DEF Restart, Start
<1>20. CASE OperatorStarts
  <2>1. PICK c \in Command : Start(c)
    BY <1>20 DEF OperatorStarts
  <2>2. starts' \in 0 .. StartLimitBurst /\ unit' \in {"active", "inactive", "failed"}
    BY <1>20 DEF OperatorStarts
  <2>. QED BY <2>1, <2>2 DEF Start
<1>21. CASE UNCHANGED vars
  BY <1>21 DEF vars
<1>22. CASE Begin \/ BeginFails
  BY <1>22 DEF Begin, BeginFails, Heartbeats
<1>. QED
  BY <1>1, <1>2, <1>3, <1>4, <1>5, <1>6, <1>7, <1>8, <1>9, <1>10, <1>11, <1>12,
     <1>13, <1>14, <1>15, <1>16, <1>17, <1>18, <1>19, <1>20, <1>21, <1>22
  DEF Next, MainStep, PassStep, LoopStep, ExitStep, BeatStep, Environment, CallCancelled

LEMMA StepIInv == IInv /\ [Next]_vars => IInv'
BY TypeStep, PhaseStep, MutexStep, ClosedStep, ReadyStep, TraceStep, TriesStep, HeardStep
DEF IInv

LEMMA Inductive == Spec => []IInv
BY InitIInv, StepIInv, PTL DEF Spec

-----------------------------------------------------------------------------
(* Every variable keeps its type, the lock attempts and the error backoff    *)
(* their bounds.                                                             *)
THEOREM TypeCorrect == Spec => []TypeOK
<1>1. IInv => TypeOK
  BY DEF IInv
<1>. QED BY <1>1, Inductive, PTL

(* The health script never runs twice at once.                               *)
THEOREM OneScript == Spec => []OneScriptAtATime
<1>1. IInv => OneScriptAtATime
  BY DEF IInv, MutexInv, OneScriptAtATime
<1>. QED BY <1>1, Inductive, PTL

(* However a process ends, it does not keep the lock while it waits for its  *)
(* heartbeat.                                                                *)
THEOREM NoLeaseAtExit == Spec => []ExitKeepsNoLease
<1>1. IInv => ExitKeepsNoLease
  BY DEF IInv, ClosedInv, ExitKeepsNoLease
<1>. QED BY <1>1, Inductive, PTL

(* No error ends the daemon.                                                 *)
THEOREM DaemonGoesOn == Spec => []OnlyReadyPassesEndTheDaemon
<1>1. IInv => OnlyReadyPassesEndTheDaemon
  BY DEF IInv, ReadyInv, OnlyReadyPassesEndTheDaemon
<1>. QED BY <1>1, Inductive, PTL

(* `status` writes nothing, and a trial reboots nothing.                     *)
THEOREM NoTrace == Spec => []TrialsLeaveNoTrace
<1>1. IInv => TrialsLeaveNoTrace
  BY DEF IInv, ReadyInv, TraceInv, TrialsLeaveNoTrace
<1>. QED BY <1>1, Inductive, PTL

(* The wait after each lost attempt is within its bounds.                    *)
THEOREM LockWaits == Spec => []LockWaitsStayInBounds
<1>1. IInv => LockWaitsStayInBounds
  <2>. SUFFICES ASSUME IInv, at = "backoff" PROVE LockWaitsStayInBounds
    BY DEF LockWaitsStayInBounds
  <2>1. tries - 1 \in Nat
    BY DaemonAssumption DEF IInv, TypeOK, TriesInv
  <2>2. MinBackoff > 0
    BY BoundsInOrder, BackoffAssumption
  <2>. QED BY <2>1, <2>2, LockCapBounded, LockCapDoubles DEF LockWaitsStayInBounds
<1>. QED BY <1>1, Inductive, PTL

(* No decision for or against a reboot rests on an incomplete list of        *)
(* answers.                                                                  *)
THEOREM VerdictsComplete == Spec => []VerdictsAreComplete
<1>1. IInv => VerdictsAreComplete
  BY DEF IInv, TypeOK, HeardInv, AsksForReboot, VerdictsAreComplete
<1>. QED BY <1>1, Inductive, PTL

(* The error delays double up to their maximum, if twice the maximum is a    *)
(* Duration.                                                                 *)
THEOREM DelaysDouble ==
  ASSUME 2 * ErrorMax < Limit
  PROVE  Spec => []ErrorDelaysDouble
<1>1. Init => ErrorDelaysDouble
  BY DEF Init, ErrorDelaysDouble
<1>2. TypeOK /\ ErrorDelaysDouble /\ [Next]_vars => ErrorDelaysDouble'
  BY DelayStep
<1>. QED BY <1>1, <1>2, TypeCorrect, PTL DEF Spec
=============================================================================
