------------------------------- MODULE Daemon -------------------------------
(* One clusterrebootd process on one machine: the goroutine that makes the   *)
(* passes, the heartbeat beside it, the mutex around their health scripts,   *)
(* the context a signal cancels, the clean-up, the exit code, and systemd    *)
(* around it all.  `run --once` and `status` are the same pass without the   *)
(* loop.  What etcd and the outside world answer is left open: RebootCluster *)
(* is about that.                                                            *)
EXTENDS Backoff, Detectors, FiniteSets

CONSTANTS
  Command,         \* the commands in use
  CooldownOn,      \* is min_reboot_interval_sec positive?
  MaxLockTries,    \* Runner.maxLockTries of a run; a status tries once
  ExitCodes,       \* the exit codes of the command detector, {} for the default
  StartLimitBurst, \* of the systemd unit
  MaxFailures      \* bound: failed passes counted, from there on "many"

ASSUME DaemonAssumption ==
  /\ Command \subseteq {"run", "dry-run", "once", "status", "skip-lock"}
  /\ CooldownOn \in BOOLEAN
  /\ MaxLockTries \in Nat \ {0}
  /\ StartLimitBurst \in Nat \ {0}
  /\ MaxFailures \in Nat \ {0}

VARIABLES
  command,       \* how the process was started: `run`, `run --dry-run`,
                 \* `run --once`, `status` or `status --skip-lock`
  at,            \* the place of its main goroutine; "off" without a process
  phase,         \* the part of the pass: pre-lock, monitor, post-lock
  tries,         \* attempts at the lock lost in this pass
  heard,         \* the detectors' answers this part of the pass rests on
  verdict,       \* the main goroutine's last script result
  probe,         \* does a child of the running detector keep its output open?
  beat,          \* the place of the heartbeat goroutine
  mutex,         \* who holds healthMu
  pipes,         \* does a child of the running script keep its pipes open?
  etcd,          \* can etcd be reached?
  cancelled,     \* has the context been cancelled?
  lease,         \* the lock's lease: none, kept alive, or left to its TTL
  outcome,       \* the last pass's: ready to reboot, or nothing to do
  errorBackoff,  \* Loop.errorBackoff
  wrote,         \* has the process changed what the cluster shares?
  unit,          \* the systemd unit: active, inactive (stopped) or failed
  starts,        \* its starts in the current interval of the start limit
  failures       \* history: failed passes in a row

pass == <<phase, tries, heard, verdict, probe>>
health == <<beat, mutex, pipes>>
world == <<command, etcd, cancelled, unit, starts>>
loop == <<errorBackoff, failures>>
vars == <<command, at, phase, tries, heard, verdict, probe, beat, mutex, pipes,
          etcd, cancelled, lease, outcome, errorBackoff, wrote, unit, starts, failures>>

Children == {"clean", "held", "freed"}

Daemons == {"run", "dry-run"}
PassPlaces == {"kill", "window", "detect", "cluster", "health", "script", "publish",
               "cooldown", "session", "lock", "backoff", "ready"}
LoopPlaces == {"decided", "failed", "sleep", "mark", "exec"}
ExitPlaces == {"closing", "stopping", "waiting", "off"}

TypeOK ==
  /\ command \in Command
  /\ at \in {"start"} \cup PassPlaces \cup LoopPlaces \cup ExitPlaces
  /\ phase \in {"pre-lock", "monitor", "post-lock"}
  /\ tries \in 0 .. MaxLockTries - 1
  /\ heard \subseteq Answers
  /\ verdict \in {"healthy", "unhealthy"}
  /\ beat \in {"off", "top", "mutex", "script", "publish", "sleep"}
  /\ mutex \in {"free", "main", "beat"}
  /\ probe \in Children /\ pipes \in Children
  /\ etcd \in {"up", "down"}
  /\ cancelled \in BOOLEAN
  /\ lease \in {"none", "kept", "orphan"}
  /\ outcome \in {"nothing", "ready"}
  /\ errorBackoff \in 0 .. ErrorMax
  /\ wrote \in BOOLEAN
  /\ unit \in {"active", "inactive", "failed"}
  /\ starts \in 0 .. StartLimitBurst
  /\ failures \in 0 .. MaxFailures

(* main.go starts a heartbeat for a daemon that has an interval for it.      *)
Heartbeats(c) == IF c \in Daemons THEN {"top", "off"} ELSE {"off"}

Init ==
  /\ command \in Command
  /\ at = "start" /\ phase = "pre-lock" /\ tries = 0
  /\ heard = {} /\ verdict = "healthy" /\ probe = "clean"
  /\ beat = "off" /\ mutex = "free" /\ pipes = "clean"
  /\ etcd \in {"up", "down"}
  /\ cancelled = FALSE /\ lease = "none"
  /\ outcome = "nothing" /\ errorBackoff = 0 /\ wrote = FALSE /\ failures = 0
  /\ unit = (IF command \in Daemons THEN "active" ELSE "inactive")
  /\ starts = (IF command \in Daemons THEN 1 ELSE 0)

-----------------------------------------------------------------------------
(* Runner.RunOnce: the order of its steps, and what it returns.              *)

After(place) ==
  IF phase = "post-lock"
  THEN [kill |-> "cluster", cluster |-> "detect", detect |-> "health",
        publish |-> "ready"][place]
  ELSE [kill |-> "window", window |-> "detect", detect |-> "cluster",
        cluster |-> "health", publish |-> IF CooldownOn THEN "cooldown" ELSE "session",
        cooldown |-> "session"][place]

DryRun == command \in {"dry-run", "status", "skip-lock"}
Reports == command \notin {"status", "skip-lock"}  \* WithClusterHealthReporting
LocksOn == command # "skip-lock"                   \* WithLockAcquisition
LockTries == IF command = "status" THEN 1 ELSE MaxLockTries
EtcdAnswers == etcd = "up" /\ ~cancelled

(* releaseLease gives the lease back, or fails and leaves it to its TTL,     *)
(* unless the key was gone by then.                                          *)
GiveBack(next, error) ==
  \/ lease' = (IF lease = "kept" THEN "none" ELSE lease) /\ at' = next
  \/ lease = "kept" /\ lease' \in {"none", "orphan"} /\ at' = error

(* The pass returns; the deferred release may turn its outcome into an error.*)
Return(result) ==
  /\ GiveBack("decided", "failed")
  /\ outcome' = (IF at' = "decided" THEN result ELSE outcome)

ReturnError == GiveBack("failed", "failed") /\ UNCHANGED outcome

Goto(place) == at' = place /\ UNCHANGED <<lease, outcome>>

(* Without a lock there is no client for the health records either.          *)
AskingEtcd == {"cooldown"} \cup {p \in {"cluster"} : LocksOn}

outside == <<world, loop>>

(* main.go makes its clients, each of which asks etcd for its version, under *)
(* a time limit and not under the context; then the heartbeat and the loop.  *)
Begin ==
  /\ at = "start" /\ (LocksOn \/ CooldownOn => etcd = "up")
  /\ at' = (IF cancelled /\ command \in Daemons THEN "closing" ELSE "kill")
  /\ beat' \in Heartbeats(command)
  /\ UNCHANGED <<pass, mutex, pipes, lease, outcome, wrote, outside>>

(* ... or gives up: etcd cannot be reached, or the configuration is wrong.   *)
BeginFails ==
  /\ at = "start"
  /\ at' = (IF Reports THEN "stopping" ELSE "waiting")
  /\ UNCHANGED <<pass, health, lease, outcome, wrote, outside>>

(* Kill switch, windows, cluster policies, cooldown: go on or block.         *)
Gate ==
  /\ at \in {"kill", "window", "cluster", "cooldown"}
  /\ at \in AskingEtcd => EtcdAnswers
  /\ Goto(After(at)) \/ Return("nothing")
  /\ UNCHANGED <<pass, health, wrote, outside>>

Stats == {"present", "absent", "unreadable"}
Ends == [exited : {TRUE}, status : {0, 1}] \cup [exited : {FALSE}, status : {0}]
Probes == {<<CheckFile(s), CheckCommand(ExitCodes, e)>> : s \in Stats, e \in Ends}

Detect ==
  /\ at = "detect" /\ probe # "held" /\ ~cancelled
  /\ \E answers \in Probes :
       /\ \/ Evaluate(answers) = "error" /\ ReturnError /\ UNCHANGED phase
          \/ Evaluate(answers) = "reboot" /\ Goto(After(at)) /\ UNCHANGED phase
          \/ /\ Evaluate(answers) = "clear" /\ phase = "pre-lock"
             /\ Goto("health") /\ phase' = "monitor"
          \/ /\ Evaluate(answers) = "clear" /\ phase = "post-lock"
             /\ Return("nothing") /\ UNCHANGED phase
       /\ heard' = (IF at' \in {"decided", "failed"} THEN {}
                    ELSE {answers[i] : i \in DOMAIN answers})
  /\ probe' = "clean"
  /\ UNCHANGED <<tries, verdict, health, wrote, outside>>

(* Slip: the script runs without the mutex.                                  *)
LockHealthUnguarded ==
  /\ at = "health"
  /\ Goto("script") /\ mutex' = "main" /\ pipes' = "clean"
  /\ UNCHANGED <<pass, beat, wrote, outside>>

(* runHealthWithObservability: the mutex, which knows no context, ...        *)
LockHealth ==
  /\ at = "health" /\ mutex = "free"
  /\ Goto("script") /\ mutex' = "main" /\ pipes' = "clean"
  /\ UNCHANGED <<pass, beat, wrote, outside>>

(* ... the script, which ends when nobody has its output open any more, ...  *)
ScriptEnds ==
  /\ at = "script" /\ pipes # "held" /\ ~cancelled
  /\ verdict' \in {"healthy", "unhealthy"}
  /\ Goto("publish") /\ mutex' = "free" /\ pipes' = "clean"
  /\ UNCHANGED <<phase, tries, heard, probe, beat, wrote, outside>>

(* ... or which timed out, could not run or was killed by the context: an    *)
(* error, and nothing is published.                                          *)
ScriptFails ==
  /\ at = "script" /\ pipes # "held"
  /\ ReturnError /\ mutex' = "free" /\ pipes' = "clean"
  /\ UNCHANGED <<pass, beat, wrote, outside>>

(* Slip: status publishes like any other pass.                               *)
PublishAlways ==
  /\ at = "publish" /\ EtcdAnswers
  /\ wrote' = TRUE
  /\ \/ verdict = "unhealthy" /\ Return("nothing")
     \/ verdict = "healthy" /\ phase = "monitor" /\ Return("nothing")
     \/ verdict = "healthy" /\ phase # "monitor" /\ Goto(After(at))
  /\ verdict' = "healthy"
  /\ UNCHANGED <<phase, tries, heard, probe, health, outside>>

Publish ==
  /\ at = "publish" /\ (Reports => EtcdAnswers)
  /\ wrote' = (wrote \/ Reports)
  /\ \/ verdict = "unhealthy" /\ Return("nothing")
     \/ verdict = "healthy" /\ phase = "monitor" /\ Return("nothing")
     \/ verdict = "healthy" /\ phase # "monitor" /\ Goto(After(at))
  /\ verdict' = "healthy"
  /\ UNCHANGED <<phase, tries, heard, probe, health, outside>>

(* acquireLock: the session is made without the caller's context.            *)
NewSession ==
  /\ at = "session" /\ LocksOn /\ etcd = "up"
  /\ Goto("lock")
  /\ UNCHANGED <<pass, health, wrote, outside>>

(* lock_skipped, under which no command is ready to be run.                  *)
SkipLock ==
  /\ at = "session" /\ ~LocksOn
  /\ Return("nothing")
  /\ UNCHANGED <<pass, health, wrote, outside>>

TryLock ==
  /\ at = "lock" /\ EtcdAnswers
  /\ \/ /\ lease = "none" /\ lease' = "kept" /\ UNCHANGED outcome
        /\ at' = "kill" /\ phase' = "post-lock" /\ heard' = {} /\ tries' = 0
     \/ /\ tries + 1 < LockTries
        /\ Goto("backoff") /\ tries' = tries + 1 /\ UNCHANGED <<phase, heard>>
     \/ /\ tries + 1 = LockTries
        /\ Return("nothing") /\ tries' = 0 /\ UNCHANGED <<phase, heard>>
  /\ UNCHANGED <<verdict, probe, health, wrote, outside>>

BackOff ==
  /\ at = "backoff" /\ ~cancelled
  /\ Goto("session")
  /\ UNCHANGED <<pass, health, wrote, outside>>

(* A ready pass keeps the lease for the caller, unless it is a dry run.      *)
Ready ==
  /\ at = "ready"
  /\ \/ DryRun /\ Return("ready")
     \/ ~DryRun /\ at' = "decided" /\ outcome' = "ready" /\ UNCHANGED lease
  /\ UNCHANGED <<pass, health, wrote, outside>>

(* Any call may return an error; a publication may have arrived before.      *)
CallFails ==
  /\ at \in {"kill", "detect", "cluster", "publish", "cooldown", "session", "lock", "backoff"}
  /\ at \in {"cluster", "session"} => LocksOn
  /\ at = "publish" => Reports
  /\ at = "backoff" => cancelled
  /\ probe # "held" /\ probe' = "clean"
  /\ ReturnError
  /\ wrote' \in {wrote, wrote \/ at = "publish"}
  /\ tries' = 0 /\ verdict' = "healthy"
  /\ UNCHANGED <<phase, heard, health, outside>>

(* What a cancelled context ends; not the stat of the kill switch, and not   *)
(* the wait for a session.                                                   *)
CallCancelled == cancelled /\ at \notin {"kill", "session"} /\ CallFails

-----------------------------------------------------------------------------
(* Loop.Run around the pass, and what `run --once` and `status` do instead.  *)

(* Slip: a ready outcome is looked at before the error backoff is reset.     *)
DecideReadyFirst ==
  /\ at = "decided" /\ command \in Daemons
  /\ errorBackoff' = (IF outcome = "ready" THEN 0 ELSE errorBackoff) /\ failures' = 0
  /\ at' = IF outcome = "nothing" THEN "sleep"
           ELSE IF DryRun THEN "closing"
           ELSE IF CooldownOn THEN "mark" ELSE "exec"
  /\ UNCHANGED <<pass, health, lease, outcome, wrote, world>>

Decide ==
  /\ at = "decided" /\ command \in Daemons
  /\ errorBackoff' = 0 /\ failures' = 0
  /\ at' = IF outcome = "nothing" THEN "sleep"
           ELSE IF DryRun THEN "closing"
           ELSE IF CooldownOn THEN "mark" ELSE "exec"
  /\ UNCHANGED <<pass, health, lease, outcome, wrote, world>>

(* Slip: an error of the pass ends the loop.                                 *)
FailedForGood ==
  /\ at = "failed" /\ command \in Daemons
  /\ at' = "closing"
  /\ UNCHANGED <<pass, health, lease, outcome, wrote, world, loop>>

Failed ==
  /\ at = "failed" /\ command \in Daemons
  /\ errorBackoff' = Doubled(errorBackoff)
  /\ failures' = (IF failures < MaxFailures THEN failures + 1 ELSE failures)
  /\ at' = "sleep"
  /\ UNCHANGED <<pass, health, lease, outcome, wrote, world>>

(* sleepWithContext, then the check at the top of the loop.                  *)
Sleep ==
  /\ at = "sleep"
  /\ at' = (IF cancelled THEN "closing" ELSE "kill")
  /\ phase' = "pre-lock" /\ heard' = {}
  /\ UNCHANGED <<tries, verdict, probe, health, lease, outcome, wrote, world, loop>>

FinishOnce ==
  /\ at \in {"decided", "failed"} /\ command \notin Daemons
  /\ GiveBack("closing", "closing")
  /\ UNCHANGED <<pass, health, outcome, wrote, outside>>

(* cooldownStart; its put may have arrived although it failed.               *)
StartCooldown ==
  /\ at = "mark"
  /\ \/ EtcdAnswers /\ wrote' = TRUE /\ at' = "exec" /\ UNCHANGED lease
     \/ wrote' \in {wrote, TRUE} /\ GiveBack("closing", "closing")
  /\ UNCHANGED <<pass, health, outcome, outside>>

(* The reboot command; it may be on its way although it failed.              *)
Execute ==
  /\ at = "exec"
  /\ \/ ~cancelled /\ wrote' = TRUE /\ at' = "closing" /\ UNCHANGED lease
     \/ wrote' \in {wrote, TRUE} /\ GiveBack("closing", "closing")
  /\ UNCHANGED <<pass, health, outcome, outside>>

-----------------------------------------------------------------------------
(* The deferred calls of main.go, the last one first: the clients are closed,*)
(* then the context is cancelled and the heartbeat waited for.               *)

(* Slip: the wait for the heartbeat comes first.                             *)
CloseLast ==
  /\ at = "closing"
  /\ at' = (IF Reports THEN "stopping" ELSE "waiting")
  /\ UNCHANGED <<pass, health, lease, outcome, wrote, outside>>

Close ==
  /\ at = "closing"
  /\ at' = (IF Reports THEN "stopping" ELSE "waiting")
  /\ lease' = (IF lease = "kept" THEN "orphan" ELSE lease)
  /\ UNCHANGED <<pass, health, outcome, wrote, outside>>

StopHeartbeat ==
  /\ at = "stopping"
  /\ at' = "waiting" /\ cancelled' = TRUE
  /\ UNCHANGED <<command, pass, health, etcd, lease, outcome, loop, wrote, unit, starts>>

Gone ==
  /\ at' = "off" /\ phase' = "pre-lock" /\ tries' = 0
  /\ heard' = {} /\ verdict' = "healthy" /\ probe' = "clean"
  /\ beat' = "off" /\ mutex' = "free" /\ pipes' = "clean"
  /\ cancelled' = FALSE
  /\ lease' = (IF lease = "kept" THEN "orphan" ELSE lease)
  /\ outcome' = "nothing" /\ errorBackoff' = 0 /\ wrote' = FALSE /\ failures' = 0
  /\ UNCHANGED <<command, etcd, unit, starts>>

End == at = "waiting" /\ beat = "off" /\ Gone

-----------------------------------------------------------------------------
(* HealthPublisher.Run, beside the main goroutine.                           *)

elsewhere == <<at, pass, lease, outcome, world, loop>>

(* Slip: the context is looked at only while the script runs.                *)
BeatTopUnasked ==
  /\ beat \in {"top", "sleep"}
  /\ beat' = (IF beat = "top" THEN "mutex" ELSE "top")
  /\ UNCHANGED <<mutex, pipes, wrote, elsewhere>>

(* The top of the loop, and the sleep at its end, which a cancelled context  *)
(* cuts short.                                                               *)
BeatTop ==
  /\ beat \in {"top", "sleep"}
  /\ beat' = (IF cancelled THEN "off" ELSE IF beat = "top" THEN "mutex" ELSE "top")
  /\ UNCHANGED <<mutex, pipes, wrote, elsewhere>>

BeatLock ==
  /\ beat = "mutex" /\ mutex = "free"
  /\ beat' = "script" /\ mutex' = "beat" /\ pipes' = "clean"
  /\ UNCHANGED <<wrote, elsewhere>>

(* Slip: no unlock when the script timed out.                                *)
BeatScriptLocked ==
  /\ beat = "script" /\ pipes # "held"
  /\ \/ ~cancelled /\ beat' = "publish" /\ mutex' = "free"
     \/ beat' = "sleep" /\ UNCHANGED mutex
  /\ pipes' = "clean"
  /\ UNCHANGED <<wrote, elsewhere>>

(* A result is published; a script that timed out or could not run is        *)
(* reported, and waited out; one that the context killed ends the heartbeat. *)
BeatScript ==
  /\ beat = "script" /\ pipes # "held"
  /\ \/ ~cancelled /\ beat' \in {"publish", "sleep"}
     \/ cancelled /\ beat' \in {"off", "sleep"}
  /\ mutex' = "free" /\ pipes' = "clean"
  /\ UNCHANGED <<wrote, elsewhere>>

ClientsClosed == at \in {"stopping", "waiting"}

(* A publication, over clients that main.go may have closed by now.          *)
BeatPublish ==
  /\ beat = "publish"
  /\ \/ EtcdAnswers /\ ~ClientsClosed /\ wrote' = TRUE /\ beat' = "sleep"
     \/ /\ wrote' \in {wrote, wrote \/ ~ClientsClosed}
        /\ beat' \in {"sleep"} \cup {b \in {"off"} : cancelled \/ ClientsClosed}
  /\ UNCHANGED <<mutex, pipes, elsewhere>>

-----------------------------------------------------------------------------
(* The outside world.                                                        *)

(* A child that a script or a detector left behind keeps its output open     *)
(* past the time-out and the kill, until it ends.                            *)
ChildKeepsPipes ==
  /\ "script" \in {at, beat} /\ pipes = "clean" /\ pipes' = "held"
  /\ UNCHANGED <<beat, mutex, wrote, elsewhere>>

ChildEnds ==
  /\ pipes = "held" /\ pipes' = "freed"
  /\ UNCHANGED <<beat, mutex, wrote, elsewhere>>

DetectorsChild ==
  /\ \/ at = "detect" /\ probe = "clean" /\ probe' = "held"
     \/ probe = "held" /\ probe' = "freed"
  /\ UNCHANGED <<at, phase, tries, heard, verdict, health, lease, outcome, wrote, outside>>

EtcdFlips ==
  /\ etcd' = (IF etcd = "up" THEN "down" ELSE "up")
  /\ UNCHANGED <<command, at, pass, health, cancelled, lease, outcome, loop, wrote, unit, starts>>

LeaseExpires ==
  /\ lease = "orphan" /\ lease' = "none"
  /\ UNCHANGED <<at, pass, health, outcome, wrote, outside>>

(* SIGTERM or an interrupt, from `systemctl stop` or not.                    *)
Signal ==
  /\ at # "off" /\ Reports /\ ~cancelled
  /\ cancelled' = TRUE
  /\ unit' \in (IF command \in Daemons THEN {unit, "inactive"} ELSE {unit})
  /\ UNCHANGED <<command, at, pass, health, etcd, lease, outcome, loop, wrote, starts>>

Die == at # "off" /\ Gone

(* A new process begins as the last one's end has left things.               *)
Start(c) ==
  /\ at = "off" /\ at' = "start" /\ command' = c
  /\ UNCHANGED <<pass, health, etcd, cancelled, lease, outcome, loop, wrote>>

(* Restart=always, within the start limit.                                   *)
Restart ==
  /\ unit = "active" /\ starts < StartLimitBurst
  /\ Start(command)
  /\ starts' = starts + 1 /\ UNCHANGED unit

GiveUp ==
  /\ at = "off" /\ unit = "active" /\ starts = StartLimitBurst
  /\ unit' = "failed"
  /\ UNCHANGED <<command, at, pass, health, etcd, cancelled, lease, outcome, loop, wrote, starts>>

IntervalPasses ==
  /\ starts > 0 /\ starts' = 0
  /\ UNCHANGED <<command, at, pass, health, etcd, cancelled, lease, outcome, loop, wrote, unit>>

OperatorStarts ==
  /\ unit # "active"
  /\ \E c \in Command :
       /\ Start(c)
       /\ unit' = (IF c \in Daemons THEN "active" ELSE unit)
       /\ starts' = (IF c \in Daemons THEN 1 ELSE starts)

-----------------------------------------------------------------------------
PassStep ==
  \/ Gate \/ Detect \/ ScriptEnds \/ ScriptFails \/ Publish
  \/ NewSession \/ SkipLock \/ TryLock \/ BackOff \/ Ready \/ CallCancelled
LoopStep == Decide \/ Failed \/ Sleep \/ FinishOnce \/ StartCooldown \/ Execute
ExitStep == Close \/ StopHeartbeat \/ End
MainStep == Begin \/ BeginFails \/ PassStep \/ LoopStep \/ ExitStep
BeatStep == BeatTop \/ BeatLock \/ BeatScript \/ BeatPublish
Environment ==
  \/ ChildKeepsPipes \/ ChildEnds \/ DetectorsChild \/ EtcdFlips \/ LeaseExpires
  \/ Signal \/ Die \/ Restart \/ GiveUp \/ IntervalPasses \/ OperatorStarts

Next == MainStep \/ LockHealth \/ CallFails \/ BeatStep \/ Environment

(* Both goroutines go on; Go's mutex starves no one; leases run out.         *)
Fairness ==
  /\ WF_vars(MainStep) /\ SF_vars(LockHealth)
  /\ WF_vars(BeatStep) /\ WF_vars(LeaseExpires)

Spec == Init /\ [][Next]_vars /\ Fairness

-----------------------------------------------------------------------------
(* The health script never runs twice at once: the goroutines share it, and  *)
(* the mutex is taken and released in two places, on every path.             *)
OneScriptAtATime == ~(at = "script" /\ beat = "script")

(* A process that waits for its heartbeat, whose script may hang for good,   *)
(* does not keep the cluster's lock alive meanwhile: whatever ended it, the  *)
(* lease is given back or left to its TTL before the wait.                   *)
ExitKeepsNoLease == at = "waiting" => lease # "kept"

(* Once it makes passes, and without a signal, only a ready pass ends the    *)
(* daemon: errors, also of an etcd that cannot be reached any more, and      *)
(* refusals are slept out and never use up the unit's start limit.           *)
OnlyReadyPassesEndTheDaemon ==
  at = "closing" /\ command \in Daemons /\ ~cancelled => outcome = "ready"

(* `status` changes nothing the cluster shares but the lock it tries, and    *)
(* only `run` gets as far as the cooldown and the reboot.                    *)
TrialsLeaveNoTrace ==
  /\ ~Reports => ~wrote
  /\ command # "run" => at \notin {"mark", "exec"}

(* No lock is asked for and nothing rebooted, and no pass ends in "no action"*)
(* either, on an incomplete list of answers: one error hides the others'     *)
(* verdict, one request for a reboot is enough, in any place of the list.    *)
VerdictsAreComplete ==
  /\ at \in {"health", "script", "publish"} /\ phase = "monitor" => heard = {"clear"}
  /\ \/ at \in {"health", "script", "publish"} /\ phase # "monitor"
     \/ at \in {"cooldown", "session", "lock", "backoff", "ready", "mark", "exec"}
     => "reboot" \in heard /\ heard \subseteq {"clear", "reboot"}

(* The wait between two attempts at the lock is never shorter than the       *)
(* smallest one nor longer than the largest, whatever overflowed, and comes  *)
(* from a range Int63n accepts; as long as nothing overflows, its longest    *)
(* doubles with each attempt up to the maximum.                              *)
LockWaitsStayInBounds ==
  at = "backoff" =>
    LET wait == LockCap(tries - 1)
        meant == MinBackoff * Power[tries - 1]
    IN  /\ MinBackoff > 0 /\ wait \in MinBackoff .. MaxBackoff
        /\ wait - MinBackoff + 1 \in 1 .. Limit - 1
        /\ meant < Limit => wait = IF meant > MaxBackoff THEN MaxBackoff ELSE meant

(* Each failed pass in a row doubles the longest wait, up to its maximum,    *)
(* and any pass that succeeds starts over; past the failures that are        *)
(* counted it does not fall back.                                            *)
ErrorDelaysDouble ==
  LET doubled == ErrorMin * Power[failures - 1]
      due == IF doubled > ErrorMax THEN ErrorMax ELSE doubled
  IN  IF failures = 0 THEN errorBackoff = 0
      ELSE /\ failures < MaxFailures => errorBackoff = due
           /\ failures = MaxFailures => errorBackoff \in due .. ErrorMax

(* If etcd can be reached from some time on, ...                             *)
EtcdSettles == <>[](etcd = "up")
(* ... and no child keeps the output of its command open for ever, ...       *)
PipesAreFreed == "held" \in {pipes, probe} ~> "held" \notin {pipes, probe}

(* ... then a process that was told to stop ends, ...                        *)
StopEndsTheProcess ==
  EtcdSettles /\ PipesAreFreed => (cancelled ~> at = "off")

(* ... and no process keeps the lock.                                        *)
LockIsGivenUp ==
  EtcdSettles /\ PipesAreFreed => (lease = "kept" ~> lease # "kept")

-----------------------------------------------------------------------------
(* ARCHITECTURE.md: the health script runs within a bounded time-out, also   *)
(* under the lock.  The time-out kills the script only: cmd.Run goes on      *)
(* waiting for a child that has the output open, with the mutex and the      *)
(* cluster's lock in hand.                                                   *)
HealthScriptsEnd == at = "script" /\ lease = "kept" ~> at # "script"
=============================================================================
