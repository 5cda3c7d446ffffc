# Formal verification of clusterrebootd

clusterrebootd is a daemon that runs on every node of a cluster and reboots its
machine when one is required, one node at a time, and only while the cluster
can afford it. This directory holds TLA+ models of it, TLC configurations that
check them on small instances, and proofs, checked by TLAPS, of theorems about
them for every value of their constants.

| module | what it is |
|---|---|
| `LeaseLock` | what `pkg/lock` promises: the abstract lock |
| `EtcdLock` | how `pkg/lock/etcd_manager.go` keeps that promise over etcd, RPC by RPC |
| `EtcdLock_proofs` | exclusion, that losers leave no key, and that `EtcdLock` implements `LeaseLock` |
| `ClusterPolicies` | `Runner.evaluateClusterPolicies` as definitions over sets |
| `PolicyEvaluation` | the same decision as the counting loop of the code, compared with the sets |
| `PolicyEvaluation_proofs` | the loop decides as the sets do; a report of health never takes the permission from another node |
| `RebootCluster` | the cluster: `Runner.RunOnce` in `Loop.Run` on each node, the heartbeat, the lock, the cooldown, the health records, crashes and restarts |
| `MCRebootCluster` | instances of `RebootCluster` for TLC |
| `RebootCluster_proofs` | no lease leaks, exclusion up to lost leases, who reboots, freshness of the gates |
| `CooldownMarker` | what `pkg/cooldown` promises: one marker, and answers about it |
| `EtcdCooldown` | how `pkg/cooldown/etcd.go` keeps that promise over etcd, RPC by RPC |
| `EtcdCooldown_proofs` | that `EtcdCooldown` implements `CooldownMarker`, and that confirmed markers last |
| `Backoff` | the waits between lock attempts and after failed passes, in machine integers |
| `Backoff_proofs` | their bounds and their growth, for every width of the integers |
| `Detectors` | what a detector answers and what the engine makes of a list of answers |
| `Daemon` | one process on one machine: each command, its two goroutines, signals, clean-up and systemd; extends `Backoff` and `Detectors` |
| `Daemon_proofs` | the safety invariants of the process, and the detectors' loop for lists of any length |
| `Windows`, `MCWindows`, `Windows_proofs` | maintenance windows, an instance, and their meaning for every length of day and week |
| `RecursionLemmas` | induction over the naturals, recursive functions and folds: what the proofs about loops and powers of two rest on |

`LeaseLock` is the seam of the project: `EtcdLock` is proved to implement it,
and `RebootCluster` is built on it, so the cluster model need not repeat the
RPCs of the lock. `CooldownMarker` stands in the same place for the cooldown.
`RebootCluster` and `Daemon` cut the program along different lines: the first
has several nodes and what they share, the second one process with all that
happens inside it, and leaves open what etcd answers. Neither repeats the
other's properties.

## 1. Inventory

### The system's parts

**Orchestration pass** (`pkg/orchestrator/runner.go`, `Runner.RunOnce`). State:
none between passes except the memory of what was reported. One pass reads, in
this order: kill switch, maintenance windows, detectors (not required: run the
health script once to monitor, publish, stop), cluster policies over the shared
records, health script and its publication, cooldown marker; then it tries the
lock up to five times, with a jittered wait between two attempts that doubles up
to a maximum; under the lock it reads kill switch, policies, detectors
and health script again. Each read may block the pass or fail. A deferred
release gives the lease back on every path except a ready outcome that is not a
dry run, which hands the lease to the loop.
*Correct when*: no reboot rests on a decision of an earlier pass; everything
documented as a gate closes the way to the reboot; no path leaks the lease; each
wait is within its bounds whatever overflowed.

**Orchestration loop** (`loop.go`, `Loop.Run`). State: the error backoff. On a
ready outcome it starts the cooldown, runs the reboot command and ends with the
lock in hand; on an error of either it releases the lock and ends; after any
other outcome it sleeps and starts over.
*Correct when*: a required reboot happens in the end; each exit leaves lock and
marker as documented; an error of a pass never ends it; the error backoff doubles
and starts over.

**Heartbeat** (`health_publisher.go`, with `Runner.PublishHeartbeat`). A second
goroutine: health script, then publication, every interval. A mutex is held
around the script only, not around the publication.
*Correct when*: the shared record follows the node's health; the script never
runs twice at once; no goroutine keeps the mutex; a stop request ends it.

**Distributed lock** (`pkg/lock`). State: in etcd, a lease and a key per
session; in the process, a session with its keepalive. `Acquire` is four RPCs
(grant, put-if-first, delete of a loser's key, annotation), `Release` two
(delete, revoke). Nothing watches `Session.Done`.
*Correct when*: etcd never honours two handed-out leases; a failed or abandoned
call leaves no key behind for good.

**Cooldown marker** (`pkg/cooldown`). State: one key with a lease in etcd.
`Status` (get, time to live), `Start` (grant, put, revoke on failure).
*Correct when*: no reboot starts within another's window; the marker lasts as
long as its window and goes away after it, whatever failed.

**Health records** (`pkg/clusterhealth`). State: one key per node in etcd,
without a lease. *Correct when*: a record is a node's last report.

**Cluster policies** (`evaluateClusterPolicies`). No state.
*Correct when*: the loop counts each node once, itself as healthy, and decides
as the policies say.

**Maintenance windows** (`pkg/windows`). State: two lists of intervals, fixed
at start-up. *Correct when*: a moment is in a window exactly if the expression
means it to be, over midnight and over the end of the week.

**Detectors** (`pkg/detector`), **health script runner** (`pkg/health`),
**executor** (`executor.go`). No state of their own; each turns a command, a
file or a script into a verdict or an error. `cmd.Run` returns when nobody has
the output of the command open any more, which may be long after its time-out.
*Correct when*: a verdict rests on a complete list of answers.

**Daemon** (`cmd/clusterrebootd/main.go`) and **systemd unit**. State: the
process, its context, its clients; the unit and its start counter. `run` builds
the parts, runs the heartbeat and the loop, closes the clients, cancels the
context and waits for the heartbeat, in this order; `run --once` and `status`
make one pass. `Restart=always` with a start limit.
*Correct when*: a process that is told to stop ends; a process that ends, or
hangs at its end, does not keep the lock; `status` publishes nothing, and neither
it nor a dry run starts a cooldown or reboots; no failure of a pass ends the
daemon.

**Not control**: configuration, observability, event deduplication, version.

### How they interact

The loop calls the pass, the pass calls everything else. Loop and heartbeat
share the health script's mutex and the node's record. Nodes share the lock, the
cooldown marker and the records, all in etcd, and learn of each other in no
other way. The reboot command ends the process and later the machine; the lock
is not renewed meanwhile.

### What is hard

* Everything a pass has read may change before it is used: the pass waits for
  the lock between its first and second readings, and two of its gates (windows
  and cooldown) are read only before that wait.
* Any RPC may fail after it took effect; a process may die between any two.
* A lease may run out under a live process, and always does under a rebooting
  machine.
* Two goroutines publish the same record and share a mutex that knows no
  context.
* Errors on the clean-up paths: release, revoke, annotation.
* A child of a script or a detector may hang past every time-out, with the mutex
  or the lock in its parent's hand.
* The deferred calls of `main` run while the heartbeat still does.

`PROJECT.json` lists these hazards one by one, at the lines where they bite,
with the properties that cover them or the reason why none does yet.

## 2. How the models correspond to the code

### LeaseLock and EtcdLock

`LeaseLock` has two variables: whose lease the service honours (`holder`) and
which clients have a lease in hand (`held`). The two differ, which is the whole
difficulty of a lock with a lease: `Expire` takes the lock from a client that
does not notice.

`EtcdLock` has one action per RPC of `Acquire` and `Release`, each with its
failures. A failure may happen before or after etcd applied the request, so
`TryLockFails` may have left a key, `NewSessionFails` a lease nobody keeps
alive, `Close` may fail to revoke. `Crash` forgets the process, `LeaseExpires`
ends any lease, with or without keepalives. etcd and the client library are
external, and modelled from how they are used: live leases, keys that vanish
with their lease, the mutex owner being the key created first. `TryLock`
compares in the transaction that creates its own, youngest key, so it wins
exactly if its key is the only one.

The refinement mapping: the abstract holder is the client whose annotated key is
still there; `held` is the set of clients at `pc = "held"`. A release maps to
`Abandon` when it starts and to `Expire` when its delete takes effect; the
abstract `Release`, which `RebootCluster` uses, is the two in one step. `Grant`
is the annotation, the last RPC of a successful `Acquire`.

### RebootCluster

One `pc` per node follows the main goroutine through `RunOnce` and `Run`:

| `pc` | code |
|---|---|
| `kill1`, `window`, `detect1`, `monitor`, `publish0` | `RunOnce` up to the monitoring outcome |
| `cluster1`, `health1`, `publish1`, `cooldown` | the gates before the lock |
| `lock` | `acquireLock`, with `tries` attempts lost |
| `kill2`, `cluster2`, `detect2`, `health2`, `publish2` | the gates under the lock |
| `ready`, `exec` | `Loop.Run` on a ready outcome: before the cooldown is started, and while the reboot command runs |
| `pause`, `exited` | between two passes; the process has ended |

Every read of the outside world is a step, so anything may happen between two
of them. `Gate` is the shape of a read that lets the node pass or ends the
pass, the deferred release included; `RunScript` and `Publish` are the halves of
`runHealthAndUpdate`; `GiveBackOrFail` is the deferred release with its
failure. `StepFails` lets any other call of the pass fail, a publication with
or without effect. `stray` is a key that an `Acquire` left behind when it failed
or its process died: nobody gets the lock before `StrayTTL`. `BeatScript` and
`BeatPublish` are the heartbeat, whose result may be published after, and so
overwrite, a newer one.

`kill`, `due`, `fit`, `open` are what the kill switch file, the detectors, the
script and the windows would say now; `Flip` changes one of them.
`rebooting` holds the machines between an accepted reboot command and the end
of their boot. `clear` and `seen` are history: which gates were open at some
moment since the node got the lock, and since its pass began.

Data that no property tells apart is left out: messages, durations, the payload
of keys, the reason of an error.

### CooldownMarker and EtcdCooldown

`CooldownMarker` has one marker, and for each node that asks the set of answers
it may be given (`pending`): whatever was in force since it asked. One answer is
weaker than an atomic read. If the marker is *replaced* while a node asks, the
node may hear that there is none: `Status` reads the key first and then asks for
the lease of the marker it saw, which may be gone by then. `RebootCluster` reads
the marker in one step and leaves this answer out: it is heard only while two
nodes' cooldowns overlap, which takes the behaviour of `cooldown_race`, or a put
that failed and took effect.

`EtcdCooldown` has an action per RPC. `Grant`, `Put` and, after a failed put,
`Revoke` are `Start`; `Get` and `TimeToLive` are `Status`. `GrantFails` leaves a
lease nobody knows, `PutFails` may have written the key or leave a request that
arrives later (`LatePut`), `Revoke` ignores its own failure, `Crash` may strike
between any two. Nobody keeps these leases alive: each nears its end
(`LeaseNearsEnd`, from where etcd answers 0 seconds) and ends. The abstract
marker is the node in the payload of the key, as long as the key's lease has a
second to live.

### Daemon, Backoff and Detectors

`at` follows the main goroutine through the program, `phase` tells the three
parts of a pass apart (before the lock, the monitoring script, under the lock):

| `at` | code |
|---|---|
| `start` | `commandRunWithWriters` or `commandStatusWithWriters`: the clients are made, each of which asks etcd for its version |
| `kill`, `window`, `detect`, `cluster`, `cooldown` | the gates of `RunOnce`, in the order of `After` |
| `health`, `script`, `publish` | `runHealthAndUpdate`: waiting for the mutex, the script, the record |
| `session`, `lock`, `backoff` | `acquireLock`; `NewSession` is made without the caller's context |
| `ready` | the end of `RunOnce` under the lock |
| `decided`, `failed`, `sleep`, `mark`, `exec` | `Loop.Run`: after a pass, its sleeps, `startCooldown`, `Execute` |
| `closing`, `stopping`, `waiting`, `off` | the deferred calls: clients closed, context cancelled, heartbeat waited for; no process |

`beat` is the heartbeat goroutine beside it (`HealthPublisher.Run`), `mutex` is
`healthMu`. `pipes` and `probe` say whether a child of the running script or
detector keeps its output open: `cmd.Run` waits for it past the time-out and
past a cancelled context. `EtcdFlips` lets etcd come and go between any two
steps: a call that needs it fails or, without a context, waits. `cancelled` is
the context of the signals; `status` has none and is killed (`Die`). The unit's
state and start counter follow `Restart=always`, `StartLimitBurst` and
`StartLimitIntervalSec`.

`CallFails` is the error return of every call of a pass, with the deferred
release. Only some calls return because the context is cancelled
(`CallCancelled`): the stat of the kill switch, the mutex and the session do
not. Fairness makes the second return, not the first.

`lease` is the lock's lease as this process has it: in hand with its keepalive,
or left to its TTL. `Close` closes the client and with it the keepalive.

`Backoff` keeps `nextBackoffDelay` and `nextErrorDelay` with their wrapping
arithmetic (`Wrap`) and their guards against it. The random part is the range it
is drawn from, named by its upper end. `Detectors` turns the outcome of a stat
or a command into an answer, and folds a list of answers as `Engine.Evaluate`
does.

### Policies and windows

`ClusterPolicies` states the four policies over sets of nodes; `RebootCluster`
decides with it. `PolicyEvaluation` translates the loop of the code, with its
`seen` set and its three counters over the list of records etcd returns, and
compares. etcd lists the records by key; the nodes' names are not modelled, so
`Status` allows every order. Of the unhealthy records of others
(`filterClusterRecords`) only their presence counts, so they are a set. The
fraction is a whole number of hundredths; what rounding of binary
fractions adds is not modelled.

`Windows` takes a parsed expression, with a list of ranges of days as its start
and perhaps another as its end, to intervals (`parseDaySpec`, `Intervals`), and
looks a moment up in them (`Allowed`). `Expressions` leaves out what
`parseExpression` refuses: an end day together with more than one day. What an
expression means (`IsOpen`) is stated with distances on a circle and shares
neither the expansion of the days nor the intervals. A day has `DayLen` units
and a week `DaysPerWeek` days, 86 400 and 7 in the code.

## 3. What TLC checks

| run | states | what it shows |
|---|---|---|
| `etcd_lock` | 45 872 | The lock is exclusive and implements `LeaseLock`; a contender that is told "not acquired" has left no key; no key stays behind for good. |
| `cluster_safety` | 1 123 761 | A lease is in hand exactly under the lock; each reboot rests on gates found open since the lock was taken (windows and cooldown: in the same pass); each node under the lock that is not its holder stands for a lease a live process has lost; while leases last, only the holder's machine goes down; and the lock is left to its TTL only for a reboot or after a fault. |
| `cluster_liveness` | 116 694 | A due node whose gates stay open reboots; a node's record follows its health. |
| `policies` | 10 800 | The counting loop decides as the sets do, whatever the order of the records; a healthy report never takes a permission away. |
| `windows` | 1 189 737 | Each pair of a deny and an allow window decides every moment as the expressions mean. |
| `daemon` | 278 704 | One process, every command. Safety: one script at a time; a process that waits for its heartbeat keeps no lease; without a signal only a ready pass ends a running daemon; `status` publishes nothing and only `run` reboots; waits and error delays are powers of two times their minimum, within their bounds; verdicts rest on complete lists. Liveness: a stop request ends the process, and the lock is given up. |
| `cooldown` | 325 890 | `Status` and `Start` over etcd implement `CooldownMarker`; a marker whose `Start` succeeded is not removed before its last second; every marker ends. |
| `parallel_reboots` | violated | Two machines are down at once. |
| `lost_lease` | violated | A node starts the reboot command while the lock is another node's. |
| `cooldown_race` | violated | A reboot starts within another node's cooldown. |
| `window_race` | violated | A reboot starts in a blackout window. |
| `hung_script` | violated | Under the lock, the health script does not return after its time-out. |

### Bounds, and why they are enough

* Two clients and three sessions in `EtcdLock`: every hazard is between one
  client and what another, or its own dead predecessor, left behind. Three
  sessions allow one left-over lease beside two active ones. The theorems cover
  any number of both.
* Two nodes in `RebootCluster`: the properties relate a node to one other. Two
  attempts at the lock show a first and a last one. `MaxFlips` and `MaxFaults`
  bound the changes of the outside world and the failures of one behaviour, not
  where they strike: one change and one failure may fall between any two steps.
  The theorems drop these bounds too (any number of nodes, flips and faults,
  any policy).
* Three nodes, five fractions around the thirds and the half, thresholds up to
  one more than the nodes in `PolicyEvaluation`.
* Three days of three units in `Windows`: enough for a window within a day,
  over midnight, over a full day in between and over the end of the week, each
  starting and ending anywhere. One of the two expressions may list two ranges
  of days, which may overlap. The theorem covers every length and every list.
* Two nodes and two leases in `EtcdCooldown`: a node against one other, or
  against what its own earlier call or earlier life left behind. A lease's
  identifier is used again only when nobody remembers it. The theorems cover any
  number of both.
* One process in `Daemon`, which starts again as any command; five attempts at
  the lock, the number of the code. `Limit = 64` with a `Second` of 5 and
  backoffs of 2 and 12 seconds let three of the four waits double exactly and
  the fourth overflow; error delays between 1 and 3 units meet their
  cap on the third failure, and `MaxFailures = 3` counts up to there. Two starts
  per interval instead of five. One file and one command detector, in this
  order, with each of their outcomes. `CooldownOn` is true in the run and free
  in the theorems, as are all of these.

### Fairness

`EtcdLock`: a call that was started goes on, as its RPCs return or time out,
and a lease without keepalives runs out. Nothing forces a client to call.

`RebootCluster`: each goroutine goes on (weak fairness of `Pass`, `BeatScript`,
`BeatPublish`); systemd restarts a daemon that ended (`Restart=always`); a
machine that goes down comes back; what has a TTL runs out. `ServiceStart` has
no fairness on dry-run nodes: a dry-run daemon ends after each ready pass, and
the unit's start limit (five starts in a minute) makes systemd give up on it.
So `RecordsFollowHealth` speaks of the other nodes, and `DueNodesReboot`
excepts an unhealthy record such a node has left behind. Acquisition is
strongly fair, and `DueNodesReboot` assumes that a node that tries again and
again does not only try while the lock is taken or a key left behind refuses it
(`RandomBackoff`): the backoff is jittered (`nextBackoffDelay`), and nothing
synchronises two nodes' attempts. That contenders refuse each other for ever,
or that a dry-run node always gets there first, is thus assumed away, not
refuted.
The liveness run has no faults and one change of the world, from which point on
everything must settle; it starts from healthy and from unhealthy nodes, so both
a failure and a recovery are covered, and from nodes with a kill switch, whose
records only the heartbeat keeps up to date.

`EtcdCooldown`: time passes for each lease; nothing else is fair, calls may be
abandoned anywhere.

`Daemon`: both goroutines go on (`MainStep`, `BeatStep`), which covers that a
call returns an error when its context is cancelled and that a script ends when
its pipes are free, but not that anything else fails. `LockHealth` is strongly
fair: Go hands a mutex over to a goroutine that has waited for a millisecond.
Leases run out. Nothing forces the environment. Both liveness properties have
two premises, and both are needed: without either TLC finds a counterexample.
`EtcdSettles`: etcd can be reached from some time on, as `NewSession` waits for
it without a context, stop request or not. `PipesAreFreed`: no child keeps a
command's output open for ever, which `hung_script` shows the time-outs not to
prevent.

## 4. What is proved

All proofs hold for every value of the constants under the named assumptions
`EtcdLockAssumption`, `ClusterAssumption`, `PolicyAssumption`,
`WindowsAssumption`, `EtcdCooldownAssumption`, `BackoffAssumption` and
`DaemonAssumption`, which say no more than that "nobody" is not a node, that a
cluster is finite, that counts are naturals and percentages percentages, that a week
has a day and a day a unit, that a second and the loop's delays are durations,
and that the configured backoff is as `Config.validate` leaves it (a positive
minimum, not above the maximum; nothing bounds either from above).

* **`EtcdLock_proofs`**: `TypeCorrect`, `MutualExclusion`, `LosersLeaveNoKey`,
  `Refinement`. Exclusion is not inductive: the key that is there first may not be annotated
  yet. The invariant `IInv` adds that no two clients use one session
  (`OwnSessions`), that only a key that is there has an owner (`GrantedKeys`),
  that a client on its way to the annotation has not been granted anything yet
  (`NotYetGranted`) and still has its key if it still has its lease
  (`AnnotatedKeys`), and that at most one key is annotated or about to be
  (`OneWinner`). The refinement then goes action by action: only `Annotate` can
  make a holder, only the end of an annotated key can unmake one.
  For the losers the invariant (`LoserInv`) says that an attempt never carries the
  answer of an earlier one, and that "not acquired" is answered without a key.
* **`RecursionLemmas`**. The provers cannot instantiate the library's induction
  theorems, which take an operator. `SetInduction` gets induction from the
  well-foundedness of the naturals instead: a set that has zero and every
  successor has no smallest gap. On it rest the existence of a recursive function
  (`NatRecursion`) and of a fold over the indices of a list (`FoldExists`). A
  theorem about a loop then takes two steps: the loop's fold is a sequence of
  values, each obtained from the one before it and one element of the list
  (`LoopByRecord`, `LoopByAnswer`), and an invariant of that sequence holds up to
  its end by `SetInduction`.
* **`PolicyEvaluation_proofs`**: `CountsAgree`, `HealthyReportsHelp`,
  `HealthyReportsOpen`, for any finite set of nodes, any policy and any order of
  the records. The loop invariant (`Counted`) says what the counters hold once a
  set of nodes has been seen; `CountSelfCounts` establishes it for the node
  itself and `CountRecordCounts` keeps it over one record. A list has every
  record, as it is as long as the set and repeats nothing (`StatusLists`), so at
  the end the nodes seen are the known ones. That a healthy report does not block
  is proved of the sets: one more known node raises the rounded-up threshold by
  one at most (`CeilGrowsByOne`), and a node that reports health adds one to the
  healthy nodes whenever it adds one to the known ones. `CountsAgree` carries it
  over to the loop.
* **`RebootCluster_proofs`**: `TypeCorrect`, `NoLeaseLeak`, `Exclusion`,
  `ClusterUsesTheLock`, `HolderIsAway`, `LastingLeasesSuffice`,
  `LapsesAloneBreakTheLock`, `LockFreed`, `FreshReboots`. `LockInv` joins "a lease is in hand
  exactly under the lock" with "the leases in hand that are not honoured are no
  more than have lapsed" (`LeasesLapsed`); the second needs the first in every
  action that leaves the locked section, and only `LeaseLapses` adds to either
  side. Since every step is one of `LeaseLock`'s or leaves the lock alone
  (`LockMoves`), the holder never changes at once from one node to another, which
  gives `HolderIsAway`. `LastingLeasesSuffice` and `LapsesAloneBreakTheLock` turn
  the violated runs around: no two machines are down at once in a behaviour
  without a lapse in which the lease left behind outlasts the reboot, and every
  command starts under the lock in a behaviour without a lapse. `LockFreed` goes
  over every way out of the section: whoever takes an honoured lease out of the
  holder's hand without a release is the holder itself (`AbandonedByTheHolder`),
  and it does so only in `Execute`, in a fault or as its machine goes down.
  `FreshInv` says,
  for each `pc`, which gates must be on record by then; it is kept because the
  histories only grow inside the section (`TrackRecords`) and each gate's step
  adds its own. A script's result on its way to its publication is covered by a
  clause of its own.
* **`Windows_proofs`**: `WindowsMeanWhatTheySay`. The days of a range are those
  reached from its first day before its last (`RangeIsCircular`, `SpecIsDays`),
  and a specification that comes down to one day names it (`OneDayIsTheDay`).
  Splitting at the end of the week equals elapsed time on a circle
  (`SplitIsCircular`), for every length; the two kinds of expression follow.
* **`EtcdCooldown_proofs`**: `TypeCorrect`, `ConfirmedLast`, `Refinement`. The
  invariant adds that a lease `Start` works with belongs to it alone and is not
  confirmed (`OwnLease`), which is why a clean-up cannot take a confirmed marker;
  that a `Status` under way may answer with the marker in force now and, once it
  has read a key, with that key's node as long as its lease lives and with
  "none" afterwards (`Reading`); and that only a node in `Status` has answers to
  choose from (`Pending`). Every step then maps to a change of the marker, a
  question, an answer, or nothing.
* **`Backoff_proofs`**: `LockCapBounded`, `LockCapDoubles`,
  `ErrorBackoffBounded`, `ErrorBackoffGrows`, `PowersDouble`. Whatever wraps
  around, the two comparisons after the multiplication bring the wait back
  between its bounds; and as long as the minimum times the power of two is a
  duration, neither the shift nor the product has wrapped, so the wait is that
  product, or the maximum. `ErrorBackoffGrows` needs that twice the maximum is a
  duration: otherwise an overflow starts the delay over at its minimum. (The
  loop's maximum is a minute.)
* **`Daemon_proofs`**: `TypeCorrect`, `OneScript`, `NoLeaseAtExit`,
  `DaemonGoesOn`, `NoTrace`, `LockWaits`, `WholeListDecides`,
  `VerdictsComplete`, `DelaysDouble`. None of these invariants is inductive
  alone. `IInv` says that no pass comes back from under the lock to what is
  checked before it (`PhaseInv`), that exactly the goroutine in the script has
  the mutex (`MutexInv`), that a process that has not begun or has closed its
  clients keeps no lease (`ClosedInv`), that only a ready outcome of `run` leads
  past the loop (`ReadyInv`), that only daemons have a heartbeat and a process
  that reports nothing has written nothing (`TraceInv`), that a backoff
  follows a lost attempt (`TriesInv`), and that a pass that wants to reboot, or
  only monitors, has heard the answers for it (`HeardInv`). One lemma per part,
  one step per action; `LockWaits` then cites the theorems of `Backoff_proofs`.
  `WholeListDecides` is about the engine's loop over any number of detectors,
  where the run and `HeardInv` have one of each kind. `DelaysDouble` is an
  invariant on its own: only four actions touch the delay or the count of
  failures (`LoopSteps`). It too assumes that twice the maximum is a duration.

Only model-checked: the liveness properties (`DueNodesReboot`,
`RecordsFollowHealth`, `KeysDoNotOutliveTheirUsers`, `MarkersEnd`,
`StopEndsTheProcess`, `LockIsGivenUp`), as liveness under fairness is out of the
prover's reach. Every invariant and every action property of a passing run is
proved.

## 5. Where code and documents disagree

1. **Reboots in parallel** (`parallel_reboots`). `src/PRD.md:356` wants no two
   reboots in parallel. The lock is left to its TTL as soon as the reboot
   command was accepted; a machine that takes longer to go down and come back,
   without a cooldown (the default), is down together with the next one.
2. **Lost lease** (`lost_lease`). `src/docs/STATE.md:35` has the lease held
   until the reboot command, which prevents concurrent reboots. Nothing watches
   the session: a live process that was cut off from etcd for a TTL goes on, and
   runs the command beside the node that has the lock by then.
3. **Cooldown** (`cooldown_race`). `src/docs/OPERATIONS.md:64` has new attempts
   refused until the window expires. The marker is read before the wait for the
   lock only; a node that was waiting when another started its cooldown gets
   the lock (at the TTL, or when the reboot command failed) and reboots.
4. **Windows** (`window_race`). `src/PRD.md:210` wants no reboot in a blackout
   window. The windows are evaluated at the start of the pass only.
5. **Time-out of the health script** (`hung_script`). `src/docs/ARCHITECTURE.md:16`
   has it run within a bounded time-out. The time-out kills the script's own
   process; `cmd.Run` (`src/pkg/health/script.go:68`; `cmd.WaitDelay` is not set)
   goes on waiting for a child that has the output open, with the mutex and, in
   the post-lock phase, the cluster's lock, for as long as the child lives.

`NoLeaseLeak`, `Exclusion` and `FreshReboots` mark what does hold against these:
every gate read twice is fresh, and the section under the lock is exclusive, up
to the exceptions they name. `LastingLeasesSuffice` says what would be enough
against the first: a lease that lasts until the machine is back.

### Observations without a run

Met while modelling; the models contain the behaviour unless said otherwise, and
no run is spent on it.

* A command detector waits for a child that keeps its output open in the same
  way (`src/pkg/detector/detector.go:128`), where `src/docs/ARCHITECTURE.md:63`
  has its time-out keep the coordinator from hanging. The model has it
  (`DetectorsChild`); `hung_script` shows the common cause.
* `src/PRD.md:358` wants a defined fallback node to stay available, and the test
  plan in line 233 an only fallback to be blocked. `forbid_if_only_fallback_left`
  asks whether all healthy nodes are fallbacks, not whether the node about to
  reboot is the last one, which therefore reboots while any other node is
  healthy (`src/pkg/orchestrator/runner.go:944`, `OnlyFallbackLeft`).
* A put of the cooldown marker that failed and arrives late may take the place
  of another node's marker, and is then revoked or runs out: the rest of the
  other node's cooldown is lost. It may also start a cooldown without a reboot.
  `ConfirmedMarkersLast` is about removal, not replacement.
* `src/docs/OPERATIONS.md:182` has `status` report `lock_unavailable` when etcd
  cannot be reached; making the client or the pass fails instead, and `status`
  exits with code 1. So it does when the script times out, where line 181 has
  `health_blocked`.
* `status --skip-lock` has no client for the health records, so it counts one
  healthy node, its own, and `min_healthy_absolute` of two or more always
  blocks it.
* A daemon that starts while etcd cannot be reached ends at once. With
  `RestartSec=5` and a dial time-out of five seconds it starts every ten
  seconds, so five starts in a minute are used up and the unit is left failed,
  also when etcd is back. A dry-run daemon meets the same limit when a reboot
  is required. `OnlyReadyPassesEndTheDaemon` is about daemons that have got as
  far as their first pass.
* A daemon that is told to stop exits with the code of its last completed pass,
  so not with 0 after one that was blocked. (Exit codes are not modelled.)
* A failed read of the health records is reported as every peer missing, and the
  next good one as every peer new (`src/pkg/orchestrator/runner.go:1014`).
  Records have no lease, so a peer that has died is never reported missing.
  (Reports are not modelled.)

## 6. Plan

Done, in this order: the lock (abstract, detailed, refinement), the policies,
the cluster, the windows; then the cooldown (abstract, detailed, refinement),
the backoffs, the detectors and the process with its goroutines, signals and
service manager. What could follow:

1. Theorems: what the windows decide for whole lists of expressions, spelled as
   the code's loops; the cluster's exclusion straight over `EtcdLock`.
2. `RebootCluster` over the weaker reads of `CooldownMarker`.
3. `status --skip-health` as a further command of `Daemon`, and exit codes.

## 7. Not modelled

* Configuration loading and validation: one thread, once; its types and ranges
  are the constants' assumptions.
* Observability and the memory of what was reported (outcomes, cluster
  summaries, peers): no control depends on them, and a model of comparing two
  maps would repeat the comparison. What the reports get wrong is noted above.
* Of the command line: exit codes, printed reports, the metrics server,
  `simulate` (one evaluation of the detectors and nothing else),
  `validate-config`, `status --skip-health`.
* Of systemd: the disable file.
* `EtcdManager.Start` of the cooldown with no duration, which deletes the key:
  nothing calls it.
* Time in units: a time-out, a TTL or a sleep is an event that may happen at any
  moment it can. Packaging.
