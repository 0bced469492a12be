# A formal model of tai-talea

tai-talea is a control plane for LLM inference capacity.  Partner platforms
offer GPU containers; the control plane takes each container over, prepares it,
assigns it a role (prefill, decode or regular), starts an SGLang process in it
through a small bootstrap service, registers the process with a Router, watches
it, and drains and returns the container when the partner or the operator asks.

This directory holds TLA+ modules of the parts of the program where most of its
difficulty lies: the life of one capacity instance under many concurrent
goroutines, the way the partner's events and snapshots reach the instances, the
planner's rounds over a pool of them, the creation of new ones on demand, and the
service inside each container that starts and stops the model server.  With them
come the TLC runs that check them on small instances, and TLAPS proofs of the
central results.  Paths below are relative to the repository; a line number
without a path is in `internal/controller`.

## 1. Inventory

| component | state it keeps | operations | what makes it correct |
|---|---|---|---|
| **State graph** `domain/state.go`, `domain/instance.go` | none (tables) | CanTransition, ValidateTransition, CheckCombination | no path of writes stores an impossible pair of states |
| **Instance store** `store/sqlite.go` | SQLite rows: instances, operations, events, snapshots, audit, provision jobs | ApplyTransition, Touch..., ClaimEvent, CompleteEvent, SaveSnapshot, ... | a writer with an old copy erases neither a reclaim, nor a queued identity, nor a newer observation; RELEASED is final |
| **Lifecycle controller** `lifecycle.go`, `reclaim.go`, `controller.go` | per-instance mutexes, miss counters; the row and the operation rows | runPrepare, StartService, finishStart, register, ensureReadiness, failStart, RequeueService, beginDrain, finishDrain, BeginRelease, RequestReclaim, markLost | one owner at a time; no traffic to a draining worker; no container returned with a live process; bounded starts; every reclaim ends |
| **Reconciler** `reconcile.go` | nothing across rounds but the counters | ReconcileOnce, settleService, rearmStartBudget, ResumeOpenOperations, Recover | converges; acts on nothing that is not true any more |
| **Capacity events** `events.go`, `event_recovery.go` | event rows, replay cursor, admission mutex | HandleCapacityEvent, the four handlers, ResumePendingEvents | every claimed event takes effect exactly as if once; old events do not undo newer ones |
| **Pull reconciler** `pull_reconcile.go`, `partner/pull.go` | absence clocks (memory), failure counts, snapshot version | Plan, sweep, Commit, RecordFailure | push during the poll wins; an absence is believed only after its grace; a version is committed only when all of it was accepted |
| **Planner** `planner/planner.go` | gear, idle counters | Plan | ratio and minimum are respected, no thrashing |
| **Rebalance, start gate** `rebalance.go` | reservations, gate slots | Rebalance, applyStarts, runStart | one start per instance, bounded loads, slots returned |
| **Provisioning** `api/provision.go`, `store/provision.go` | job tracker (memory), job rows, cancel handles | RequestCapacity, run..., cancel, resume, abandon | one container per request, also after a restart; a cancelled or failed job keeps none |
| **Onboarding** `onboarding/manager.go`, `onboard.go` | job files | Submit, RunOnce, EnrollPrepared | jobs survive crashes, install once, no credentials left |
| **Bootstrap** `bootstrap/.../service.py` | supervised process, phase, generation | start, stop, status, health | stop never orphans a process; at most one process |
| **Router adapter** `routeradapter/client.go` | none | Register, Find, SetReadiness, RemoveStaleMembership | never removes the membership of another worker |
| **Bootstrap client, container checks** `launcher`, `instancemanager` | none | Start, Stop, Status, Health, Prepare | |
| **Telemetry** `telemetry/collector.go` | samples, failure streaks | Run, Snapshot | stale samples are not used as load |
| **Partner adapters** `partner`, `partners` | HTTP clients | Snapshot, ReleaseInstance, CreateInstance | |
| **API, console** `api` | none but the provisioning tracker | push events, drain, requeue, release, reclaim, reconcile | |
| **Alerts, metrics, synthetic probe** `obs`, `synthetic.go` | cooldowns, counters | | |
| **Installer, deployment** `provision/`, `deploy/`, `tools/` | files | sequential scripts | |

How they interact.  Everything meets in the instance row.  The reconcile loop,
the planner's start goroutines, API handlers, push events and the pull loop run
concurrently; each reads the row, makes network calls and writes the *whole* row
back.  `instanceOperation(id)` is a mutex per instance: rounds only try it,
starts and `FinishDrain` wait for it, `BeginRelease` does not take it.  The
store merges the columns that a stale whole-row write must not erase.  `main`
runs `Recover` before anything else.

What is hard: copies that are old when they are written; operations interrupted
by a crash, a cancelled request or a lost reply; a Router that restarts and
forgets its workers; containers that become unreachable and come back; a partner
that replaces a container while its service is being started or drained; a
reclaim that arrives at any of these moments.  `PROJECT.json` lists the hazards
line by line with the properties that cover them.

## 2. Modules

| module | models |
|---|---|
| `Domain` | the state graph |
| `Store` | the row and `ApplyTransition`, as functions of the current and the requested row |
| `InstanceTable` | **abstract specification**: how one row may ever change |
| `Lifecycle` | the controller, the reconciler and the world of one instance |
| `LifecycleProperties` | what has to hold of it, and the refinement mapping to `InstanceTable` |
| `CapacityEvents` | events of the partner: event log, handlers, replay and the authoritative pull, over several instances |
| `CapacityEventsProperties` | what has to hold of it |
| `Planner` | the decision of one planner round, as an operator `Plan` |
| `Rebalance` | the planner loop over a pool: rounds, their actions, the start gate |
| `Provision` | creation of a container: provision jobs, onboarding, enrolment |
| `Bootstrap` | the supervisor in a container: its threads, its process groups, its shutdown |
| `MCLifecycle`, `MCCapacityEvents`, `MCRebalance`, `MCProvision`, `MCBootstrap` | the modules TLC runs; one `.cfg` per question |
| `Store_proofs`, `InstanceTable_proofs`, `Lifecycle_proofs`, `LifecycleSafety_proofs`, `CapacityEvents_proofs`, `Rebalance_proofs`, `Bootstrap_proofs`, `Provision_proofs` | theorems and proofs |

`Lifecycle` sees the bootstrap as a thing that is called and answers, and the planner
and the partner as callers that may do anything legal at any time.  `Bootstrap`,
`Rebalance`, `Provision` and `CapacityEvents` are what is behind these callers; each
takes an instance with just the states it can tell apart.

An operator named `X_Variant` is `X` with a plausible bug.  No specification uses
it; it is there to show that a property would notice that bug.

### How Lifecycle corresponds to the code

A *thread* is a goroutine in the middle of an operation.  It has a place `pc`, the
copy of the row it carries (`copy`), whether nothing was committed since it took
its snapshot (`fresh`, the `UpdatedAt` comparison), and the branch it came from
(`why`).  A step ends where the code leaves the process, i.e. calls the Router,
the bootstrap or the partner, or commits a transaction.  Code between two such
points that only reads the database and then commits is one step: while the lock
is held only reclaim requests and observations can get in between, and the merge
in the store makes these commute with the write.  The unlocked `BeginRelease`
reads and commits in two steps.

| operation | actions |
|---|---|
| runPrepare | `Prepare`, `PrepareCommit` |
| StartService, finishStart, resumeStart | `StartService`, `Launch`, `Health`, `Advance`, `Register`, `Open`, `Serve`, `FailStart` |
| beginDrain, recordReclaimError | `BeginDrain`, `DrainCommit`, `ReclaimErr` |
| finishDrain, failDrain | `FinishDrain`, `Drained`, `DrainFail` |
| BeginRelease | `BeginRelease`, `Releasing`, `Return`, `Returned` |
| reconcileInstance | `Reconcile`, `ReclaimStep`, `UpdateStep`, `Probe`, `Unreach`, `Lost`, `ActExited`, `ActLost`, `ActFailed`, `ActStarting`, `ActOn` |
| settleService | `Settle`, then `Advance`, `Register`, `Open`, `Serve`, `FailStart` or `BeginDrain` |
| re-arm, requeue, reclaim | `Rearm`, `RequeueService`, `RequestReclaim` |
| planner, operator | `PlannerStart`, `PlainDrain`, `OperatorRelease` |
| partner events | `Revoke`/`Revoked`, `CapacityUpdated`, `Reoffer`/`ResumeAdd`/`Allocate` |
| crash, recovery, cancelled calls | `Crash`, `ResumeOpenOperation`, `Listen`, `Cancel` |

The world is external: `Partition`, `Heal`, `Loaded`, `Degrades`, `Dies`,
`RouterRestarts`, `PartnerMoves`, `PartnerOffers`, `PartnerDeletes`, and the clock
(`DeadlinePasses`, `CooldownPasses`, `RetryPasses`).  A remote call can succeed,
fail before it has any effect, or take effect and lose its reply.

Abstractions:

* One instance.  Instances share nothing but the start gate.
* Endpoint, service endpoint and lease id are one number, the *identity*: they
  change together when the partner replaces a container.  The partner issues
  them in order and an observation carries the identity it saw.
* Durations are not counted.  A deadline, a cooldown or a retry delay that is set
  may pass at any time; the "older than three rounds" test for `STARTING` is
  taken as passed.  Every schedule of the code is among the resulting ones.
* A Router worker id is the pair of the Router's epoch and the URL.
* `prepare_attempts` saturates at its limit.
* The 90 s limit of `Recover` and the contexts of API calls are `Cancel`, for
  every goroutine but the reconcile loop.  The round that `Recover` runs itself
  is a round after `Listen`; the listener being open only adds behaviour.

Left out of Lifecycle because nothing reaches it: the escalation branch of
`beginDrain` (924-937; the callers that release request the reclaim first, and
the store merges it), `DRAINING` with a zero deadline, and the branch of
`settleService` for a service without a role (499-514; `CheckCombination`
forbids the row).

### How CapacityEvents corresponds to the code

`Lifecycle` follows one instance through every state and takes each event as it is
handled.  `CapacityEvents` is the other half: how events are claimed, ordered,
refused, interrupted and replayed, for several instances that compete for
endpoints.  Both use the row and the merge of `Store`.

An *executor* is a goroutine that handles one event: an API request, the replay
loop of the reconciler or the pull loop.  It holds the event, the row it read
(`copy`), the answer it is about to give (`result`) and its place `pc`.  A step
ends where the code commits, or decides on something another goroutine can change
before the next commit.

| operation | actions |
|---|---|
| HandleCapacityEvent, ClaimEvent, CompleteEvent | `Deliver`, `Complete` |
| handleCapacityAdded | `HandleAdded`, `Admit`, `Allocate` |
| handleCapacityUpdated | `HandleUpdated`, `Touch` (observeOnly), `Update`, `StoreUpdate`, `Drain` |
| handleCapacityRevoked, RequestReclaim, reconcileReclaim | `HandleRevoked`, `RequestReclaim`, `Reclaim`, `Drain` |
| ResumePendingEvents | `ResumePending`, `ResumeEvent` |
| pullAuthoritative, Plan, Commit | `PullBegin`, `PullRead`, `PullList`, `PullOffered`, `PullAbsent`, `PullOutcome`, `PullCommit`, `GracePasses` |
| a lifecycle operation, seen from an event | `LifecycleBegin`, `LifecycleEnd` |
| crash, cancelled contexts | `Crash`, `Cancel` |

The partner is external: `PartnerOffers`, `PartnerReplaces`, `PartnerConfirms`,
`PartnerWithdraws`.  Whatever it says may be delivered in any order, or never.

Abstractions:

* A lifecycle operation is somebody who takes the lock, keeps a copy of the row
  and writes one successor that `LifecycleMoves` allows.  What the operation does
  in between is the subject of `Lifecycle`.  `LOST` is left out: to an event it is
  like `IDLE` or a draining row.
* One partner, whose clock is that of the control plane.  Time counts what the
  partner did and when pulls began, and stops at `MaxTime`.
* An identity is the time it was issued at; its address is kept apart, because
  two containers may have the same address one after the other.
* The striped locks of `eventOperation` are one lock per event.  Two events that
  share a stripe only wait for each other.
* Validation of payloads, confirmations by snapshot and the diff between stored
  and new snapshot change no row and are left out; so is `EnrollPrepared`, which
  belongs to onboarding.
* `ReleaseInstance` names the instance and not the lease: on `RELEASED` the
  partner loses whatever container it holds under that id.
* `shown` is a history variable; nothing reads it but `AbsenceForgiven` and
  `VisibleIsForgiven`.  It says whether a snapshot has listed the instance since its
  first miss, and whether a sweep of such a snapshot was completed.

### How Rebalance and Planner correspond to the code

`Planner` has no variables.  `Plan(in)` is `planner.go`'s `Plan` for a round that no
cooldown holds back: the input is the population and the load, the result the gear
and the actions in their order.  Its operators keep the names of the code's helpers.

| code | definitions |
|---|---|
| Plan, gearLadder, autoStep | `Plan`, `Gears`, `autoStep`, `stepGear` |
| planDisaggregated, its phases | `PlanPD`, `DrainRegulars`, `Drained`, `Assigned`, `Converted`, and their single steps `DrainOne`, `AssignOne`, `ConvertOne`, `Convert` |
| capacityStep, provisionStep, releaseStep | operators of the same names |
| planAggregated | `planAggregated`, `Retired`, `RetireOne` |
| Rebalance, its buckets | `Round`, `CarryOut`, `Input`, `Bucket` |
| applyStarts, runStart, the start gate | `Dispatch`, `TakeSlot`, `Begin`, `StartEnds` (deferred calls: `Leave`) |
| reconciler, as a round meets it | `Retry`, `Condemned`, `DrainEnds`, `Reclaim`, `Prepared` |
| console switch | `SetGear`, `SetMode` |
| creations | `CarryOut` (`Provision`), `Delivered`, `RequestFails` |

Abstractions:

* A sample of the load is one of the cases the thresholds tell apart (`Load`).
  Telemetry decides which; it may change between two rounds, never within one.
* Instances are numbers, because ids break ties.  Of the times only the order of
  the assignments and "younger than `min_hold`" are kept.
* An instance has nine states.  `STARTING` and the time its lock is taken are one.
  What a start or a drain does meanwhile is `Lifecycle`'s subject.
* A member of `Setups` fixes the tuning, the pool to start from and how many faults
  and switches there are.

Conventions of the code that the module keeps and that are easy to miss: the
reconciler's retries do not pass the start gate; `STARTING` and `DRAINING` rows
count as workers.  Capacity that was asked for counts as outstanding until the container
enters the table, which is longer than in the code for a creation over SSH: its job ends
with the hand-over to onboarding (OutstandingProvisions, api/provision.go:503).

### How Provision corresponds to the code

A job is known by its name.  A thread is the pipeline of a request, or the one a
restart resumed for a name.  A mutation of the tracker and the write of the row that
follows it outside the mutex are two steps, and a crash may fall between.

| operation | actions |
|---|---|
| RequestCapacity | `CheckName`, `Add` (the two critical sections) |
| runProvision | `Begin`, `Create`, `CreateFails`, `NameInUse` (rename ladder), `WaitCreation`, `WaitFails`, `Await`, `AwaitSees`, `AwaitHeld`, `AwaitFails`, `Submit`, `SubmitFails`, `Abandon`, `Stopped` |
| runSelfProvision | `Begin`, `ProvisionNode`, `WaitRunning`, `EnrolNode` |
| storeRecord | `StoreRecord` |
| handleCancelProvision | `CancelRead`, `CancelMark`, `CancelStore` |
| onboarding RunOnce, EnrollPrepared | `Pick`, `Install`, `Enrol`, `Prepare` |
| ResumeProvisions, New | `Restart` |

The platforms are external (`Platform`): what they guarantee is what their adapters
expect.  Over ssh (alayanew) a name is never given twice, a queued request has an id and a
placed container does not return to the queue.  A container that brings its bootstrap
is a Pod (kubernetes), known by its name.  `ReleaseInstance` deletes it; until its grace
period is over (manifest.go:156) it is `released`, still exists and may still run, and
after that it is `gone` and its name is free.  `ProvisionNode` adopts the Pod of that name
while there is one (`Mine`: CreatePod says AlreadyExists) and creates one otherwise, also
when an earlier one is gone.  When `WaitRunning` fails, the Pod stays.

Abstractions:

* Deadlines may pass at any time.  Credentials, texts and progress are left out.
* `Submit` is the hand-over and the update to `MANAGED` in one step; a crash between them
  is a crash before the row is stored, which is in the model.
* A fresh node only: the onboarding of a node whose row is `LOST` or `RELEASED` is
  left out (see section 5).
* One cancel at a time; `CancelRead` makes the release call and `CancelMark` marks.

### How Bootstrap corresponds to the code

A caller is a thread of the `ThreadingHTTPServer`, which serves one request after
the other.  `_lock` is held for one step of a thread, so a step is what the code
does inside one `with self._lock` or between two of them; `_start_lock` and
`_stop_lock` are variables.  The main thread runs signal handlers between any two
steps of its own, `frames` is what they interrupted.  A process group has a leader,
which may exit and leave children behind, and only SIGKILL is sure to end it.

| code | actions |
|---|---|
| start, _start_locked | `BeginStart`, `StartCheck`, `StartInstall`, `StartBuild`, `StartBroken`, `StartSpawn`, `StartGrace`, `StartRelease` |
| stop | `BeginStop`, `StopAcquire`, `StopHalt`, `StopSignal`, `StopWait`, `StopKill`, `StopSettle`, `StopStuck`, `StopReap`, `Answered` |
| _refresh_process, status, health | `Refreshed`, `Status` |
| command_serve, request_shutdown | `Signal`, `Handled`, `Drain`, `Close`, `Finished`, `Exit` |
| the process groups | `LeaderExits`, `GroupEnds` |

Left out: exit codes, the history, environment checks, and a start that finds
`_start_lock` taken, which changes nothing.  The end of `stop`, where `_stopping` is reset
in one critical section and `_stop_lock` is given back after it (service.py:328-330), is one
step (`StopRelease`).

Things seen while reading that no property is about: a second signal that arrives
while the main thread is inside `stop` waits for the lock its own thread holds
(`SelfBlocked`; the progress properties except it; `stop_event.set()` is one step of the
model, so a second signal inside it, __main__.py:159, is not one of these); a start that
comes over a kept-alive connection after the last look at the phase and before the
process exits is orphaned (`ShutdownCleans` says what holds when the process decides to exit); the
branch "the failed flag is preserved" of `stop` cannot be reached.

## 3. Runs

### Lifecycle

These runs use `MCLifecycle`.  `Caller` names the entry points that may be used,
`Fault` the failures that may happen, `MaxFaults` how many of them, `MaxIdent` how
many identities the partner issues.  Two goroutines: the reconciler, which runs
rounds one after the other, and one that does everything else.  Two suffice for
every race of the code between a holder of the lock and somebody with an old
copy; reclaim and requeue need no goroutine of their own and come on top.

| run | question | callers | failures | states |
|---|---|---|---|---|
| `lifecycle_safety` | are traffic, processes and budget consistent with the row? | plan, drain, requeue, reclaim, revoke | 2 of crash, router, partner, death, degrade, timeout, delete, cancel | 987 004 |
| `instance_table` | does the row move only as the table allows, with overlapping rounds and unlocked releases? | plan, reclaim, release, round, offer | 1 of partition, bootstrap, restart | 1.39 million |
| `lifecycle_liveness` | does everything that was begun end, and is a container that is replaced closed and stopped first? | plan, reclaim, move, offer | 1 of crash, death, router, timeout, partner, degrade, cancel | 71 227 |

`lifecycle_safety` has two roles (an earlier assignment under another role must be
possible), a start budget of 2 (below, at and beyond the limit), one re-arm and a
health threshold above the readiness threshold.  `lifecycle_liveness` and
`instance_table` have two identities: before and after a replacement or a reoffer.
`MCLifecycle_identity.cfg`, kept beside the runs, asks the safety questions of
`lifecycle_liveness` with drains and revokes added (465 082 states, no violation).
Two failures let a failure hit the handling of another one.

Safety: `DrainingIsClosed`, `ServedRoleMatches`, `LeftBehindClosed` (traffic);
`IdleMeansStopped`, `HandedBackStopped`, `LeftBehindStopped` (processes);
`OwnerIsCurrent` (the lock); `IdentityMovesForward`; `BudgetRespected` (starts);
`ReclaimSticky`, `ReleasedIsFinal` and `ImplementsTable` (the row).  Each is described
where it is defined.  `LegalRow` and `ObservationsMoveForward` follow from
`ImplementsTable` and are proved (section 4).  `OwnerIsCurrent` belongs to
`lifecycle_safety`, which has no operator release, since that one writes without the
lock, and whose partner does not offer again what was returned (see
`MCLifecycle_stale_reclaim.cfg` below).

Progress: `ReclaimCompletes`, `UpdateApplied`, `StartSettles` under `FairSpec`.  Each
goroutine's continuation is *strongly* fair: the scheduler runs every goroutine,
and a goroutine waiting for the instance mutex gets it, because Go's mutex hands
over in FIFO order once a waiter starves; weak fairness would let others take the
lock for ever.  Weakly fair are the reconcile ticker, the resumption steps of a
restarted process, the resumption of an interrupted CAPACITY_ADDED (the event
stays pending and is replayed by every round), the passing of time, the loading
of a model and the end of a partition.  Nothing else is assumed: no failure, no
operator call, no planner decision and no partner event ever has to happen.
Since failures are bounded, this says that everything settles once failures stop.

### Capacity events

These runs use `MCCapacityEvents`.  `Deed` says what the partner does, `Fault` and
`MaxFaults` what may fail and how often, `MaxTime` how many things happen, `Batch`
how many records a replay takes (32 in the code; 1 makes the cursor matter with
two pending events).

| run | question | goroutines | instances, addresses | failures | states |
|---|---|---|---|---|---|
| `capacity_events` | are pushes in any order, interrupted and replayed, applied as if in order? | an API request, the replay, lifecycle operations | 2, 2 | 1 of crash, cancel | 919 000 |
| `pull` | do pulls repair everything when all pushes are lost? | the replay, the pull, lifecycle operations | 1, 1 | 2 of crash, partner, omit | 584 150 |

Three things the partner does are enough for an offer, a replacement and a revoke
to overtake each other on one instance, and for two instances to follow one
another at an address.  An API request and the replay are two executors that can be
in the middle of two events of one instance or of two; a third would have to wait
for `admission` or the instance lock.  Every event is delivered once: a second
delivery finds it in the log and changes nothing, or meets the lock of the event
and waits.  In `pull`, three points in time leave room for an offer, a snapshot
and a change during the next, and time that stands still after that lets pulls go
on for ever, which is what the progress properties are about.

Safety: `RevokedNotAdmitted`, `IdentityNotTakenBack` (the order of events),
`EndpointExclusive` (two admissions), `DecidedIsFinal` (the log),
`AbsenceForgiven` (the grace).  Progress: `EventDecided`, `ViewConverges`, under
`FairSpec`: weak fairness of every handler, of lifecycle operations, of the passing
of the grace, of the replay and of the pull loop.  Each is a goroutine that is
scheduled, or a ticker; both loops skip what is locked and come again.  No push
has to arrive, the partner has to do nothing, no failure has to happen.

### The planner's rounds

| run | question | bounds | states |
|---|---|---|---|
| `rebalance` | do the rounds keep both roles and come to rest in the shape asked for? | five setups, four instances | 108 418 |

The setups of `MCRebalance` are the cases in which rounds meet something: a cold
start through a gate of one slot with a failing start; a change between fixed and
aggregated mode and back with `min_hold` and a cooldown; a pool larger than
`max_serving` whose gear is changed by hand; the ladder under pressure from either
side; the ladder with a partner that may deliver, fail or take back.  Three or four
instances are what it takes for both roles, one to convert and one to spare.

`RoundKeepsEachRole` says that what one round plans does not take the last worker
of a role, `StartsEnd` that no dispatched start stays, and `Converges` that under a
load that stays the same the pool takes its shape and the planner stops.  Fairness:
the planner ticks (`WF` of `Round`, with its enabling condition spelled out), handed
out starts, drains and preparations end because they have deadlines, and `min_hold`
and the cooldown pass.  The partner need not deliver and the load need not change.
`Converges` further assumes `Prompt`: no start ends within a round unless the round
waits for it, and no round begins while a start could go on.  Starts take minutes and
rounds milliseconds; without it an assignment may be dispatched when what it was
planned for is over, again and again.

### Creations

| run | question | bounds | states |
|---|---|---|---|
| `provision` | containers under no more names than requests, no second one while the first exists; none forgotten by onboarding, no cancel overwritten? | seven setups, two names, up to two requests | 353 661 |

Setups: one request over SSH, whose first name is taken or not, and one for a
container that brings its bootstrap, each with two crashes, one failing call and one
cancel, so that a crash can hit the resumption from a crash; two requests for the same
name over SSH with a crash or a cancel; two for the same name with a bootstrap of their
own, with a crash and a cancel; and two where the next name of one is the name of the
other.  `CHECK_DEADLOCK FALSE`, because requests run out.  Safety only: every wait
of a pipeline has a deadline and ends by construction.

### The bootstrap

| run | question | bounds | states |
|---|---|---|---|
| `bootstrap` | one process at most, none left behind, every call answered? | two callers and the main thread, four calls, two of them signals | 126 812 |

Two callers and the main thread are a start, a stop that overtakes it and a signal
that interrupts; two signals let one interrupt the other; four calls let a start
follow a stop that followed a start.  Fairness: threads run, a group that was sent
SIGKILL ends, the control plane polls the status.  Nothing else has to die or to
arrive, and a group may ignore SIGTERM for ever.  `CHECK_DEADLOCK FALSE`, because the
process may exit.

### Where the code does something else than it says

Four runs expect a violation.  TLC's counterexample is the description; in short:

* `reclaim_wedged` - a reclaim of an instance that is `PREPARING` with a `FAILED`
  service is refused in every round: `PREPARING`/`DRAINING` is not a legal pair
  and a pending reclaim keeps `runPrepare` from being called.
* `planner_last_role` - an idle pool of two prefill workers and one decode worker
  may change two workers in a round.  `releaseStep` gives one prefill worker back and
  the conversions, which still count it, turn the other into a decode worker: no
  prefill worker is left.
* `provision_zombie` - the cancel handle of a fresh job stops nothing, because the
  pipeline detaches itself with `context.WithoutCancel`.  A job cancelled before its
  container was asked for is still created and handed to onboarding.
* `absence_not_forgiven` - pull_reconcile.go:97-98 forgives an absence clock when the
  sweep reaches the instance.  A push that is handled during the sweep makes the pulled
  event of another instance `REJECTED`, the sweep ends there, and an instance that the
  snapshot lists behind it keeps its clock.  When the platform leaves it out of a later
  list, the grace counts from the old miss and it is revoked at once.  (The constraint
  `LatePush` only shortens the search; what TLC shows is a behaviour of `Spec`.)

More of the same can be reproduced with `tlc -config <cfg> <module>`; these
configurations are kept beside the runs:

* `MCLifecycle_drain_stale_worker.cfg` - the Router restarts, the reconciler
  registers the worker again under a new id and opens it; a reclaim arrives before
  that is stored, so the store refuses the write and the row keeps the old id.  The
  drain closes the old id, is told it does not exist and takes that for "closed by
  definition" (lifecycle.go:959-960).  `DRAINING` with an open worker.
* `MCLifecycle_stale_worker_id.cfg` - an idle instance is `LOST` and answers again.  It
  keeps its worker id, which a drain leaves in the row, and is `PREPARING` (230-249); an
  update of the identity clears the id in `IDLE` and `LOST` only (events.go:377-383).  The
  start in the new container opens readiness and a crash comes before the new id is
  stored.  The next drain closes the worker of the container the instance has left,
  and the lookup by URL (lifecycle.go:986) is for rows without an id.  `DRAINING` with an
  open worker.
* `MCLifecycle_drain_undone.cfg` - the `STARTING` branch of a round gets the lock,
  does not read the row again (the neighbouring branches do) and condemns a start
  that has meanwhile succeeded and is being drained.  The drain is lost.
* `MCLifecycle_update_wedged.cfg` - an instance that went `LOST` while draining for an
  identity change and whose old container is gone stays there, because the
  unreachable branch of `reconcileInstance` returns before `FinishDrain`.
* `MCLifecycle_stale_reclaim.cfg` - a round takes a snapshot of a row under reclaim.  A
  revoke completes the reclaim, the partner offers the instance again, and then the round
  gets the lock: `reconcileReclaim` reads the row again but not `pending_release`, and
  begins to give the new lease back, which nobody asked for.  The partner's answer fails;
  a row that is RELEASING without a reclaim is released by the next rounds without the
  lock, and one of these overlaps a revoke and the preparation of a third lease.
* `MCCapacityEvents_revoke_undone.cfg` - the partner offers, replaces and withdraws a
  container, and the revoke arrives first.  It is answered `APPLIED`, since nothing
  is tracked.  The offer names another lease, passes `HasRevokeAfter` and is admitted,
  and the identity change, which does not ask `HasRevokeAfter`, brings the revoked
  lease up.  Only a pull, if the partner has one, repairs it.
* `MCCapacityEvents_pull_wedged.cfg` - a container vanishes and a new instance gets
  its address.  Every sweep rejects the new one because of the endpoint, and a
  rejected event ends the round before absent instances are looked at, so the old row
  is never revoked and the address never freed.
* `MCProvision_resume.cfg` - provision.go:586-590 says a restart can pick a request up
  where it stopped.  A crash after the hand-over to onboarding and before the row says
  `MANAGED` resumes the job; its second hand-over is refused as a duplicate, the job
  fails and releases the container that is being onboarded.

* `MCProvision_duplicate.cfg` - provision.go:777-778 says of a resumed job that the
  container the first call placed is adopted, not duplicated.  A cancel releases the Pod
  (385) before `CANCELLED` is stored (250).  A crash in between leaves a row that is
  resumed (772-780), and once the Pod is gone a second one is created for a request the
  operator has cancelled.

### What the passing runs leave out, and why

The failures of each run are chosen so that the properties hold; outside of them
TLC shows behaviour that should be known:

* With a partition and an identity change together, the recovery of a `LOST`
  instance writes the round's snapshot and brings back the replaced identity
  (230-249); the same with overlapping rounds or an unlocked release.
  `IdentityMovesForward` is checked and proved without them.
* After `LOST`, `runPrepare` keeps `start_attempts` and the planner may assign
  again: one attempt beyond the budget.  `BudgetRespected` is checked without
  partitions and failing bootstraps.  Likewise `ParkedIsStamped` (crash and partition together).
* `DrainingIsClosed` and `LeftBehindClosed` are checked and proved without Router
  restarts, partitions and failing bootstrap calls: `MCLifecycle_drain_stale_worker.cfg`
  and `MCLifecycle_stale_worker_id.cfg` above.
* `IdleMeansStopped`, `HandedBackStopped` and `ReclaimCompletes` are checked without failing
  bootstrap calls, so a stop whose reply is lost does not happen in their runs.
* A `LOST` container is drained without a stop call, and may be alive:
  `IdleMeansStopped` and `HandedBackStopped` are about reachable containers.
* A partner that replaces a container and then deletes the replacement leaves a process
  running in the first one: the drain makes no stop call (section 4, `Apart`).
* A container whose bootstrap reports a failed process is not prepared, which for
  a `LOST` instance ends in `LOST` again until an operator acts.
* A plain drain of an instance the partner has deleted waits for the pull loop to
  report it.
* `RevokedNotAdmitted` is about revokes answered `APPLIED` that name a lease.  A revoke
  answered `REJECTED` (another lease is current, events.go:495) leaves no barrier
  behind, and a delayed offer of the lease it named is then judged by the row alone.
* `capacity_events` has no pulls.  A pulled observation is stamped with the time the
  round began, before the partner was asked, and may outlive a push in between:
  with pulls the identity can go back for one round.  `ViewConverges` says that this
  does not last.
* A sweep that ends early (a rejected event) does not reach the instances behind it,
  so their absence clocks are not forgiven in that round (`absence_not_forgiven`).
  `AbsenceForgiven` is what is left: it is about sweeps that complete, and is proved for
  every number of instances.
* `EventDecided` is checked with pulled events only, which are claimed and decided
  by the same handlers as pushes.
* `RoundKeepsEachRole` and `Converges` hold in setups that either leave the capacity
  verbs off or change one worker per round (`planner_last_role` has neither).  A round
  may release an idle instance and assign the same one; the assignment then finds
  the reclaim and does nothing.
* In aggregated mode with `max_serving` and a spare idle instance the planner drains
  and assigns for ever, since the surplus counts the idle ones; no setup has this.
* The fallback of the surplus drain may take a role's last worker while the others
  are younger than `min_hold`; the setup with a surplus has no `min_hold`.  So may a
  release: it counts a regular worker that is held as a decode worker and gives the
  last real one back.  With `max_serving` 1 one worker is all that is asked for.
  `Sheltered`, the hypothesis of the theorem about `RoundKeepsEachRole`, excludes the
  tunings in which this and `planner_last_role` happen; the five setups satisfy it.
* `CancelHolds` is about the tracker of one process.  Rows are stored outside the
  mutex and may be stored out of order, so a restart can bring a cancelled job back;
  two requests that pass the name check together overwrite one record, and the first
  pipeline goes on unseen.
* A failing `WaitCreation` releases nothing, although the platform may place the
  container later; a cancel before the id is known releases nothing either; so does a
  crash between the failure of a job and its release; and a failing `waitRunning` leaves
  its Pod.  `OneContainer` bounds what is asked for; that nothing is left behind is not
  true and not a property.
* `OneContainer` admits a second container once the first is gone, because the code
  creates one (`MCProvision_duplicate.cfg`).  `CreatedOnce`, which does not admit it, is
  what the comment there claims.

## 4. Proofs

For `Lifecycle` TLAPS proves, for every number of goroutines, roles, identities,
thresholds and failures, from the assumptions `RoleAssumption` (no role is "no role") and
`LifecycleAssumption` (the constants have their types):

* `LifecycleTyped`: `Spec => []TypeOK`.
* `LifecycleImplementsTable`: `Spec => ImplementsTable`; every step of Lifecycle is a
  step of `InstanceTable` or leaves the row alone.
* `LifecycleLegal`, `LifecycleReclaimSticky`, `LifecycleReleasedIsFinal`,
  `LifecycleObservations`: the properties of the row, from the refinement and the
  theorems of `InstanceTable_proofs`.
* `LifecycleOwnerIsCurrent`: `Serialised => (Spec => []OwnerIsCurrent)`, in
  `LifecycleSafety_proofs`.
* `LifecycleBudgetRespected`: `Steady => (Spec => []BudgetRespected)`, in the same module.
* `LifecycleIdleMeansStopped`, `LifecycleLeftBehindStopped`, `LifecycleHandedBackStopped`:
  the same for the properties of processes, under `Steady /\ Apart`; and
  `LifecycleIdentityMovesForward` under `Steady`.
* `LifecycleServedRoleMatches` under `Serialised`; `LifecycleDrainingIsClosed` and
  `LifecycleLeftBehindClosed` under `Steady` and `"restart" \notin Fault`: the properties
  of traffic, in the same module.

Argument.  `TypeOK` is not inductive: `Probe` indexes containers by the identity in
a copy.  The invariant `IInv` adds that the row, the update pending in it and the
copy of every busy goroutine name one of the partner's identities, and that a
goroutine at rest carries nothing.  For each action one lemma shows both that it
keeps `IInv` and `Stored`: the row is unchanged or the result of one of the four
kinds of write applied to a well-typed request.  `Store_proofs` shows that merging
is idempotent, so the stored row is itself a request that would be stored
unchanged; this is what lets `InstanceTable` speak of `row` and `row'` alone.
`InstanceTable_proofs` proves the properties on that small specification, and
`Lifecycle_proofs` carries them over.

`OwnerIsCurrent` is about whoever holds the lock and is about to write.  The invariant has
to say who that can be.  `LocalInv` says of a goroutine alone what its place tells of its
copy and of the branch it came from: only rounds and `Recover` finish a drain, a start of
anybody else is the planner's, and so on.  `LockInv` relates it to the others (`Fits`): at
the places of an owner it holds the lock, while a restarted process recovers there is
nobody else, a `fresh` copy is the row, and the copy of a goroutine that will write from it
(`Holding`) agrees with the row in all it would overwrite, but for a reclaim that may have
come in.  The releases are the difficult part, since `BeginRelease` takes no lock: a
goroutine that gives the container back (`Reclaiming`) does so because a reclaim is pending
or has been completed (`Asked`), `RELEASING` means that a reclaim is pending
(`LeavesOnRequest`), so no round takes the branch that releases without the lock.  Every
write is shown to be a reclaim request or to be made by somebody with nobody else about to
write (`RowMoves`), and two lemmas (`Writes`, `Moves`) reduce each action to that.

The hypothesis `Serialised` excludes the operator release, and a partner that offers again
together with anybody but the reconcile loop who reclaims.  Without either TLC finds
counterexamples (`MCLifecycle_stale_reclaim.cfg` for the second).  `lifecycle_safety` and
`lifecycle_liveness` satisfy it; overlapping rounds, partitions, Router restarts and
failing bootstraps are covered by the theorem although these runs do not have them.

`BudgetRespected` looks like a matter of one guard, but `StartService` takes no second look
at the count, whoever calls it: what keeps it within bounds is that starts begin where
nothing has been spent (`svc = "NONE"` means a count of zero, `Shaped`) or under a count
that nobody can have raised since it was read.  `Known` says so.  `Shaped` relates the
fields of the row and of every copy; `Knows` says what a copy still implies about the row
after others were at work: the service that a round has read is there under the same
identity, and the count in the row is at most the one in the copy (`RowKeeps` is the other
side, what a write by anybody else leaves alone); a start of the planner finds no service,
and there is one at a time (`OnePlanner`).  That last fact is the reason for the containers
in the invariant (`Contained`): a container for which the row has no service yet runs none,
so a preparation never adopts a service and makes the row `FAILED` between `reserveStart`
and the planner's write.

Its hypothesis `Steady` is `Serialised` without overlapping rounds, partitions and bootstrap
calls that fail although the container is there.  Each part is needed: TLC finds a start
beyond the budget with overlapping rounds (two rounds read the same count, and both start),
and with partitions or failing bootstrap calls (an instance with spent attempts is `LOST`,
answers again, is prepared, and the planner starts it; section 3).  `lifecycle_safety`
satisfies it.

The properties of processes follow from `Stops`: a process runs only in the container the
row names, and only while the row has a service (`Runs`).  What is hard to see is that the
end of a service keeps this.  Whoever is about to write the end of a drain knows that
nothing runs anywhere (`Quiet`): it stopped the process, or the row is `LOST` and `Known`
says what that means, or the partner has no container any more.  This must still hold when it
writes: a process is launched only under the lock, for a row that is `STARTING`, and
`LockInv` says that there is no such row while another one holds the lock at the end of a drain.
Whoever gives the container back stands for a row that is `RELEASING` without a service,
and such a row gets no service any more (`LeftStays`).  `Possessed` relates the row to what
the partner holds: a container is missing only because it was given back or deleted, and
the row follows the partner's identity unless the partner replaces containers.  Of the
actions most neither start, stop nor move anything (`Calm`), and one lemma serves them
all (`CalmStops`); that split also gives `IdentityMovesForward`, since only three steps write
an identity that differs from the row's.

`Apart` excludes a partner that both replaces containers and deletes them.  `finishDrain`
takes the service for stopped when the partner has no container for the instance
(lifecycle.go:1109): if that partner replaced the container and then deleted the new one,
the process runs on in the one it left.  TLC then finds `LeftBehindStopped` violated (callers
`plan` and `move`, failure `delete`), and `IdleMeansStopped` once a plain drain is possible
too (with `drain`).  Each of the two alone is covered; `lifecycle_safety` has the deletions,
`MCLifecycle_identity.cfg` and `lifecycle_liveness` the replacements.

`ServedRoleMatches` follows from `Roles`.  What a start has seen of the process and of the
registration stays true until it writes `SERVING`, because a process is launched and a
worker registered by the owner of the lock only (`HolderAlone`), for the role in its copy,
which is the row's; whatever else happens to containers and Router ends processes and
registrations, and adds none (`Spawns`, `Enrols`).  So the theorem covers Router restarts,
partitions and every other failure.

`Traffic` says whose readiness may be open: that of the row's identity, while the row has
a service that does not drain (`Routed`), and nobody's while somebody is about to record
`DRAINING` (`Shut`).  `closeReadiness` closes by worker id, and only without one by URL, so
this rests on the id in the row and in every copy being either none or the one the Router
has for that identity (`Named`).  Two things spoil that.  A Router that restarts names its
workers anew.  And a container that is prepared again under another identity must not
bring the id of the old one along; `Known` says that there is none, but only where an
instance is `LOST` because its container is gone (`Steady`).  Each of the two, left in,
gives a counterexample (section 3).  Most actions open, register and start nothing; that
one of these keeps both invariants is one fact (`Passes`, `PassesRoles`, `PassesTraffic`),
with the split of `Calm` for the identity, and `Launch`, `Register`, `Open` and `Serve` have
lemmas of their own.

For `CapacityEvents` it proves, for every set of instances, endpoints and goroutines, any
clock bound and any number of crashes and store failures, from `EventsAssumption`
(instances are finitely many numbers, the goroutines are distinct, the bounds are
numbers): `EventsTyped`, `EventsEndpointExclusive` and `EventsDecidedIsFinal`, and in the
second half of the module what the order of events means for the rows:
`EventsAbsenceForgiven`, `EventsRevokedNotAdmitted` and `EventsIdentityNotTakenBack`.

Argument.  That no endpoint is shared says nothing of a handler that has looked for
conflicts and has not written yet.  `IInv` adds what it knows (`Placed`): from the look
at the other rows to the write it holds the admission mutex, so nobody else gives an
instance an address, and the address it wants is still free; whoever writes a row back
holds that row's lock, so the identity in its copy is the row's (`Fresh`, `OwnerCurrent`)
and the write cannot bring an old address back.  `Claimed` is what makes an answer final:
an event that is handled has one handler and is PENDING, and nobody but its handler
completes it.  `Issued` says that every identity named anywhere was issued by the
partner and hence has an address.  The replay takes the smallest pending event; that there is
one is proved from the well-foundedness of `<` on the naturals.  The lemmas
about merged rows and requests are those of `Store_proofs`, which `Lifecycle_proofs`
uses too.

The order of events needs to know what rows and events say about the partner.  `Named`
(`EventsNamedAlways`) says that nothing tracked or offered is without a lease.  With it
`Clocks` is inductive: a sweep that is past its list has looked at every instance the
snapshot names, each was tracked then and no row is ever forgotten, so no instance that
a completed sweep has seen has a clock.  `OInv` (`EventsPosted`) is about partners that
push.  `Told`, `RowsSound` and `OwnersPosted`: whatever an event, a row or a copy names
was said by the partner, not later than the time it carries; since an identity is the
time it was issued at, a newer observation never names an older container.  `Posted`:
what a handler has found out about its copy stays true, because the row may only be
touched or asked for a release while somebody else holds its lock.  `Barred`: a handler
that is about to admit an offer holds the instance lock and found no revoke of that
lease answered `APPLIED`; a revoke can be answered only after it has taken that lock.

Two hypotheses are part of these theorems.  `~Pulls`: a pulled observation is stamped
before the partner is asked and may name a container younger than itself.  With pulls
`IdentityNotTakenBack` is false (section 3); for `RevokedNotAdmitted` TLC found no
counterexample with pulls (2.4 million states, one instance, three points in time, and
long simulations), but it is neither proved nor checked by a run.  `NamesLease`, for
`IdentityNotTakenBack` only: a revoke without a lease, which partners may send, ends
whatever is current when it arrives; TLC then finds an offer that is older than it
taking the instance back.  `capacity_events` has both hypotheses, so that run and
theorem are about the same setting.

For `Bootstrap` it proves, for every number of callers, requests and signals, from
`BootstrapAssumption` (the threads are distinct, the bounds are numbers), that `Spec`
implies every safety property of the run: `BootstrapTyped`, `BootstrapOneProcess`,
`BootstrapStoppedIsGone`, `BootstrapCancelledIsSilent`, `BootstrapShutdownCleans`.

Argument.  "One process" is not inductive: nothing in it keeps a start from spawning
while a stop is at work.  `IInv` says who is where.  `StartsAlone` and `StopsAlone`:
whoever is inside a start or a stop holds its lock, and of all the places of the main
thread, the interrupted ones included, one at most is inside a stop.  `StopFaces`: a
stop deals with the tracked group, and reaps only what is gone.  `Generations`:
while a stop holds its lock every start that has not spawned yet is of an earlier
generation, hence cancelled, and new ones are refused.  `NothingBefore`: a start that is
not cancelled finds nothing alive.  `Settled`: a stop about to return has said STOPPED
or FAILED.  Two thirds of the actions are *quiet*, and one lemma (`QuietKeeps`) covers
what they do to all of this.

For `Provision` it proves, for every set of requests and names, every rename ladder and
any number of crashes, faults and cancels, from `ProvisionAssumption` (requests are not
names, ladders are non-empty sequences of names, the bounds are numbers):
`ProvisionTyped`, `ProvisionManagedIsEnrolled`, `ProvisionCancelHolds` and
`ProvisionOneContainer`.

Argument.  `TypeOK` says of the onboarding jobs that each has a container that was asked
for, which rests on what every record, unsaved record and pipeline knows (`Known`), and
this on a fact about restarts: a resumed pipeline decides from its row where to go on,
and takes the container it read at the restart; between the two nobody touches the row,
because whatever has that name was tracked, so no request can be accepted for it or be
renamed to it (`ResumedAlone`).  `CancelHolds` needs that a request which was not accepted
yet appears in no record, stored or to be stored (`Unused`): a name that is added twice
then gets a record of another request.  `WriteKeeps` is the lemma for a pipeline that
writes its record and goes on; most actions are instances of it.

`OneContainer` has two halves.  That a name has a second container only when the first is
gone is inductive with the fact about one step that a platform creates under a name only
when nothing of that name exists (`Unrepeated`, `Supplies`).  That there are not more
names with containers than accepted requests needs a count (`Count`, `CInv`).  Whoever may
still ask for a container under a new name is either a request whose pipeline has not
asked yet (`Asking`), or a name of which something is recorded, which no container has
and which no such pipeline is at (`Left`): a restart would resume it.  With the
names in use these are never more than the accepted requests.
A rename moves a request to another name and may leave the old row behind, but it happens
because the platform has given that name away, so the old name is not free: that is where
the ladder could have broken the count, and does not.  `Owned` keeps a request from
being moved to a name that a resumed job is at.  The hypothesis `OnePath` says that
all containers of a setup are created in one way, as in every setup of the run.
Without it TLC finds containers under more names than there are requests: a request
over ssh moves from name to name and takes over the record of a self-provisioned one,
the deletions of its old rows fail, and a restart resumes those rows as requests of
their own, because a name the ssh platform has given away is still free for a Pod.

For `Rebalance` it proves, for every set of instances, every set of setups and any number
of faults and switches, from `RebalanceAssumption` (instances are finitely many numbers
greater than 0; the tuning passes `Config.Validate`; pools, modes, gears and loads are
what the code knows): `RebalanceTyped`, and `RebalanceRoundKeepsEachRole` under `Sheltered`.

Argument.  The properties of the loop rest on what `Plan` returns for a population of
any size, and `Plan` is made of folds: three in a row for a P/D pool, one for an
aggregated one.  Induction over data is out of
the prover's reach as a theorem of the library, but not as an argument about the least
counterexample: a set of numbers that holds 0 and the successor of each of its members
below n holds everything up to n (`UpTo`, from the well-foundedness of `<`), so the function
a fold over `1 .. n` is defined by exists (`FoldExists`), and each phase is a sequence
of accumulated results in which each is one step away from the one before
(`DrainedSteps`, `AssignedSteps`, `ConvertedSteps`, `RetiredSteps`).  `PlanIs` follows: every
action can be carried out.

That a role keeps a worker cannot be read off the counts a round keeps, because they
leave the truth: an idle instance is counted as a worker as soon as it is assigned, and
a deficit that cannot be filled is written off.  What is kept is weaker.  While a pool is
drained to its cap the counts are those of the workers left alone (`Draining`, `Exact`),
and as their sum is above that of the targets, one of them is above its own, which is at
least one.  From then on a role is counted exactly or is not above its target
(`Balanced`).  `Convert` takes from a role only if its count is above one *and* the other
one is short; since the sum is what the targets add up to or more (`Converting`), the role
it takes from is above its target, so its count is exact and it has a worker to spare.
`Sheltered` is needed at the start: after a release the counts are no longer exact, so
the round must be full then (`max_change` 1), and with workers that are held, or a cap below
two, the first step is wrong already.  TLC finds a counterexample for each of its four
conditions when it is dropped.

`RebalanceInv` makes this apply to the rows a round reads: a row has a role exactly while
it has a service, working, draining or failed, the order of assignment lists each of those rows and no other, and
nothing is held without `min_hold`, so the input of a round is always a population
(`InputIs`).  For the gate it says that nobody waits twice, without which a goroutine
that takes its slot could still be in the queue.

The model serves the proof in one point: `Only` and `Sorted` are written out in `Planner`,
since what `SelectSeq` and `SetToSortSeq` compute is not visible to the provers.

Only model-checked: `RoundKeepsEachRole` under a tuning that is not sheltered, of which it
need not be true; and what the prover cannot do at all, namely progress under fairness
(`StartsEnd` and `Converges` of `Rebalance` among it) and anything with ENABLED.  No module
declares a RECURSIVE operator.

## 5. Not modelled, and the plan

Not modelled: the sampling of telemetry (failure streaks, staleness; its result is
an input of `Rebalance`), the re-onboarding of `LOST` and `RELEASED` rows and of verified
endpoints, the wire protocols of partners, Router and bootstrap, snapshots and audit;
see the `components` list of `PROJECT.json`.  Alerts, metrics, authentication,
configuration and the installer scripts are left out for good: they keep no state
the rest depends on.

In this order:

1. `EventLog`, the abstract specification of `CapacityEvents`: an event is undecided,
   then decided once, and a row changes only on behalf of an undecided event or a
   lifecycle operation.  Theorem: `CapacityEvents` implements it.  Then
   `RevokedNotAdmitted` with pulls.
2. Telemetry staleness, and onboarding of a node that has a row already.
