# Verification models of the autopod daemon

autopod runs coding agents ("pods") in containers on a developer's machine or in
hosted sandboxes, validates their work and delivers it as pull requests. This
directory holds TLA+ models of the daemon's concurrency and recovery logic, the
TLC runs that check them on small instances, and TLAPS proofs that hold for every
size. Paths below are relative to `src/packages/daemon/src/` unless they start
with `src/`.

    tlc -workers 2 -config MCTaskExecution.cfg MCTaskExecution.tla
    tlapm TaskExecutionProofs.tla

## 1. Inventory

The daemon is one Node.js process: JavaScript runs to the next `await` without
interruption, and database transactions (better-sqlite3) are synchronous. So one
handler is atomic between two awaits, and everything else interleaves: HTTP
requests, the pod queue, the event loops of running agents, timers, recovery on
startup and on host wake. Containers and worker processes live outside it and
survive its crash.

| Component (code) | State | Operations | Hard behaviour | What makes it correct |
|---|---|---|---|---|
| Pod queue (`pods/pod-queue.ts`) | waiting list, active ids, deferred reruns, slot counter, drain promises | enqueue, requeueAfterCurrent, clearStuckEntry, drain, settlement of a call | calls that never settle, reruns during a run, shutdown | a pod is never processed twice at once; no slot lost; no request lost; drain waits |
| Operator kick (`pods/workspace-escape-controls.ts`) | pod status, queue entry | kick a pod that looks stuck | cannot see whether a call is alive | never a second call for a live pod |
| Processing a pod (`pods/agent-process-workflow.ts`) | captured generation and container | provision, run the agent, conclude | awaits between every read and write | moves only the pod it was started for |
| Run ledger (`pods/task-execution-ledger.ts`) | one row per worker run of a logical task | beginRun, retainUnverifiedRun, finishRun | crash leaves a row and perhaps a worker | at most one unsettled run per task; a row is settled on evidence only |
| Event consumption (`pods/agent-event-consumption.ts`, `runtimes/observed-runtime-exit.ts`) | registered consumer per pod | admit, start, read events, close the stream, settle | lifecycle changes under it, unobserved exits, handlers that throw | its run is settled, never another; stale events change nothing |
| Stop-and-retain (`pods/stalled-worker-recovery*.ts`) | durable request per run | admit, dispatch one stop, observe, settle | crash or lost answer at each step | stop at most once; nothing else moves the pod meanwhile |
| Termination reconciliation (`pods/termination-reconciliation*.ts`) | receipt per run | settle on the evidence of a deleted sandbox | stale evidence | never settles a run whose worker may live |
| Deletion (`pods/deletion-ownership.ts`, `deletion-cleanup.ts`, `workspace-deletion.ts`, migration 182) | intent, attempts, step receipts | acquire, seven steps, timeout, finish | overlapping and late calls, failed steps, crashes, edits | one cleanup at a time, no worker meanwhile, nothing left behind |
| Kill, rework, feedback (`pods/operator-kill.ts`, `validation-trigger-workflow.ts`, `operator-rejection.ts`, `operator-messages.ts`) | captured generation, container, worktree | kill, forced rework, continue in the retained container | act on what they read before their awaits | touch only the lifecycle they were asked for |
| Reconciliation (`pods/local-reconciler.ts`, `reconciler.ts`, `reconciliation-ownership.ts`) | none | queue, suspend or kill interrupted pods on startup and wake | runs beside requests | leaves unresolved executions alone |
| Pull requests (`pods/delivery-ledger.ts`, `worktrees/durable-pr-manager.ts`) | intent and receipt per branch, the operation underway | reserve, look up, create, adopt | lost answers, a listing that lags, crashes | one creation per branch; a receipt names a real pull request |
| Merging (`pods/merge-journal.ts`, `approval-*.ts`, `delivery-polling.ts`, `worktrees/fix-source-publication.ts`) | plans, attempts, observations, publications, handoffs | approve, poll, deliver a fix, recover | a request without an answer, users on the same pull request, a new generation | one request can take effect; no push replaces what it merges; a recorded merge was made |
| Polling and serialization (`pods/polling-coordinator.ts`, `util/keyed-promise-queue.ts`) | promises per key | start, stop, tick; run | a slow operation outlives its registration | one at a time per key, and every call runs |
| Retry and validation ledgers (`pods/task-retry-ledger.ts`, `validation-execution*.ts`) | attempts, authorizations, dispatches | admit, wait, start, settle, authorize, interrupt | crash between them, two pods of one task | one execution per task, bounded retries, no attempt without an owner |
| Status machine (`pods/state-machine.ts`, `src/packages/shared/src/constants.ts:103`) | pod status | transition | stale pod objects | only allowed moves, by the owner |
| Podsitter (`podsitter/`) | attentions with leases, decisions, reservations, provider circuit | reconcile, decide, reserve, dispatch | configuration, window and pods move under it; crash around the operation | acts once, under the authority in force, within its ceilings |
| Scheduled jobs (`scheduled-jobs/scheduled-job-*.ts`, `configuration/components.ts`) | job rows | pass, trigger, catch up, edit | passes overlap, downtime | one pod per occurrence |
| Security scans (`scheduled-jobs/scan-*.ts`, `configuration/scan-launches.ts`) | reports, findings, decisions, repairs | collect, judge, decide, launch | failed collections, two reports of one repository, restarts | no finding disappears unresolved |
| Messages to a worker (`pods/operator-messages.ts`, `operator-guidance-delivery.ts`, `completion-*.ts`, `src/packages/escalation-mcp/src/`) | messages, deliveries, decisions, waiting calls | ask, reply, nudge, deliver, acknowledge, complete | lost answers, repeated reads, worker changes, restart | consumed in the order sent |
| Event stream (`pods/event-bus.ts`, `api/websocket.ts`, `src/packages/desktop/`, `src/packages/mobile-web/`) | stored events, the client's position | store, broadcast, subscribe, replay in pages | live events between the pages, dropped connections | a client that was told it caught up did |
| Dependent pods (`pods/admission-dependents.ts`) | rows in `queued` | admit, trigger, rehydrate | parents that are reworked, restarts | starts after its parents, and does start |
| Issue watcher, goals, providers, managed execution, actions, HTTP, clients, validator | see `PROJECT.json` | | | |

How they meet: a request or a reconciler puts a pod in `queued` and enqueues it; the
queue calls `processPod`, which provisions a container and calls
`consumeAgentEvents`, which admits a run in the ledger, starts the worker with
the first pull of its event stream, and settles the run in its last `finally`
block. Feedback and rejection call `consumeAgentEvents` directly, outside the
queue. Kill, rework, deletion and both recoveries act on the same rows at any
time. The task-wide guards of the ledger, of deletion and of stop-and-retain, and
the generation and container that every caller captured, are what keeps them apart.

`PROJECT.json` lists every component, also those not modelled, and the hazards at
their lines.

## 2. Structure of the project

One module per component. Components that share rows of the database and interrupt
each other are in one module (`TaskExecution`, `PodLifecycle`, `MergeDelivery`);
components that only hand a finished result to the next one are apart. Where a component has a
promise that fits on a page, that promise is a module of its own and the component is
shown to implement it: `PodDispatch` for the queue, `TaskCustody` for runs and
deletions, `EffectOnce` for the creation of a pull request and for the action on an
attention (one instance each, since both are an intent with one remote effect).

Several `MC` modules run more than one component: components without common state are
put side by side, a behaviour is one of one of them while the others rest in their
initial states. Such an instance answers one question about the system (what may an
unattended daemon do? how does it order its own work?) with one state space.

What a continuation of the work would take up, most important first:

1. Proofs of the bounds that `TypeOK` of `MergeDelivery` adds to the types proved of it, and of what the mobile client is promised by `EventReplay`.
2. The pauses, escalations and the validation loop of a pod in `PodLifecycle`, and a crash there.
3. The worker and dispatch stages of the retry ledger, with `TaskExecution` beneath them.
4. Source adoption between tasks, provider continuations, native goals.
5. Managed execution, which is a system of its own.

## 3. Modules

| Module | Models | Uses |
|---|---|---|
| `PodDispatch` | abstract dispatcher: waiting, running, owed reruns | |
| `PodQueue` | `pods/pod-queue.ts`, all operations | INSTANCE `PodDispatch` |
| `PodKick` | the queue with pod status and `kickPod` | EXTENDS `PodQueue` |
| `TaskCustody` | abstract readers-writer lock of a task | |
| `TaskExecution` | runs, consumers, kill, rework, continuation, reconciliation, deletion intents, both run recoveries | INSTANCE `TaskCustody` |
| `StreamThrow` | `TaskExecution` with event handlers that throw | EXTENDS `TaskExecution` |
| `DeletionCleanup` | one deletion: requests, steps, receipts, late calls | |
| `PodLifecycle` | the status of one pod between `processPod`, kills, rework, rejection, kick and reconciliation | |
| `OperatorGuidance` | questions, replies, nudges, their delivery and acknowledgment, completion | |
| `EffectOnce` | abstract intent: one request, one final outcome | |
| `PrDelivery` | intents and receipts of pull requests, with the host | INSTANCE `EffectOnce` |
| `MergeDelivery` | merge journal, approval, poller, fix delivery, recovery, with the host | |
| `RetryLedger` | validations of a task on sandboxes: attempts, authorizations, dispatches | |
| `Podsitter` | attentions, decisions, reservations, the provider circuit, the service's chain | INSTANCE `EffectOnce` |
| `ScanReports` | scheduled scans, findings, the operator's decisions, repairs | |
| `ScheduledJobs` | passes, triggers, catch-ups, edits of scheduled jobs | |
| `KeyedQueue` | `util/keyed-promise-queue.ts` | |
| `PollingCoordinator` | `pods/polling-coordinator.ts` | |
| `SeriesDependents` | waiting, triggering and rehydrating of dependent pods | |
| `EventReplay` | stored and live events, the replay, the two clients | |
| `PodQueueProofs`, `TaskExecutionProofs`, `DeletionCleanupProofs`, `RetryLedgerProofs` | theorems of the module named | EXTENDS it and TLAPS |
| `ControlsProofs` | theorems of `PodLifecycle`, `OperatorGuidance` | EXTENDS `MCPodControls` |
| `DeliveryProofs` | theorems of `PrDelivery`, `MergeDelivery` | EXTENDS `MCDelivery` |
| `UnattendedProofs` | theorems of `Podsitter`, `ScanReports`, `ScheduledJobs` | EXTENDS `MCUnattended` |
| `CoordinationProofs` | theorems of `KeyedQueue`, `PollingCoordinator`, `SeriesDependents`, `EventReplay` | EXTENDS `MCCoordination` |
| `MC*` | instances for TLC | |

An action is what happens between two awaits. An operation that awaits is a record
(where it is, what it captured) and an action per section; that is where the races are.
Counters that the code does not bound have a bound among the constants.

**PodQueue.** `queue`, `activeIds`, `deferredRequeues`, `activeCount` are the
variables of `createPodQueue`; `runs[p]` counts the `processPod` calls really in
progress, which the code does not know. The operations compose values of the
bookkeeping (`Now`, `Become`), because one synchronous handler may run several of
them. A call that never settles is the step `Wedge`, and `ClearStuckEntry` keeps the
contract its comment asks of the caller; `PodKick` has the guard its caller really has.

**TaskExecution.** All pods of one logical task; tasks do not interact. `status`,
`gen`, `box` are columns of `pods` (a "box" is a container), with the nineteen
statuses reduced to those the guards tell apart: `parked` stands for every status
that waits for somebody (validated, awaiting input, in review...). `runs`, `intent`,
`stall`, `stopSent` are the durable rows. `processing` (a `processPod` call or a
continuation, with the generation it captured), `active`, `consumer`, `rework`,
`recovering` and `kills` are the daemon's memory and lost in `Crash`. `alive` and
`boxes` are the world: a stopped local container ends its processes, a suspended
sandbox may wake with them.

A run goes `open`, perhaps `unverified`, `ended`. A consumer is `admitted` (row
written), `streaming` (worker started), `closing` (the stream is being closed and
waits for the exit), `settling` (last `finally` block). `ExitUnobserved` and
`ReportUnverified` are the two ways an exit stays unknown. Which event ended the
loop, and where the pod goes then, is nondeterministic. `RecoverBegin` and
`RecoverEnd` are a reconciliation before and after its awaits; the kill or suspension
of the container it asks for is `BoxGone` or `BoxStops`, which may also happen by hand.

**DeletionCleanup.** One pod, requests that overlap, attempts with the step whose
backend calls are in flight, receipts, and what is really gone. `late` is the
deadline of a request: set by the timer (`Timeout`) or noticed between steps
(`StepReturns`). A crash forgets requests, not flights (`OrphanEnds`). The
recorded identity of the deletion is reduced to the one part that can still change,
the test pipeline of the profile; trigger `deletion_cleanup_pod_fence` freezes the rest.
`TaskExecution` sees this module as `DeleteAcquire`, `DeleteBox`, `DeleteFinish`.

**PodLifecycle.** The other half of the same calls: `TaskExecution` asks who may have
a worker, `PodLifecycle` whose write of the pod's status counts. Each call in flight is
a record with what it captured (generation, container, worktree). `Provision`, `Spawn`
and `Run` are the startup of `processPod`, with `Superseded` at its fence; `FailOwned` is
its catch. A kill asks, begins, stops the container, removes the worktree and ends, with
`KillCurrent` (its `assertDestructionAllowed`) between the steps. `Rollback` is the error path
of a rejection. `Faults` lets container and network operations fail.

**OperatorGuidance.** `waiter` is the `ask_human` call of a question in the memory of the
process (attached to a stream, detached from it, or waiting for the advisor); `messages`,
`deliveries`, `consumed` and `decided` are rows. `Read` makes or repeats a delivery; whether it
reached the worker is `received`; `Acknowledge` needs that and the run the delivery was made for.
`Decide` is the completion behind its human gate.

**PrDelivery, MergeDelivery.** `PrDelivery` has the intent of one branch and base, which several
pods and generations may share, the operation underway, and the host: a listing that lags, requests that
take effect after their sender gave up, users who open, close and merge. `MergeDelivery` has one pod and
its pull request: `plans` and `attempts` are the journal, `published` and `handoffs` the source
receipts; `ap`, `pl`, `fx` the approval, poll and fix delivery underway. Sources are
numbers; a head contains the pod's own sources up to its number, a fix only itself, and `more`
counts commits users added. The host answers a request by merging, refusing or (with
`CanSchedule`) scheduling the merge, or not at all; `flying` holds the requests that may still
take effect and `auto` those it scheduled. Approval with all its refusals is `Approve` to
`ApproveFinishes`, every error path `Fail`.

**RetryLedger.** One task, its pods, the inputs of a validation. `attempts` are the rows
of `task_retry_attempts` with the dispatch (`box`) of each; `grant` the authorizations. A
call captures inputs, is admitted (`AdmitFirst`, `AdmitRetry`, `AdmitChanged`, `AdmitGranted`), waits, starts, returns
and publishes; a new generation, an operator's decision or edited inputs may come in
between. `running` is the truth about executions, which no guard can see; a restart
leaves orphans, and `Interrupted` is what startup does with their rows.

**Podsitter.** `att`, `dec`, `audit`, `provider` and `config` are its tables. The service
runs one promise chain, so there is one `svc` with the place where it awaits and what it
has read; `life` counts the starts of the daemon and stands for owner and version of a
lease. `ReplaceConfig`, `WindowMoves`, `PodChanges`, `LeaseExpires` and `Crash` come at any time. `calls` counts
the operations begun for an attention.

**ScheduledJobs, ScanReports.** A pass lists the due jobs once and then launches one after
the other (`Tick`, `TickNext`); only the launch of a composable job awaits (`Launched`). Everything else is
serial, which is `Busy`. A scan report is collected, judged and finished by the coordinator of its job;
`Triage` is one decision of the operator, `LaunchStart` and `LaunchEnd` the launch of a repair around its
await. `covered` remembers which reports were finished when a finding was resolved.

**KeyedQueue, PollingCoordinator.** Promise chains: `after` is the promise a call was chained to,
`locks` the map. `Settle` and `Return` are apart because the `finally` block runs a microtask after the function. An
operation of the coordinator outlives its registration; its completion (`Finish`) ticks for the successor.

**SeriesDependents.** `trigger` is the call a delivered pod still owes its dependents;
`Rehydrated` what startup enqueues. Statuses after `validated` are folded. `Quiet` are the
pods that may be delivered by one of the transitions that trigger nothing.

**EventReplay.** Event ids are numbers, the connection two queues. A live event may be
broadcast between two pages of a replay. `got` and `lastEventId` are the client's, `base`
the position it connected with and `since` the last event before its subscription.

## 4. Runs

| Run | Instance | Shows |
|---|---|---|
| `MCPodQueue` | 4 pods, 3 slots, 6 requests, 2 hung calls, 1 drain | `SlotsMatchRuns`, `DrainWaits`, refinement of `PodDispatch`; `WaiterRuns`, `DeferredRuns`, `DrainCompletes` |
| `MCPodKick` | 2 pods, 1 slot, 4 requests | **violated**: `OneProcessPodPerPod` |
| `MCTaskExecution` | local + sandbox pod, 2 runs, 2 boxes, 1 crash | `LiveWorkerIsRecorded`, `DeletionIsAlone`, `SettledOnEvidence`, refinement of `TaskCustody` |
| `MCTaskRecovery` | 1 local pod, 2 runs, 2 boxes, 1 rework, 1 reconciliation visit, 1 crash | `PendingRecoveryHolds`, `StopsOnce` |
| `MCTaskLive` | 1 sandbox pod, otherwise the same | `ObservedRunSettles` |
| `MCStreamThrow` | as `MCTaskLive`, with throwing handlers | **violated**: `ReleasedWorkerIsDead` |
| `MCDeletionCleanup` | 2 requests, 3 steps, 4 attempts, 2 configurations, 1 worker, 1 crash | one cleanup at a time, none beside a run, a removed pod is clean, calls are current, attempts have owners; `DeleteAnswered` |
| `MCPodControls` | `PodLifecycle`: 2 kills, 1 rework, 2 containers, faults, local and sandbox; `OperatorGuidance`: 2 questions, 2 messages, 3 runs, 1 restart | `OneOwningWorker`, `SupersededCallSettlesNothing`, `KillEndsItsOwn`; `ConsumedInOrder` |
| `MCDelivery` | `PrDelivery`: 2 pods, 2 generations, 2 pull requests, 1 lost answer, 1 crash; `MergeDelivery`: 2 generations, 3 sources, 3 requests, 1 lost answer, 1 crash, scheduling host | `CreatesOnce`; `OneRequest`, `MergedIsReal`, `PushesSpareRequests` |
| `MCRetryLedger` | 2 pods in one generation or 1 pod in two, 2 inputs, 3 attempts, 1 automatic retry, 1 authorization | `OneExecution`, `BudgetHolds`, `OpenIsOwned` |
| `MCUnattended` | `Podsitter`: 1 pod, 2 attention states, 2 actions, 2 windows, 1 crash, 1 reconfiguration; `ScanReports`: 2 jobs, 2 reports, 2 findings, 2 decisions, 1 crash; `ScheduledJobs`: 2 jobs, 2 operations at once, 2 pods, 1 restart, 1 edit | `BudgetsHold`, `ActsOnce`, `ActsUnderAuthority`; `FindingsNeverLost`; `OccurrenceOnce` |
| `MCCoordination` | 4 calls on 2 keys; 3 registrations of a poll; a diamond of 4 pods, 2 rounds; 7 events, pages of 2, cap 3, 2 dropped connections | `EveryCallRuns`; `OneOperation`; `StartsAfterParents`, `DependentRuns`; `CaughtUp` |

*Bounds.* Every bound is a constant of its module. In the queue, four pods and three slots
have a waiter beside full slots, free slots and a pod that overtakes; six requests let
a pod be rerun while others wait. Two runs are the least for a second worker to be
admitted wrongly, two boxes for a pod that moved on, one crash for every orphan (a
second crash adds no memory to lose). The two task runs split the second pod and the
second generation: together they are too large for TLC within minutes. So reworks and
reconciliation with two pods are covered by the proofs, which need no bound, and not
by a run. Three cleanup steps have a first, a middle and a last; four attempts allow a
timeout, a failure and a crash to be followed by a retry. Two kills and one rework are
the least for a kill to outlive its generation beside another; kills of a local pod come one at a
time in the run (not in the proofs). Three sources are a pod's own, a fix of it and
a later one; three merge requests are one lost, one refused and the one that must not be. Three attempts
of a validation are one, its automatic retry, and one more that needs an
authorization; a pod is reworked only where it is alone. A diamond is the least
graph with two parents, and two rounds let a parent be taken back after it was
delivered. A replay cap above the page size, and events beyond both, make a capped replay of several pages.

*Deadlock* is not checked: every instance may stop when its bounds are used up and
the real system may be idle.

*Fairness.* `PodQueue`: a call that is not hung settles (`WF` of `Finish`);
requests, hung calls and the operator are not fair. `TaskExecution`: weak fairness of
each consumer's own steps, except reading while its worker lives. The waits behind them
are bounded by the code (`awaitExitCodeBounded`, retry back-off), and a stream whose
process is gone ends. `DeletionCleanup`: timers fire and
continuations run; backend calls need not return. `KeyedQueue`: microtasks run and the functions it is
given settle, which its callers see to with timeouts. `SeriesDependents`: a delivered pod's trigger is
called (the statement after its transition) and the queue serves what is in it, which is `WaiterRuns` of
`PodQueue`. No fairness is assumed of the world, of operators, of crashes or of the
delivery of a parent: `DependentRuns` says what follows once the parents are delivered, and
holds for parents that are delivered by a transition that triggers (section 5 has the others, and only the tip of the
diamond is `Quiet`).

*Findings.* `MCPodKick`: `kickPod` takes every `queued` pod for one without a live
call, but a live `processPod` keeps that status while it prepares, so a second call
starts and races the first. `MCStreamThrow`: an error thrown by the body of the
`for await` loop suppresses the `EXEC_EXIT_UNVERIFIED` of the stream it closes; the run
is finished although no exit was observed, and its worker may live. Quotes and lines are
in `PROJECT.json`.

## 5. Divergences seen while modelling, without a run of their own

The models contain the following behaviours of the code, as states or steps TLC can reach; no
property of a run is about them, because the property one would state is false. Each
disagrees with the comment, document or test named. Two are outside the instances: the
spelling of an address, which the models abstract from, and the order of the web client's
messages, which is in `EventReplay` with `Desktop = FALSE`.

*The pod and its controls* (`PodLifecycle`)

* A rework enqueues a pod whose superseded `processPod` is still active; the queue drops
  the duplicate (`pods/pod-queue.ts:71-82`) and nobody serves the pod until a kick or a restart, although
  `validation-trigger-workflow.ts:221` says rework must "return to the provisioning queue".
* A kill that completes during a startup is overwritten: `provisioning-workspace-population.ts:433` moves the pod to
  `running` from a stale object, while `state-machine.test.ts:77` refuses killed to running.
* A kill overlapping a rework of a failed pod finds another container than it captured, throws, and leaves
  `killing`, which `operator-kill.ts:76` says can never happen "forever".
* A rejection that fails with any other error than the superseded one moves the newer lifecycle to
  `failed` (`operator-rejection.ts:155`), against `continuation-preflight.ts:11`.
* Feedback to a local pod never reaches its worker: `refreshNetworkPolicy` throws whenever launch configurations
  exist (`resource-network.ts:50`), and `index.ts:827` always passes them; `docs/reference/cli.md:122` promises a retry.
* A wake pass writes `queued` after its awaits whatever the pod has become (`local-reconciler.ts:420`), also
  over a pod whose worker runs or that was killed, against `reconciliation-ownership.ts:7`.
* The catch of `processPod` ends a pod a kick has already failed as `killed` (`agent-process-workflow.ts:845`),
  which lines 834-835 reserve for explicit user termination.

*Delivery* (`MergeDelivery`, `KeyedQueue`)

* A pull request seen closed and reopened after a rework stays refused: nothing observes it again before a plan
  exists, and no plan is made while it was last seen closed (`merge-journal.ts:225`), although `durable-merge.ts:28`
  tells the operator to reopen it and retry.
* A crash during an approval leaves `merging`, which no control leaves.
* The merge queue is keyed by the spelling of the repository's address, which differs between approvals and polls
  (`approval-delivery-execution.ts:139`, `delivery-polling.ts:124`); `merge-queue.ts:9` says two pods of one base never race.

*Unattended work* (`ScheduledJobs`, `Podsitter`)

* Two triggers of a composable job whose launches overlap both count no active pod (`scheduled-job-manager.ts:323`);
  a pass runs a profile-bound job from the row it listed, also when it was disabled or has run meanwhile
  (against `scheduled-job-repository.ts:36`); the next run is computed from the expression read before the await.
* Podsitter computes the signature it compares from the pod it read before `readDiff` (`daemon-evidence-provider.ts:222`),
  so it may act on a state nobody decided upon; `specs/daemon-native-podsitter/design.md:151` promises a re-read.
* An attention superseded by the end of a window is never queued again while its pod stays the same
  (`podsitter-repository.ts:496`); design.md:193 says the next window "reconciles current state".
* A failed decision is renewed in a new window without asking for its budget (`podsitter-repository.ts:988`, design.md:229).

*Messages and events* (`OperatorGuidance`, `EventReplay`)

* Completion asks for uncollected guidance once and then awaits (`completion-human-gate.ts:124`); a nudge sent meanwhile is
  accepted and left behind, against `completion-guards.ts:18`.
* A reply recorded as given by an automation conflicts with the waiter it resolves, so `ask_human` reports a cancelled
  escalation (`pod-bridge-impl.ts:449`); after a timeout an operator's reply overwrites the advisor's recorded answer (`:445`).
* A live event received during a replay moves the client's position past pages still to come; if the connection then
  drops, they are not replayed (`websocket.ts:52`, `EventSocket.swift:140`). The web client replays before it
  subscribes and misses what is stored in between (`ws-client.ts:74`).

*Dependent pods* (`SeriesDependents`)

* Some transitions deliver a pod without triggering its dependents (instant override, resumed push, workspace and
  artifact completion), and a legacy admission after the parents were delivered is not enqueued
  (`admission-legacy.ts:402`): both wait for the next start of the daemon.
* Startup enqueues dependents of a stacked series at their parent's validation, not its merge
  (`admission-dependents.ts:131-142`, against line 44).

## 6. Proofs

tlapm checks every theorem to its last leaf. The only assumptions are those on the constants
(`QueueAssumption`, `TaskAssumption`, `LifecycleAssumption` and so on): bounds are natural numbers, slots and steps at least one,
the set of pods of the queue finite, that of a task not empty. So the theorems hold for any number of pods,
calls, generations, commits, findings, lost answers and crashes. One theorem has a further hypothesis, named below.

Components that one instance runs side by side are proved about in one module, which extends the instance: it
keeps each component under the name the instance gives it (`Merge!`, `Guidance!`, `Scans!`...). `...AreParts` shows that a
behaviour of the instance is a behaviour of every part, and `...Safe` that the instance therefore has every safety property
the run checks on it.

* `PodQueueProofs`: `TypeOK`, `SlotsMatchRuns`, `DrainWaits`, `ImplementsDispatch`. The
  inductive invariant adds what the dedup checks rely on: the waiting list has no
  duplicates and is disjoint from the active ids, deferred reruns are active, the counter is
  the cardinality of the active ids. It is stated of a bookkeeping value and shown to be
  kept by `ProcessNext`, `Enqueued`, `Released` and `Cleared` one at a time; actions compose
  these lemmas.
* `TaskExecutionProofs`: `TypeOK`, `LiveWorkerIsRecorded`, `DeletionIsAlone`,
  `SettledOnEvidence`, `ImplementsCustody`. None of them is inductive alone.
  `WorkersRecorded` (the live worker has the only unsettled run, and a box that
  keeps it) needs `ConsumersOwn` (a consumer works for the unsettled run, is registered for
  its pod, and has no worker when it will settle an open run), so that a late `finally` block
  cannot end a run whose worker lives; `DeletionsExclude` and `GenerationsCounted` complete it. One
  lemma per action or family of actions, frame lemmas for those that touch neither ledger
  nor workers, then `LedgerSteps` sorts all steps by their effect on ledger and intents,
  from which both step properties and the refinement follow. On top of it, `PendingRecoveryHolds` and
  `StopsOnce`: `StallInvariant` adds that a stop was sent only for a request that says so, and
  `PendingExcludes` that while a request is pending its run is the only unsettled one and no control may touch the pod.
* `DeletionCleanupProofs`: `TypeOK`, `OneCleanupAtATime`, `NoRunDuringCleanup`,
  `DeletedIsClean`, `CallsAreCurrent`, `UnsettledHasOwner`. The invariant says that a flight belongs to an
  unsettled attempt of an open intent (`Fenced`), a request in progress to its own attempt
  (`Owned`), and that a receipt is evidence (`Evidenced`).
* `ControlsProofs`, `PodLifecycle`: `TypeOK`, `OneOwningWorker`, `SupersededCallSettlesNothing`, `KillEndsItsOwn`.
  `WorkerInv` adds that nobody captured a generation to come (`CapturedBefore`) and that a container spawned by a
  startup and not yet recorded is known to that startup alone (`SpawnedIsPrivate`): otherwise a rejection could
  hold the container a `processPod` is about to run in, and both would own the pod.
* `ControlsProofs`, `OperatorGuidance`: `TypeOK`, `ConsumedInOrder`. A delivery is acknowledged long after it was made, so the
  order must hold of deliveries: whatever comes before a message of a delivery is in it or consumed
  (`DeliveriesInOrder`), and a run has one delivery that it did not acknowledge (`OneOpenDelivery`). That a batch is the
  beginning of what is pending is `BatchBegins`, which counts the messages before it.
* `DeliveryProofs`, `PrDelivery`: `TypeOK`, `ReceiptIsReal`, `FlyingIsMarked`, and the refinement of `EffectOnce` (`CreatesOnce`).
  `Claimed` is the core of it: an intent that is `reserved` has sent nothing, and an operation that drafts or
  has posted left `creating` in the ledger. Restarting, retrying or another pod of the branch
  can then only look up and adopt.
* `DeliveryProofs`, `MergeDelivery`: `TypeOK`, `OneRequest`, `MergedIsReal`,
  `PushesSpareRequests`. A request that can still take effect is on record as unanswered or scheduled (`RequestsOpen`), so the journal,
  which admits only where there is no such record, admits only where nothing can take effect (`AdmittedIsQuiet`): that gives
  `OneRequest`. A push happens later than the question the journal answered, and needs that nobody else asks
  meanwhile (`PushesQuiet`). An approval has the pod for itself (`ApprovalOwns`). A fix shares it with the poller, which may already be
  about to ask: it refuses itself because the handoff of the fix is later than any it knew when it began
  (`FixOwns`, `FixAhead`). `MergesReal` and `ReadsReal` say that what is recorded, and what an operation in flight has read,
  as merged is merged for good; a closed pull request may be reopened, a merged one not.
* `RetryLedgerProofs`: `TypeOK`, `RunningIsHeld`, `OneExecution`, `OpenIsOwned`, `BudgetHolds`. Admission asks the
  ledger, never the sandbox, so `OneExecution` needs that every running execution is held by an
  unsettled dispatch (`RunningIsHeld`), that only the last attempt is open (`OpenIsLast`), that a waiting call is alone
  (`WaitsAlone`) and that a call has its attempt to itself (`OwnersOwn`). The budget has an invariant of its own,
  `BudgetInv`: every attempt admitted after a transient failure was within the policy or used an authorization made
  for that very failure, and the number of the former never exceeds the policy.
* `UnattendedProofs`, `Podsitter`: `TypeOK`, `BudgetsHold`, `ActsUnderAuthority`, `ActsOnce`. The ceilings are proved of reservations
  (`Ceilings`, `Exclusions`), which precede operations; `RecordsAgree` ties operations to a dispatch on record, and
  `ChainHolds` says what the chain may rely on after an await. All steps are shown to move each attention by
  `Progress`, from which the three properties follow.
* `UnattendedProofs`, `ScanReports`: `TypeOK`, `FindingsNeverLost`, inductive together with `OwnReport` (the operation of a job
  is about a report of that job): without it a second job could be collecting into the report that is finished.
* `UnattendedProofs`, `ScheduledJobs`: `TypeOK`, `OccurrenceOnce`, with `Underway` (what an operation in flight holds). A launch
  asks for a pod of its occurrence in the step that admits one, so the invariant has no history; the
  arithmetic of periods (the next run is a later multiple) is in `Quotient`, `OneMore` and `Multiple`.
* `CoordinationProofs`, `KeyedQueue`: types, mutual exclusion (`Exclusive`) and `SlotsAreActive`: a call is chained to one that covers
  every earlier unsettled call of its key (`Chain`), and the slot holds the last one (`Slots`).
* `CoordinationProofs`, `PollingCoordinator`: `TypeOK`, `OneOperation`. `OpInv` says that an unsettled operation is the one
  `running` names, also when its registration is gone; a tick that finds none recorded then starts the only one.
* `CoordinationProofs`, `SeriesDependents`: `TypeOK`, `StartsAfterParents`. `SeriesInv` states it of the queue as well, and that a pod past
  `queued` once started: so it survives a rework, which takes back a parent but not what it had delivered.
* `CoordinationProofs`, `EventReplay`: `TypeOK`, for both clients, and `CaughtUp`, for the desktop client (the theorem assumes `Desktop`). `StreamInv` has two parts:
  `Connection`, that the client subscribes first and nothing of a connection outlives it, and `Promises`, that what a
  replay has sent up to its cursor, and what its end promises, the client has or has on its way.
  The mobile client subscribes after it asks for the replay, and section 5 says what it misses.

The proofs about journals and histories need the largest element of a set of numbers; `Least` and
`Greatest` get it from the well-foundedness of the natural numbers, a theorem of the library without operator parameters.

Only model-checked: the liveness properties (`WaiterRuns`, `DeferredRuns`, `DrainCompletes`, `ObservedRunSettles`,
`DeleteAnswered`, `EveryCallRuns`, `DependentRuns`), since fairness is beyond the prover. Every safety property of the passing runs
is a theorem (`CaughtUp` under the hypothesis above), and so is every `TypeOK`, bounds included. Four of
these need more than the safety arguments do: `PrDelivery` that an intent is
whole once it is reserved and nothing is done without one (`WholeIntent`, `Engaged`); `Podsitter` that a lease
belongs to an attention being decided (`Bounds`); `EventReplay` that no number names an event that was not
stored (`StreamTyped`); `MergeDelivery` that commits are numbered as they come, planned once per generation and
handed over once (`BoundInv`), which an injection into the commits and generations turns into the length of the journal.

## 7. What the models leave out

* `TaskExecution`: a pod has one `processPod` call or continuation at a time. In the code a
  continuation is not in the queue and may meet a call that is still ending, and `PodKick`
  shows two calls for one pod; admission in the ledger keeps their workers apart, and `PodLifecycle` has the
  two side by side. Token budgets, binding replay, retained checkpoints, source adoption and
  validation executions are guards that only refuse more and are taken as satisfied.
* Runs orphaned by a crash may have no control that settles them (see the hazards); the
  models show they never lead to a second worker, not that the task becomes free again.
* `PodLifecycle`: pauses, escalations, the validation loop, approval and merging; the cleanup a kill goes on with
  after its timeout; a crash (which is `TaskExecution`'s).
* `PrDelivery`: the log of dispositions. `MergeDelivery`: creation of a missing pull request during an approval
  (`PrDelivery`), rewrites of the source, squashed histories and how the poller decides to start a fix.
* `RetryLedger`: validations on local containers (they have no dispatch), the stages of workers and dispatches,
  changes of the provider binding, repairs of a rewrite.
* `Podsitter`: its own sandbox, evidence packets and prompts, and what an operation does beyond succeeding or failing.
* `ScheduledJobs`: templates and field values. `ScanReports`: one repository; paging, the scanners, the older
  profile-bound repair launch.
* `OperatorGuidance`: one pod; questions about credentials and goals, overrides, pauses.
* `EventReplay`: the initial load over HTTP and subscriptions to one pod; the run has the desktop client, the
  other client's order of messages is in the model (`Desktop = FALSE`).
* `SeriesDependents`: base branches, the healing of rows failed by a cascade, creation of a series.
* Not modelled: source adoption, native goals, provider attempts, the issue watcher, the action engine, runtimes,
  containers, worktrees, the phases of a validation, profiles, managed execution, HTTP, notifications and the
  clients. Most of these are long (the validation engine, the browser tests, the
  worktree manager, the sandbox client and the desktop app are most of the repository's lines) and are input and output: parsers,
  command lines, requests and screens around calls the models treat as steps of the world. Their correctness is in formats
  and texts, which a model would have to copy to say anything about. Source adoption, goals,
  provider attempts and managed execution do have protocols; they are next (section 2).
