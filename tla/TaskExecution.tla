--------------------------- MODULE TaskExecution ---------------------------
(* Who may use the source and resources of one logical task: worker runs and *)
(* their durable ledger (task-execution-ledger.ts), the in-memory consumer   *)
(* of a worker's event stream (agent-event-consumption.ts), pod deletion     *)
(* with its ownership receipts (deletion-ownership.ts), and the two operator *)
(* recoveries that settle a run nobody observes any more.                    *)
(*                                                                           *)
(* The worker process and its container ("box") live outside the daemon and  *)
(* outlive a crash of it.  A database transaction is one step; every await   *)
(* between two of them is a step boundary.  Pods are the pods of ONE logical *)
(* task: every guard of the ledger is task-wide and tasks do not interact.   *)
EXTENDS Naturals, FiniteSets

CONSTANTS Pod,          \* pods of the logical task
          Sandbox,      \* those with execution target "sandbox"; others are local
          MaxRuns,      \* bound: worker runs ever admitted
          MaxBoxes,     \* bound: containers ever created
          MaxReworks,   \* bound: new lifecycle generations
          MaxCrashes,   \* bound: daemon crashes
          MaxVisits     \* bound: pods looked into by reconciliations

ASSUME TaskAssumption ==
  /\ Pod # {} /\ Sandbox \subseteq Pod
  /\ MaxRuns \in Nat /\ MaxBoxes \in Nat /\ MaxReworks \in Nat /\ MaxCrashes \in Nat
  /\ MaxVisits \in Nat

Run == 1..MaxRuns
Box == 1..MaxBoxes
None == 0          \* no run, no box

VARIABLES
  \* the pods table
  status, gen, box,
  \* task_agent_runs, deletion_cleanup_intents, stalled_worker_recoveries
  runs, intent, stall, stopSent,
  \* the daemon's memory
  processing, active, consumer, rework, recovering, kills,
  \* the world
  alive, boxes, stopCalls, crashes,
  \* used up part of a bound
  reworks, visits

podVars == <<status, gen, box>>
recoveryVars == <<stall, stopSent, stopCalls>>
runVars == <<runs, consumer, active>>
requestVars == <<recovering, visits, kills>>
controlVars == <<processing, rework, reworks, requestVars>>
worldVars == <<alive, boxes>>
taskVars == <<podVars, intent, recoveryVars, runVars, controlVars, worldVars, crashes>>

Status == {"queued", "running", "paused", "parked", "failed", "killing", "killed", "deleted"}
RunState == {"unused", "open", "unverified", "ended"}
BoxState == {"absent", "up", "stopped", "deleted"}
ConsumerState == {"none", "admitted", "streaming", "closing", "settling"}

\* A caller of consumeAgentEvents: processPod, or a continuation of a retained box.
CallRecord == [kind : {"none", "process", "resume"}, gen : 0..MaxReworks + 1]
NoCall == [kind |-> "none", gen |-> 0]

KillRecord == [on : BOOLEAN, gen : 0..MaxReworks + 1, box : Box \cup {None}]
NoKill == [on |-> FALSE, gen |-> 0, box |-> None]

NoRun == [state |-> "unused", pod |-> CHOOSE p \in Pod : TRUE, gen |-> 0, box |-> None]

Init ==
  /\ status = [p \in Pod |-> "queued"]
  /\ gen = [p \in Pod |-> 1]
  /\ box = [p \in Pod |-> None]
  /\ runs = [r \in Run |-> NoRun]
  /\ intent = [p \in Pod |-> "none"]
  /\ stall = [r \in Run |-> "none"]
  /\ stopSent = {}
  /\ processing = [p \in Pod |-> NoCall]
  /\ active = [p \in Pod |-> None]
  /\ consumer = [r \in Run |-> "none"]
  /\ rework = {}
  /\ recovering = {}
  /\ kills = [p \in Pod |-> NoKill]
  /\ reworks = 0
  /\ visits = 0
  /\ alive = {}
  /\ boxes = [b \in Box |-> "absent"]
  /\ stopCalls = [r \in Run |-> 0]
  /\ crashes = 0
----------------------------------------------------------------------------
(* Guards shared by the handlers; each is task-wide, as its SQL is.         *)

Unsettled == {r \in Run : runs[r].state \in {"open", "unverified"}}
Unverified == {r \in Run : runs[r].state = "unverified"}
OpenIntents == {p \in Pod : intent[p] = "open"}
PendingStalls == {r \in Run : stall[r] = "pending"}

\* deletionOwnership.assertTaskAvailable
TaskAvailable == OpenIntents = {}

\* Mutant: update does not ask for pending stop-and-retain requests.
MayUpdateUnfenced == TaskAvailable

\* What PodRepository.update checks before it writes status or container.
MayUpdate == TaskAvailable /\ PendingStalls = {}

\* ownsExpectedLifecycle, and ownsRun: it is also the registered consumer.
OwnsLifecycle(r) == runs[r].gen = gen[runs[r].pod] /\ runs[r].box = box[runs[r].pod]
OwnsRun(r) == active[runs[r].pod] = r /\ OwnsLifecycle(r)

WorkersIn(b) == {r \in alive : runs[r].box = b}
----------------------------------------------------------------------------
(* A processPod or resume call, from the queue to its conclusion.           *)

\* Provisioning gives the pod a fresh box and moves it to running.
Launch(p) ==
  /\ status[p] = "queued" /\ processing[p] = NoCall
  /\ MayUpdate
  /\ \E b \in Box :
       /\ boxes[b] = "absent" /\ \A c \in Box : c < b => boxes[c] # "absent"
       /\ boxes' = [boxes EXCEPT ![b] = "up"]
       /\ box' = [box EXCEPT ![p] = b]
  /\ status' = [status EXCEPT ![p] = "running"]
  /\ processing' = [processing EXCEPT ![p] = [kind |-> "process", gen |-> gen[p]]]
  /\ UNCHANGED <<gen, intent, recoveryVars, runVars, rework, reworks, requestVars, alive,
                 crashes>>

\* Feedback, rejection or resume continues in the retained box.
Resume(p) ==
  /\ status[p] \in {"paused", "parked", "failed"} /\ processing[p] = NoCall
  /\ MayUpdate
  /\ Unverified = {}
  /\ \A r \in Unsettled : runs[r].pod # p
  /\ box[p] # None /\ boxes[box[p]] \in {"up", "stopped"}
  /\ boxes' = [boxes EXCEPT ![box[p]] = "up"]
  /\ status' = [status EXCEPT ![p] = "running"]
  /\ processing' = [processing EXCEPT ![p] = [kind |-> "resume", gen |-> gen[p]]]
  /\ UNCHANGED <<gen, box, intent, recoveryVars, runVars, rework, reworks, requestVars, alive,
                 crashes>>

\* processPod binds its run to the lifecycle it launched; a continuation takes the
\* lifecycle its pod has by now.
CallIsCurrent(p) ==
  processing[p] # NoCall /\ (processing[p].kind = "process" => processing[p].gen = gen[p])

\* The guards of beginRun, which does not look at the pod's status.
MayBegin == TaskAvailable /\ PendingStalls = {} /\ Unsettled = {}

\* Mutant: beginRun looks for unsettled runs of the same pod only.
AdmitPerPod(p) ==
  /\ CallIsCurrent(p) /\ box[p] # None
  /\ TaskAvailable /\ PendingStalls = {} /\ \A q \in Unsettled : runs[q].pod # p
  /\ \E r \in Run :
       /\ runs[r].state = "unused" /\ \A q \in Run : q < r => runs[q].state # "unused"
       /\ runs' = [runs EXCEPT ![r] = [state |-> "open", pod |-> p, gen |-> gen[p], box |-> box[p]]]
       /\ consumer' = [consumer EXCEPT ![r] = "admitted"]
       /\ active' = [active EXCEPT ![p] = r]
  /\ UNCHANGED <<podVars, intent, recoveryVars, controlVars, worldVars, crashes>>

\* consumeAgentEvents: the run row and the registered consumer, in one transaction.
Admit(p) ==
  /\ CallIsCurrent(p) /\ box[p] # None
  /\ MayBegin
  /\ \E r \in Run :
       /\ runs[r].state = "unused" /\ \A q \in Run : q < r => runs[q].state # "unused"
       /\ runs' = [runs EXCEPT ![r] = [state |-> "open", pod |-> p, gen |-> gen[p], box |-> box[p]]]
       /\ consumer' = [consumer EXCEPT ![r] = "admitted"]
       /\ active' = [active EXCEPT ![p] = r]
  /\ UNCHANGED <<podVars, intent, recoveryVars, controlVars, worldVars, crashes>>

\* The first pull of the stream starts the worker, unless the run lost its
\* lifecycle while it waited or the box cannot execute.
Start(r) ==
  /\ consumer[r] = "admitted"
  /\ IF OwnsRun(r) /\ boxes[runs[r].box] = "up"
     THEN /\ consumer' = [consumer EXCEPT ![r] = "streaming"]
          /\ alive' = alive \cup {r}
     ELSE /\ consumer' = [consumer EXCEPT ![r] = "settling"]
          /\ UNCHANGED alive
  /\ UNCHANGED <<podVars, intent, recoveryVars, runs, active, controlVars, boxes, crashes>>

\* An event that ends the loop (completion, fatal error, budget, pause, a stale
\* lifecycle) or the end of the stream; an owner may move the pod.
Read(r) ==
  /\ consumer[r] = "streaming"
  /\ consumer' = [consumer EXCEPT ![r] = "closing"]
  /\ \E s \in {"running", "paused", "failed"} :
       status' = IF OwnsRun(r) /\ status[runs[r].pod] = "running" /\ MayUpdate
                 THEN [status EXCEPT ![runs[r].pod] = s] ELSE status
  /\ UNCHANGED <<gen, box, intent, recoveryVars, runs, active, controlVars, worldVars, crashes>>

\* retainUnverifiedRun
Retained(r) == [runs EXCEPT ![r].state = IF @ = "open" THEN "unverified" ELSE @]

\* The runtime reports that the worker's termination could not be verified: the
\* run keeps that evidence whoever owns the pod now.
ReportUnverified(r) ==
  /\ consumer[r] = "streaming"
  /\ consumer' = [consumer EXCEPT ![r] = "settling"]
  /\ runs' = Retained(r)
  /\ status' = IF OwnsRun(r) /\ status[runs[r].pod] = "running" /\ MayUpdate
               THEN [status EXCEPT ![runs[r].pod] = "failed"] ELSE status
  /\ UNCHANGED <<gen, box, intent, recoveryVars, active, controlVars, worldVars, crashes>>

\* Mutant: a missing exit code is logged and the run settles as usual.
ExitAssumed(r) ==
  /\ consumer[r] = "closing"
  /\ consumer' = [consumer EXCEPT ![r] = "settling"]
  /\ UNCHANGED <<podVars, intent, recoveryVars, runs, active, controlVars, worldVars, crashes>>

\* Closing the stream waits, bounded, for the exit of the worker.
ExitObserved(r) ==
  /\ consumer[r] = "closing" /\ r \notin alive
  /\ consumer' = [consumer EXCEPT ![r] = "settling"]
  /\ UNCHANGED <<podVars, intent, recoveryVars, runs, active, controlVars, worldVars, crashes>>

\* EXEC_EXIT_UNVERIFIED: no exit was observed in time.
ExitUnobserved(r) ==
  /\ consumer[r] = "closing"
  /\ consumer' = [consumer EXCEPT ![r] = "settling"]
  /\ runs' = Retained(r)
  /\ UNCHANGED <<podVars, intent, recoveryVars, active, controlVars, worldVars, crashes>>

\* Mutant: the finally block forgets the run when the consumer lost its lifecycle.
SettleIfOwner(r) ==
  /\ consumer[r] = "settling"
  /\ runs' = [runs EXCEPT ![r].state = IF @ = "open" /\ OwnsRun(r) THEN "ended" ELSE @]
  /\ consumer' = [consumer EXCEPT ![r] = "none"]
  /\ active' = [p \in Pod |-> IF active[p] = r THEN None ELSE active[p]]
  /\ UNCHANGED <<podVars, intent, recoveryVars, controlVars, worldVars, crashes>>

\* The last finally block: finishRun unless the run is retained, then the
\* consumer is no longer registered.
Settle(r) ==
  /\ consumer[r] = "settling"
  /\ runs' = [runs EXCEPT ![r].state = IF @ = "open" THEN "ended" ELSE @]
  /\ consumer' = [consumer EXCEPT ![r] = "none"]
  /\ active' = [p \in Pod |-> IF active[p] = r THEN None ELSE active[p]]
  /\ UNCHANGED <<podVars, intent, recoveryVars, controlVars, worldVars, crashes>>

\* The pod's row is written with a status of S, its box kept or dropped after a
\* best-effort kill (BoxGone); a pod queued again starts without its box.
WriteRow(p, S) ==
  /\ \E s \in S : status' = [status EXCEPT ![p] = s]
  /\ \E b \in {None, box[p]} : box' = [box EXCEPT ![p] = b]
  /\ status'[p] = "queued" => box'[p] = None

\* The caller ends: processPod moves its pod on if the pod is still in its lifecycle,
\* to the queue when the failure of a sandbox is taken for transient; the rollback
\* of a continuation does not ask for the lifecycle.
Conclude(p) ==
  /\ processing[p] # NoCall
  /\ \A r \in Run : consumer[r] # "none" => runs[r].pod # p
  /\ IF CallIsCurrent(p) /\ status[p] \in {"queued", "running", "paused"} /\ MayUpdate
     THEN WriteRow(p, {"parked", "failed", "paused", "queued"})
     ELSE UNCHANGED <<status, box>>
  /\ processing' = [processing EXCEPT ![p] = NoCall]
  /\ UNCHANGED <<gen, intent, recoveryVars, runVars, rework, reworks, requestVars, worldVars,
                 crashes>>
----------------------------------------------------------------------------
(* Operator controls that move a pod between lifecycles.                    *)

\* triggerValidation(force): fence the old lifecycle before any teardown.
ReworkBegin(p) ==
  /\ status[p] \in {"parked", "failed", "killed"} /\ p \notin rework
  /\ reworks < MaxReworks /\ reworks' = reworks + 1
  /\ MayUpdate
  /\ Unverified = {}
  /\ gen' = [gen EXCEPT ![p] = @ + 1]
  /\ rework' = rework \cup {p}
  /\ UNCHANGED <<status, box, intent, recoveryVars, runVars, processing, requestVars,
                 worldVars, crashes>>

\* ... and after the teardown drop the box and queue the pod, if it may be queued.
ReworkQueue(p) ==
  /\ p \in rework
  /\ rework' = rework \ {p}
  /\ IF MayUpdate /\ status[p] # "deleted"
     THEN /\ box' = [box EXCEPT ![p] = None]
          /\ status' = IF status[p] \in {"paused", "parked", "failed", "killed"}
                       THEN [status EXCEPT ![p] = "queued"] ELSE status
     ELSE UNCHANGED <<box, status>>
  /\ UNCHANGED <<gen, intent, recoveryVars, runVars, processing, reworks, requestVars,
                 worldVars, crashes>>

\* killSession: from here on the kill holds what it saw of its pod.
KillBegin(p) ==
  /\ status[p] \in {"queued", "running", "paused", "parked", "failed"}
  /\ MayUpdate
  /\ status' = [status EXCEPT ![p] = "killing"]
  /\ kills' = [kills EXCEPT ![p] = [on |-> TRUE, gen |-> gen[p], box |-> box[p]]]
  /\ UNCHANGED <<gen, box, intent, recoveryVars, runVars, processing, rework, reworks,
                 recovering, visits, worldVars, crashes>>

\* assertDestructionAllowed: the pod is still the one the kill was asked for.
MayDestroy(p) == kills[p].on /\ kills[p].gen = gen[p] /\ kills[p].box = box[p] /\ TaskAvailable

\* The kill's cleanup deletes the box.
KillBox(p) ==
  /\ MayDestroy(p) /\ box[p] # None
  /\ boxes' = [boxes EXCEPT ![box[p]] = "deleted"]
  /\ alive' = alive \ WorkersIn(box[p])
  /\ IF MayUpdate
     THEN /\ box' = [box EXCEPT ![p] = None]
          /\ kills' = [kills EXCEPT ![p].box = None]
     ELSE UNCHANGED <<box, kills>>
  /\ UNCHANGED <<status, gen, intent, recoveryVars, runVars, processing, rework, reworks,
                 recovering, visits, crashes>>

\* killed, when the cleanup is over or its 30 s are (a call that lands later is
\* BoxGone); a kill that lost its pod only ends.
KillEnd(p) ==
  /\ kills[p].on
  /\ kills' = [kills EXCEPT ![p] = NoKill]
  /\ status' = IF kills[p].gen = gen[p] /\ status[p] = "killing" /\ MayUpdate
               THEN [status EXCEPT ![p] = "killed"] ELSE status
  /\ UNCHANGED <<gen, box, intent, recoveryVars, runVars, processing, rework, reworks,
                 recovering, visits, worldVars, crashes>>

\* Startup or wake reconciliation, while requests are already served.  A local
\* pod found in "killing" is killed at once.
RecoverKilling(p) ==
  /\ p \notin Sandbox /\ status[p] = "killing"
  /\ Unsettled = {}
  /\ MayUpdate
  /\ status' = [status EXCEPT ![p] = "killed"]
  /\ UNCHANGED <<gen, box, intent, recoveryVars, runVars, controlVars, worldVars, crashes>>

\* Any other interrupted pod of a task with nothing unresolved is looked into:
\* its box is killed or suspended (BoxGone, BoxStops) ...
RecoverBegin(p) ==
  /\ status[p] \in {"running", "paused"} /\ p \notin recovering
  /\ Unsettled = {}
  /\ TaskAvailable
  /\ recovering' = recovering \cup {p}
  /\ visits < MaxVisits /\ visits' = visits + 1
  /\ UNCHANGED <<podVars, intent, recoveryVars, runVars, processing, rework, reworks, kills,
                 worldVars, crashes>>

\* ... and its row written, past the state machine and whatever the pod has done
\* meanwhile.
RecoverEnd(p) ==
  /\ p \in recovering
  /\ recovering' = recovering \ {p}
  /\ IF MayUpdate /\ status[p] # "deleted"
     THEN WriteRow(p, {"queued", "running", "paused", "failed", "killed"})
     ELSE UNCHANGED <<status, box>>
  /\ UNCHANGED <<gen, intent, recoveryVars, runVars, processing, rework, reworks, visits, kills,
                 worldVars, crashes>>
----------------------------------------------------------------------------
(* Deletion as the rest of the task sees it; DeletionCleanup has the steps, *)
(* attempts and timeouts of one deletion.                                   *)

\* Mutant: acquire trusts the pod's status and does not look at the ledger.
AcquireUnchecked(p) ==
  /\ status[p] \in {"parked", "failed", "killing", "killed"}
  /\ intent[p] = "none"
  /\ intent' = [intent EXCEPT ![p] = "open"]
  /\ UNCHANGED <<podVars, recoveryVars, runVars, controlVars, worldVars, crashes>>

DeleteAcquire(p) ==
  /\ status[p] \in {"parked", "failed", "killing", "killed"}
  /\ Unsettled = {}
  /\ intent[p] = "none"
  /\ intent' = [intent EXCEPT ![p] = "open"]
  /\ UNCHANGED <<podVars, recoveryVars, runVars, controlVars, worldVars, crashes>>

\* The cleanup step that kills the pod's box.
DeleteBox(p) ==
  /\ intent[p] = "open" /\ box[p] # None /\ boxes[box[p]] # "deleted"
  /\ boxes' = [boxes EXCEPT ![box[p]] = "deleted"]
  /\ alive' = alive \ WorkersIn(box[p])
  /\ UNCHANGED <<podVars, intent, recoveryVars, runVars, controlVars, crashes>>

\* Ownership is asserted again, then receipt and row removal are one transaction.
DeleteFinish(p) ==
  /\ intent[p] = "open"
  /\ box[p] # None => boxes[box[p]] = "deleted"
  /\ Unsettled = {} /\ PendingStalls = {}
  /\ intent' = [intent EXCEPT ![p] = "done"]
  /\ status' = [status EXCEPT ![p] = "deleted"]
  /\ box' = [box EXCEPT ![p] = None]
  /\ UNCHANGED <<gen, recoveryVars, runVars, controlVars, worldVars, crashes>>
----------------------------------------------------------------------------
(* Settling a run that no consumer observes any more.                       *)

\* policy() of the stop-and-retain recovery: the exact run of the current
\* lifecycle in the current local box, alone, and no invocation active.
StallPolicy(r) ==
  LET p == runs[r].pod
  IN /\ Unsettled = {r}
     /\ p \notin Sandbox
     /\ status[p] \in {"running", "failed"}
     /\ OwnsLifecycle(r)
     /\ TaskAvailable
     /\ \A q \in Pod : active[q] = None

StallAdmit(r) ==
  /\ stall[r] = "none"
  /\ StallPolicy(r) /\ PendingStalls = {}
  /\ boxes[runs[r].box] \in {"up", "stopped"}
  /\ stall' = [stall EXCEPT ![r] = "pending"]
  /\ UNCHANGED <<podVars, intent, stopSent, stopCalls, runVars, controlVars, worldVars, crashes>>

\* Mutant: the dispatch is not recorded, so a repeated request stops again.
StopUnrecorded(r) ==
  /\ stall[r] = "pending" /\ StallPolicy(r)
  /\ boxes[runs[r].box] = "up"
  /\ r \notin stopSent
  /\ stopCalls[r] < 2       \* bound
  /\ stopCalls' = [stopCalls EXCEPT ![r] = @ + 1]
  /\ UNCHANGED <<podVars, intent, stall, stopSent, runVars, controlVars, worldVars, crashes>>

\* dispatchStop: the flag is durable before the call, which may then not be made.
StallStop(r) ==
  /\ stall[r] = "pending" /\ StallPolicy(r)
  /\ boxes[runs[r].box] = "up"
  /\ r \notin stopSent
  /\ stopSent' = stopSent \cup {r}
  /\ \/ stopCalls' = [stopCalls EXCEPT ![r] = @ + 1]
     \/ UNCHANGED stopCalls
  /\ UNCHANGED <<podVars, intent, stall, runVars, controlVars, worldVars, crashes>>

\* The box is observed stopped and its workspace archived: settle in one transaction.
StallSettle(r) ==
  /\ stall[r] = "pending" /\ StallPolicy(r)
  /\ boxes[runs[r].box] = "stopped"
  /\ runs' = [runs EXCEPT ![r].state = "ended"]
  /\ stall' = [stall EXCEPT ![r] = "settled"]
  /\ status' = [status EXCEPT ![runs[r].pod] = "failed"]
  /\ UNCHANGED <<gen, box, intent, stopSent, stopCalls, consumer, active, controlVars,
                 worldVars, crashes>>

\* What reconcileTermination needs besides the state of the sandbox.
Reconcilable(r) ==
  LET p == runs[r].pod
  IN /\ runs[r].state = "unverified"
     /\ p \in Sandbox
     /\ status[p] = "failed" /\ runs[r].gen = gen[p] /\ active[p] = None
     /\ box[p] \in {None, runs[r].box}
     /\ TaskAvailable

\* Mutant: a stopped sandbox is taken for a dead worker.
ReconcileStopped(r) ==
  /\ Reconcilable(r)
  /\ boxes[runs[r].box] \in {"stopped", "deleted"}
  /\ runs' = [runs EXCEPT ![r].state = "ended"]
  /\ box' = [box EXCEPT ![runs[r].pod] = None]
  /\ UNCHANGED <<status, gen, intent, recoveryVars, consumer, active, controlVars,
                 worldVars, crashes>>

\* The sandbox is confirmed deleted: its run is over, whatever its exit was.
ReconcileTermination(r) ==
  /\ Reconcilable(r)
  /\ boxes[runs[r].box] = "deleted"
  /\ runs' = [runs EXCEPT ![r].state = "ended"]
  /\ box' = [box EXCEPT ![runs[r].pod] = None]
  /\ UNCHANGED <<status, gen, intent, recoveryVars, consumer, active, controlVars,
                 worldVars, crashes>>
----------------------------------------------------------------------------
(* The world: processes end, boxes are stopped or removed by their backend, *)
(* by hand or by a call that was still in flight, and the daemon crashes.   *)

\* Other boxes are out of the daemon's sight for good: their fate changes nothing.
Referenced(b) == (\E p \in Pod : box[p] = b) \/ (\E r \in Unsettled : runs[r].box = b)

WorkerExits(r) ==
  /\ r \in alive
  /\ alive' = alive \ {r}
  /\ UNCHANGED <<podVars, intent, recoveryVars, runVars, controlVars, boxes, crashes>>

\* A stopped local box ends its processes; a suspended sandbox may wake with them.
BoxStops(b) ==
  /\ boxes[b] = "up" /\ Referenced(b)
  /\ boxes' = [boxes EXCEPT ![b] = "stopped"]
  /\ alive' = alive \ {r \in WorkersIn(b) : runs[r].pod \notin Sandbox}
  /\ UNCHANGED <<podVars, intent, recoveryVars, runVars, controlVars, crashes>>

BoxGone(b) ==
  /\ boxes[b] \in {"up", "stopped"} /\ Referenced(b)
  /\ boxes' = [boxes EXCEPT ![b] = "deleted"]
  /\ alive' = alive \ WorkersIn(b)
  /\ UNCHANGED <<podVars, intent, recoveryVars, runVars, controlVars, crashes>>

Crash ==
  /\ crashes < MaxCrashes
  /\ crashes' = crashes + 1
  /\ processing' = [p \in Pod |-> NoCall]
  /\ active' = [p \in Pod |-> None]
  /\ consumer' = [r \in Run |-> "none"]
  /\ rework' = {}
  /\ recovering' = {}
  /\ kills' = [p \in Pod |-> NoKill]
  /\ UNCHANGED <<podVars, intent, recoveryVars, runs, worldVars, reworks, visits>>

ConsumerStep(r) == Start(r) \/ Read(r) \/ ExitObserved(r) \/ ExitUnobserved(r) \/ Settle(r)

Next ==
  \/ \E p \in Pod : \/ Launch(p) \/ Resume(p) \/ Admit(p) \/ Conclude(p)
                    \/ ReworkBegin(p) \/ ReworkQueue(p)
                    \/ KillBegin(p) \/ KillBox(p) \/ KillEnd(p)
                    \/ RecoverKilling(p) \/ RecoverBegin(p) \/ RecoverEnd(p)
                    \/ DeleteAcquire(p) \/ DeleteBox(p) \/ DeleteFinish(p)
  \/ \E r \in Run : \/ ConsumerStep(r) \/ ReportUnverified(r)
                    \/ StallAdmit(r) \/ StallStop(r) \/ StallSettle(r)
                    \/ ReconcileTermination(r) \/ WorkerExits(r)
  \/ \E b \in Box : BoxStops(b) \/ BoxGone(b)
  \/ Crash

Spec == Init /\ [][Next]_taskVars

\* Every wait of a consumer is bounded, except the one for the next event: only
\* a stream whose worker exited is certain to end.
FairStep(r) == ConsumerStep(r) /\ ~ (consumer[r] = "streaming" /\ r \in alive)
FairSpec == Spec /\ \A r \in Run : WF_taskVars(FairStep(r))
----------------------------------------------------------------------------
(* Type invariant of the tables and of the daemon's memory.                 *)
TypeOK ==
  /\ status \in [Pod -> Status]
  /\ gen \in [Pod -> 1..MaxReworks + 1]
  /\ box \in [Pod -> Box \cup {None}]
  /\ runs \in [Run -> [state : RunState, pod : Pod, gen : 0..MaxReworks + 1, box : Box \cup {None}]]
  /\ intent \in [Pod -> {"none", "open", "done"}]
  /\ stall \in [Run -> {"none", "pending", "settled"}]
  /\ stopSent \subseteq Run
  /\ processing \in [Pod -> CallRecord]
  /\ active \in [Pod -> Run \cup {None}]
  /\ consumer \in [Run -> ConsumerState]
  /\ rework \subseteq Pod /\ recovering \subseteq Pod
  /\ kills \in [Pod -> KillRecord]
  /\ reworks \in 0..MaxReworks /\ visits \in 0..MaxVisits
  /\ alive \subseteq Run
  /\ boxes \in [Box -> BoxState]
  /\ stopCalls \in [Run -> Nat]
  /\ crashes \in 0..MaxCrashes

(* A live worker process always has an unsettled row in the ledger, and the  *)
(* task has at most one such row: so never two live workers on one task, and *)
(* the ledger is never ahead of the world, crashes and lost boxes included   *)
(* (task-execution-ledger.ts:663-674, observed-runtime-exit.ts:17-25).       *)
LiveWorkerIsRecorded ==
  /\ alive \subseteq Unsettled
  /\ Cardinality(Unsettled) <= 1

(* Deletion works on a task nobody uses: from its intent on no worker of the *)
(* task lives, no consumer of it streams, and a deleted pod left no box      *)
(* reference behind (deletion-ownership.ts:62-116).                          *)
DeletionIsAlone ==
  /\ OpenIntents # {} => alive = {} /\ \A r \in Run : consumer[r] = "none"
  /\ \A p \in Pod : status[p] = "deleted" =>
       /\ intent[p] = "done" /\ box[p] = None
       /\ \A r \in Run : runs[r].pod = p => r \notin alive /\ runs[r].state \in {"unused", "ended"}

(* A pending stop-and-retain request stays able to settle: nothing moves its *)
(* pod's status, lifecycle or box, or settles its run, in between.           *)
PendingRecoveryHolds == \A r \in PendingStalls : StallPolicy(r)

(* The stop of a stalled worker is issued at most once, across repeated      *)
(* requests and crashes ("will NOT be repeated").                            *)
StopsOnce == \A r \in Run : stopCalls[r] <= 1

(* A run leaves the ledger's open set only when its worker is over: exited,  *)
(* or in a box that is gone or stopped for good; and it never comes back.    *)
SettledOnEvidence ==
  [][\A r \in Run :
       /\ runs[r].state # "ended" /\ runs'[r].state = "ended" => r \notin alive
       /\ runs[r].state = "ended" => runs'[r] = runs[r]]_taskVars

(* The ledger and the deletion receipts implement the readers-writer custody *)
(* of the task.                                                              *)
Custody == INSTANCE TaskCustody WITH
             owner    <- Unsettled,
             deleting <- OpenIntents,
             released <- {r \in Run : runs[r].state = "ended"}

ImplementsCustody == Custody!Spec

(* A run with a consumer does not stay open once its worker is gone: it ends *)
(* or is retained as unverified, unless the daemon crashes.                  *)
ObservedRunSettles ==
  \A r \in Run :
    (runs[r].state = "open" /\ consumer[r] \in {"streaming", "closing"} /\ r \notin alive)
      ~> (runs[r].state \in {"ended", "unverified"} \/ crashes > 0)
=============================================================================
