---------------------------- MODULE PodLifecycle ----------------------------
(* One pod and the calls of a live daemon that move it: its processPod, two  *)
(* kills, a forced rework, a rejection, a kick and the wake reconciliation.  *)
(* Every call reads the pod, awaits teardown or startup, and then writes the *)
(* status; what stops it from writing over a newer owner is the lifecycle    *)
(* generation, the recorded container, the status table - or nothing.        *)
(* "running" covers validating, "validated" covers review_required: the      *)
(* calls modelled here treat the members of each pair alike.                 *)
EXTENDS Naturals

CONSTANTS Killer,        \* kill requests that may be in flight
          Faults,        \* TRUE when container and network operations may fail
          MaxGen,        \* bound on the lifecycle generations
          MaxContainers  \* bound on the containers spawned

ASSUME LifecycleAssumption ==
  /\ Faults \in BOOLEAN
  /\ MaxGen \in Nat /\ MaxContainers \in Nat

VARIABLES local,       \* the execution target of the pod: 'local', or 'sandbox'
          status, gen,
          container,   \* recorded container, 0 when none
          worktree,    \* a worktree path is recorded
          made,        \* containers spawned so far
          queue,       \* "none", "waiting" or "active": the pod in the queue
          proc,        \* the processPod call of the active entry
          kill,        \* the kill calls
          rework, reject, kick, wake

podVars == <<status, gen, container, worktree>>
vars == <<local, podVars, made, queue, proc, kill, rework, reject, kick, wake>>

Status == {"queued", "provisioning", "running", "validated", "failed",
           "killing", "killed"}

\* The rows of VALID_STATUS_TRANSITIONS the calls below depend on.
Killable   == {"queued", "provisioning", "running", "validated", "failed"}
Failable   == {"queued", "provisioning", "running"}
Reworkable == {"validated", "failed", "killed"}

\* A call in flight: where it stands and what it captured.
Call(pc, g, c, w) == [pc |-> pc, gen |-> g, container |-> c, worktree |-> w]
Captured(pc) == Call(pc, gen, container, worktree)
Idle == Call("idle", 0, 0, FALSE)

OwnsLifecycle(call) == call.gen = gen /\ call.container = container

Enqueue == queue' = IF queue = "none" THEN "waiting" ELSE queue

Init ==
  /\ local \in BOOLEAN
  /\ status = "queued" /\ gen = 0 /\ container = 0 /\ worktree = FALSE
  /\ made = 0 /\ queue = "waiting"
  /\ proc = Idle /\ kill = [k \in Killer |-> Idle]
  /\ rework = Idle /\ reject = Idle /\ kick = Idle /\ wake = Idle

controlVars == <<kill, rework, reject, kick, wake>>
----------------------------------------------------------------------------
\* processPod

\* The entry guard ends the call of a pod that is not queued any more.
Start ==
  /\ queue = "waiting"
  /\ IF status = "queued"
     THEN queue' = "active" /\ proc' = Call("preparing", gen, 0, FALSE)
     ELSE queue' = "none" /\ proc' = Idle
  /\ UNCHANGED <<podVars, made, controlVars>>

\* The queue releases the entry; these calls leave no deferred requeue.
Return == proc' = Idle /\ queue' = "none"

StartupCurrent == proc.gen = gen /\ status = "queued"

Superseded ==
  /\ proc.pc = "preparing"
  /\ ~StartupCurrent
  /\ Return
  /\ UNCHANGED <<podVars, made, controlVars>>

Provision ==
  /\ proc.pc = "preparing"
  /\ StartupCurrent
  /\ status' = "provisioning"
  /\ proc' = [proc EXCEPT !.pc = "provisioning"]
  /\ UNCHANGED <<gen, container, worktree, made, queue, controlVars>>

\* The container is known to the call alone until the pod runs.
Spawn ==
  /\ proc.pc = "provisioning" /\ proc.container = 0
  /\ made < MaxContainers
  /\ made' = made + 1
  /\ proc' = [proc EXCEPT !.container = made + 1]
  /\ UNCHANGED <<podVars, queue, controlVars>>

\* transition(pod, 'running', ...) asks the table about the status this call
\* wrote itself, not about the pod's.
Run ==
  /\ proc.pc = "provisioning" /\ proc.container # 0
  /\ status' = "running" /\ container' = proc.container /\ worktree' = TRUE
  /\ proc' = [proc EXCEPT !.pc = "working"]
  /\ UNCHANGED <<gen, made, queue, controlVars>>

\* The status a worker's end leaves the pod in: handleCompletion returns early
\* unless the pod runs.
SettleRun(call) ==
  IF OwnsLifecycle(call) /\ status = "running"
  THEN status' \in {"validated", "failed"} ELSE UNCHANGED status

Finish ==
  /\ proc.pc = "working"
  /\ reject.pc # "working"
  /\ SettleRun(proc)
  /\ Return
  /\ UNCHANGED <<gen, container, worktree, made, controlVars>>

\* Mutant: the catch does not ask whose lifecycle the pod is in.
FailAnyway(call) ==
  status' = IF status \in Failable THEN "failed"
            ELSE IF status \in Killable THEN "killed"
            ELSE status

\* The catch of processPod: a call of an older generation is discarded, any
\* other fails the pod, or kills it where the table knows no way to 'failed'.
FailOwned(call) ==
  status' = IF call.gen # gen THEN status
            ELSE IF status \in Failable THEN "failed"
            ELSE IF status \in Killable THEN "killed"
            ELSE status

Error ==
  /\ \/ Faults /\ proc.pc \in {"preparing", "provisioning"}
     \/ Faults /\ proc.pc = "working" /\ OwnsLifecycle(proc)
     \/ proc.pc = "working" /\ reject.pc = "working"   \* beginRun refuses
  /\ FailOwned(proc)
  /\ Return
  /\ UNCHANGED <<gen, container, worktree, made, controlVars>>

ProcNext == Start \/ Superseded \/ Provision \/ Spawn \/ Run \/ Finish \/ Error
----------------------------------------------------------------------------
\* killSession

others == <<made, proc, queue>>

KillAsk(k) ==
  /\ kill[k].pc = "idle"
  /\ status \in Killable
  /\ kill' = [kill EXCEPT ![k] = Captured("asked")]
  /\ UNCHANGED <<podVars, others, rework, reject, kick, wake>>

\* assertDestructionAllowed
KillCurrent(k) == OwnsLifecycle(kill[k]) /\ kill[k].worktree = worktree

\* After the preview proxy's stop, from the pod read before it.
KillBegin(k) ==
  /\ kill[k].pc = "asked"
  /\ IF KillCurrent(k)
     THEN status' = "killing" /\ kill' = [kill EXCEPT ![k].pc = "cleaning"]
     ELSE UNCHANGED status /\ kill' = [kill EXCEPT ![k] = Idle]
  /\ UNCHANGED <<gen, container, worktree, others, rework, reject, kick, wake>>

\* STALE_KILL, or the silent return of a kill whose generation is gone.
KillStale(k) ==
  /\ kill[k].pc \in {"cleaning", "removing"}
  /\ ~KillCurrent(k)
  /\ kill' = [kill EXCEPT ![k] = Idle]
  /\ UNCHANGED <<podVars, others, rework, reject, kick, wake>>

KillContainer(k) ==
  /\ kill[k].pc = "cleaning"
  /\ KillCurrent(k)
  /\ \/ container' = 0 /\ kill' = [kill EXCEPT ![k].container = 0, ![k].pc = "removing"]
     \/ /\ Faults
        /\ UNCHANGED container /\ kill' = [kill EXCEPT ![k].pc = "removing"]
  /\ UNCHANGED <<status, gen, worktree, others, rework, reject, kick, wake>>

KillWorktree(k) ==
  /\ kill[k].pc = "removing"
  /\ KillCurrent(k)
  /\ worktree' = FALSE
  /\ kill' = [kill EXCEPT ![k].worktree = FALSE, ![k].pc = "removed"]
  /\ UNCHANGED <<status, gen, container, others, rework, reject, kick, wake>>

\* Mutant: the end of a kill does not ask whose generation it kills.
KillEndAny(k) ==
  /\ \/ kill[k].pc = "removed"
     \/ Faults /\ kill[k].pc \in {"cleaning", "removing"}
  /\ IF status = "killing" THEN status' = "killed" ELSE UNCHANGED status
  /\ kill' = [kill EXCEPT ![k] = Idle]
  /\ UNCHANGED <<gen, container, worktree, others, rework, reject, kick, wake>>

\* The cleanup is over, or its 30 seconds are.
KillEnd(k) ==
  /\ \/ kill[k].pc = "removed"
     \/ Faults /\ kill[k].pc \in {"cleaning", "removing"}
  /\ IF kill[k].gen = gen /\ status = "killing"
     THEN status' = "killed" ELSE UNCHANGED status
  /\ kill' = [kill EXCEPT ![k] = Idle]
  /\ UNCHANGED <<gen, container, worktree, others, rework, reject, kick, wake>>

KillNext(k) == \/ KillAsk(k) \/ KillBegin(k) \/ KillStale(k) \/ KillContainer(k)
               \/ KillWorktree(k) \/ KillEnd(k)
----------------------------------------------------------------------------
\* Forced rework; the route keeps one in flight (reworkRuns).

ReworkBegin ==
  /\ rework.pc = "idle"
  /\ status \in Reworkable
  /\ worktree \/ container = 0
  /\ gen < MaxGen
  /\ gen' = gen + 1
  /\ rework' = Call("tearing", gen + 1, container, worktree)
  /\ UNCHANGED <<status, container, worktree, others, kill, reject, kick, wake>>

\* A sandbox whose workspace cannot be preserved is not reworked.
ReworkBlocked ==
  /\ rework.pc = "tearing" /\ Faults /\ ~local
  /\ rework' = Idle
  /\ UNCHANGED <<podVars, others, kill, reject, kick, wake>>

\* After the teardown: the record is cleared first, then the status moves if the
\* table lets it.  The worktree of a pod that failed in setup is dropped.
ReworkQueue ==
  /\ rework.pc = "tearing"
  /\ container' = 0
  /\ worktree' \in {rework.worktree, FALSE}
  /\ IF status \in Reworkable THEN status' = "queued" /\ Enqueue
                              ELSE UNCHANGED <<status, queue>>
  /\ rework' = Idle
  /\ UNCHANGED <<gen, made, proc, kill, reject, kick, wake>>

ReworkNext == ReworkBegin \/ ReworkBlocked \/ ReworkQueue
----------------------------------------------------------------------------
\* rejectSession

\* A worker run of the pod is recorded as open.
ActiveRun == proc.pc = "working" \/ reject.pc = "working"

\* A pod without a container is failed before the first await.
RejectBegin ==
  /\ reject.pc = "idle"
  /\ status \in {"validated", "failed"}
  /\ ~ActiveRun
  /\ IF container = 0
     THEN status' = "failed" /\ UNCHANGED reject
     ELSE status' = "running" /\ reject' = Captured("preparing")
  /\ UNCHANGED <<gen, container, worktree, others, kill, rework, kick, wake>>

RejectCurrent == OwnsLifecycle(reject) /\ reject.worktree = worktree /\ status = "running"

\* The rollback asks for the pod's status only, not whose it is.
Rollback ==
  /\ status' = IF status \in Failable THEN "failed" ELSE status
  /\ reject' = Idle

\* prepareRetainedAgentContinuation checks after every await; only its last
\* answer, a container that does not run, is an error of a current call.
RejectPrepare ==
  /\ reject.pc = "preparing"
  /\ \/ ~RejectCurrent /\ UNCHANGED status /\ reject' = Idle
     \/ RejectCurrent /\ UNCHANGED status /\ reject' = [reject EXCEPT !.pc = "prepared"]
     \/ RejectCurrent /\ Faults /\ Rollback
  /\ UNCHANGED <<gen, container, worktree, others, kill, rework, kick, wake>>

\* refreshNetworkPolicy, called for local pods, throws in every daemon that has
\* launch configurations; any other step may fail; beginRun refuses a second run.
RejectFail ==
  /\ reject.pc = "prepared"
  /\ local \/ Faults \/ proc.pc = "working"
  /\ Rollback
  /\ UNCHANGED <<gen, container, worktree, others, kill, rework, kick, wake>>

\* Mutant: a second open run of the pod is admitted.
RejectResumeBeside ==
  /\ reject.pc = "prepared"
  /\ ~local
  /\ reject' = Captured("working")
  /\ UNCHANGED <<podVars, others, kill, rework, kick, wake>>

\* consumeAgentEvents is called without a lifecycle and takes the pod's own.
RejectResume ==
  /\ reject.pc = "prepared"
  /\ ~local /\ proc.pc # "working"
  /\ reject' = Captured("working")
  /\ UNCHANGED <<podVars, others, kill, rework, kick, wake>>

RejectFinish ==
  /\ reject.pc = "working"
  /\ \/ SettleRun(reject) /\ reject' = Idle
     \/ Faults /\ OwnsLifecycle(reject) /\ Rollback
  /\ UNCHANGED <<gen, container, worktree, others, kill, rework, kick, wake>>

RejectNext == RejectBegin \/ RejectPrepare \/ RejectFail \/ RejectResume \/ RejectFinish
----------------------------------------------------------------------------
\* kickPod of a pod that is not queued (PodKick has the other half)

KickBegin ==
  /\ kick.pc = "idle"
  /\ status \in {"provisioning", "running"}
  /\ kick' = Captured("stopping")
  /\ UNCHANGED <<podVars, others, kill, rework, reject, wake>>

KickEnd ==
  /\ kick.pc = "stopping"
  /\ status' = "failed"
  /\ kick' = Idle
  /\ UNCHANGED <<gen, container, worktree, others, kill, rework, reject, wake>>
----------------------------------------------------------------------------
\* reconcileLocalSessions with trigger 'wake'

\* A pod with an open run is retained; one without a worktree is killed.
WakeBegin ==
  /\ local /\ wake.pc = "idle"
  /\ status \in {"provisioning", "running"}
  /\ ~ActiveRun
  /\ IF worktree THEN wake' = Captured("tearing") /\ UNCHANGED status
                 ELSE status' = "killed" /\ UNCHANGED wake
  /\ UNCHANGED <<gen, container, worktree, others, kill, rework, reject, kick>>

WakeOther ==
  /\ local /\ wake.pc = "idle"
  /\ ~ActiveRun
  /\ \/ status = "killing" /\ status' = "killed" /\ UNCHANGED queue
     \/ status = "queued" /\ Enqueue /\ UNCHANGED status
  /\ UNCHANGED <<gen, container, worktree, made, proc, controlVars>>

\* recoverSession after the container's and the network's teardown
WakeRequeue ==
  /\ wake.pc = "tearing"
  /\ \/ /\ status' = "queued" /\ container' = 0 /\ Enqueue
     \/ /\ Faults
        /\ status' = "failed" /\ UNCHANGED <<container, queue>>
  /\ wake' = Idle
  /\ UNCHANGED <<gen, worktree, made, proc, kill, rework, reject, kick>>

WakeNext == WakeBegin \/ WakeOther \/ WakeRequeue
----------------------------------------------------------------------------
Next ==
  /\ UNCHANGED local
  /\ \/ ProcNext \/ ReworkNext \/ RejectNext \/ KickBegin \/ KickEnd \/ WakeNext
     \/ \E k \in Killer : KillNext(k)

Spec == Init /\ [][Next]_vars
----------------------------------------------------------------------------
CallSet(pcs) == [pc : pcs, gen : 0..MaxGen, container : 0..MaxContainers,
                 worktree : BOOLEAN]

\* A pod has a known status and every call in flight captured values it had.
TypeOK ==
  /\ local \in BOOLEAN /\ status \in Status
  /\ gen \in 0..MaxGen /\ container \in 0..made /\ made \in 0..MaxContainers
  /\ worktree \in BOOLEAN
  /\ queue \in {"none", "waiting", "active"}
  /\ (queue = "active") <=> (proc.pc # "idle")
  /\ proc \in CallSet({"idle", "preparing", "provisioning", "working"})
  /\ kill \in [Killer -> CallSet({"idle", "asked", "cleaning", "removing", "removed"})]
  /\ rework \in CallSet({"idle", "tearing"})
  /\ reject \in CallSet({"idle", "preparing", "prepared", "working"})
  /\ kick \in CallSet({"idle", "stopping"})
  /\ wake \in CallSet({"idle", "tearing"})

\* Two consumers never both own the pod's lifecycle (agent-event-consumption.ts:
\* 85-104 and the run ledger's refusal of a second open run), whatever controls
\* raced to start them.
OneOwningWorker ==
  ~ /\ proc.pc = "working" /\ OwnsLifecycle(proc)
    /\ reject.pc = "working" /\ OwnsLifecycle(reject)

\* A processPod that ends after a rework opened a newer generation moves the pod
\* nowhere: neither its completion nor its error is the new lifecycle's.
SupersededCallSettlesNothing ==
  [][proc.pc # "idle" /\ proc'.pc = "idle" /\ proc.gen # gen
       => UNCHANGED podVars]_vars

\* A kill that outlives its generation, or whose pod was already declared killed,
\* reworked and is being killed by another request, does not declare it killed.
KillEndsItsOwn ==
  [][\A k \in Killer : kill[k].pc # "idle" /\ kill'[k].pc = "idle" /\ kill[k].gen # gen
       => UNCHANGED podVars]_vars
=============================================================================
