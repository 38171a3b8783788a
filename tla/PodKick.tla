------------------------------ MODULE PodKick ------------------------------
(* The queue together with the pod status that processPod and the operator's *)
(* kick read.  Before a pod leaves "queued" its processPod awaits: retry     *)
(* cooldowns, worktree creation, startup integrations                        *)
(* (provisioning-workspace.ts:78-529).  kickPod takes a "queued" pod for one *)
(* whose processPod is gone (workspace-escape-controls.ts:84-96).            *)
EXTENDS PodQueue

VARIABLES status,   \* the part of the pod's status that matters here
          working   \* processPod calls past the queued -> provisioning step

kickVars == <<queueVars, status, working>>

Status == {"queued", "provisioned", "parked"}

KickInit ==
  /\ Init
  /\ status = [p \in Pod |-> "parked"]
  /\ working = [p \in Pod |-> 0]

\* Calls that have not reached the provisioning step.
Preparing(p) == runs[p] - working[p]

\* A creation, rework or resume puts the pod in "queued" and enqueues it.
Submit(p) ==
  /\ status[p] = "parked"
  /\ Enqueue(p)
  /\ status' = [status EXCEPT ![p] = "queued"]
  /\ UNCHANGED working

\* transition(pod, 'provisioning')
Provision(p) ==
  /\ Preparing(p) > 0
  /\ status[p] = "queued"
  /\ status' = [status EXCEPT ![p] = "provisioned"]
  /\ working' = [working EXCEPT ![p] = @ + 1]
  /\ UNCHANGED queueVars

\* The call that owns the pod ends it in validation, input wait, failure...
SettleWorking(p) ==
  /\ working[p] > 0
  /\ Finish(p)
  /\ working' = [working EXCEPT ![p] = @ - 1]
  /\ status' = [status EXCEPT ![p] = "parked"]

\* A call still preparing ends: it was superseded, halted or left the pod queued
\* for a fetch retry (status kept), or its error is handled as the failure of
\* the pod, whoever is working on the pod now.
SettlePreparing(p) ==
  /\ Preparing(p) > 0
  /\ Finish(p)
  /\ status' = status \/ status' = [status EXCEPT ![p] = "parked"]
  /\ UNCHANGED working

\* kickPod on a queued pod: clear the active entry if there is one, enqueue again.
Kick(p) ==
  LET cleared == IF p \in activeIds THEN ProcessNext(Cleared(Now, p)) ELSE Now
  IN /\ status[p] = "queued"
     /\ CountRequest
     /\ IF p \in activeIds THEN CheckDrain(Cleared(Now, p)) ELSE UNCHANGED drains
     /\ Become(Enqueued(cleared, p))
     /\ stuck' = stuck \ {p}
     /\ UNCHANGED <<deferredRequeues, wedges, status, working>>

KickNext ==
  \/ \E p \in Pod : \/ Submit(p)
                    \/ Provision(p)
                    \/ SettleWorking(p)
                    \/ SettlePreparing(p)
                    \/ Kick(p)
  \/ \E d \in Drainer : Drain(d) /\ UNCHANGED <<status, working>>

KickSpec == KickInit /\ [][KickNext]_kickVars
----------------------------------------------------------------------------
(* "Track pod IDs that are actively being processed. Combined with the       *)
(* waiting-queue dedup, this prevents a concurrent second processPod() run   *)
(* from racing the first" (pod-queue.ts:31-33).                              *)
OneProcessPodPerPod == \A p \in Pod : runs[p] <= 1
=============================================================================
