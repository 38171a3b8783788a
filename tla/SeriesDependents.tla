------------------------- MODULE SeriesDependents --------------------------
(* Pods that wait for other pods (pods/admission-dependents.ts): admission,    *)
(* the trigger every delivered pod pulls, and the rehydration at startup.  A   *)
(* pod waits as a row in 'queued'; the queue it is enqueued to is in memory.   *)
(* The statuses between 'validated' and 'complete' satisfy the same waits, so  *)
(* they are folded into 'validated'; 'failed' stands for every status a human  *)
(* gets a pod out of.                                                          *)
EXTENDS Naturals, FiniteSets

CONSTANTS Pod,
          Parents,          \* dependsOnPodIds, a set for each pod
          Shared,           \* pods of a single-PR series or on a parent's branch
          WaitForMerge,     \* pods of a stacked series
          Composed,         \* pods admitted with a launch configuration
          Quiet,            \* pods with ways to 'validated' or 'complete' that pull no trigger
          MaxRounds         \* bound: reworks and rejections of a pod

SeriesAssumption ==
  /\ Parents \in [Pod -> SUBSET Pod]
  /\ Shared \subseteq Pod /\ WaitForMerge \subseteq Pod \ Shared
  /\ Composed \subseteq Pod /\ Quiet \subseteq Pod
  /\ MaxRounds \in Nat \ {0}

VARIABLES status,     \* pods: "absent" before admission and after deletion
          queue,      \* the pods enqueued in this daemon
          trigger,    \* the pods whose transition has still to pull its trigger
          rounds,
          reached,    \* ghost: the statuses of delivery a pod has reached
          started     \* ghost: the pods that ran

podVars == <<status, queue, trigger, rounds>>
seriesVars == <<podVars, reached, started>>

Delivered == {"validated", "complete"}

Init ==
  /\ status = [p \in Pod |-> "absent"]
  /\ queue = {} /\ trigger = {}
  /\ rounds = [p \in Pod |-> 0]
  /\ reached = [p \in Pod |-> {}] /\ started = {}

Ran(p) == p \in started
----------------------------------------------------------------------------
(* Which waits are over.                                                      *)

\* The statuses of a parent that end the wait of a dependent.
Needed(d) == IF d \in Shared \cup WaitForMerge THEN {"complete"} ELSE Delivered

\* The same at startup, where waitForMerge is not asked.
NeededAtStartup(d) == IF d \in Shared THEN {"complete"} ELSE Delivered

Ready(d, needed) == Parents[d] # {} /\ \A p \in Parents[d] : status[p] \in needed

\* Mutant: a dependent is triggered by any of its parents.
TriggeredByAny(p) ==
  {d \in Pod : p \in Parents[d] /\ status[d] = "queued" /\ status[p] \in Needed(d)}

\* maybeTriggerDependents
Triggered(p) ==
  {d \in Pod : p \in Parents[d] /\ status[d] = "queued" /\ Ready(d, Needed(d))}
----------------------------------------------------------------------------
(* The life of a pod.                                                         *)

\* Admission of a pod whose parents exist.  A pod without parents is enqueued; a
\* composed one with parents pulls the trigger of its first parent.
Admit(p) ==
  /\ status[p] = "absent" /\ ~Ran(p) /\ rounds[p] = 0
  /\ \A q \in Parents[p] : status[q] # "absent"
  /\ status' = [status EXCEPT ![p] = "queued"]
  /\ rounds' = [rounds EXCEPT ![p] = 1]
  /\ queue' = IF Parents[p] = {} THEN queue \cup {p} ELSE queue
  /\ IF Parents[p] = {} \/ p \notin Composed THEN UNCHANGED trigger
     ELSE trigger' = trigger \cup {CHOOSE q \in Parents[p] : TRUE}
  /\ UNCHANGED <<reached, started>>

\* processPod takes the pod from the queue.
Begin(p) ==
  /\ p \in queue
  /\ queue' = queue \ {p}
  /\ IF status[p] = "queued"
     THEN /\ status' = [status EXCEPT ![p] = "running"]
          /\ started' = started \cup {p}
     ELSE UNCHANGED <<status, started>>
  /\ UNCHANGED <<trigger, rounds, reached>>

Reach(p, s) ==
  /\ status' = [status EXCEPT ![p] = s]
  /\ reached' = [reached EXCEPT ![p] = @ \cup {s}]

\* Validation passes, is skipped or is off; an approval or a merge completes.
Deliver(p, s) ==
  /\ \/ s = "validated" /\ status[p] = "running"
     \/ s = "complete" /\ status[p] \in {"running", "validated"}
  /\ Reach(p, s)
  /\ trigger' = trigger \cup {p}
  /\ UNCHANGED <<queue, rounds, started>>

\* A validation whose delivery is held, an instant override, a resumed pull
\* request, a workspace or an artifact pod that finishes: nothing is triggered.
DeliverQuietly(p, s) ==
  /\ p \in Quiet
  /\ \/ s = "validated" /\ status[p] \in {"running", "failed"}
     \/ s = "complete" /\ status[p] = "running"
  /\ Reach(p, s)
  /\ UNCHANGED <<queue, trigger, rounds, started>>

Fail(p) ==
  /\ status[p] = "running"
  /\ status' = [status EXCEPT ![p] = "failed"]
  /\ UNCHANGED <<queue, trigger, rounds, reached, started>>

\* A rejection continues the worker; a rework enqueues the pod again.
Again(p) ==
  /\ status[p] \in {"validated", "failed"} /\ rounds[p] < MaxRounds
  /\ rounds' = [rounds EXCEPT ![p] = @ + 1]
  /\ \/ status' = [status EXCEPT ![p] = "running"] /\ UNCHANGED queue
     \/ status' = [status EXCEPT ![p] = "queued"] /\ queue' = queue \cup {p}
  /\ UNCHANGED <<trigger, reached, started>>

Delete(p) ==
  /\ status[p] \in {"complete", "failed"}
  /\ status' = [status EXCEPT ![p] = "absent"]
  /\ UNCHANGED <<queue, trigger, rounds, reached, started>>

\* The rest of a transition: the trigger follows in the same turn of the loop.
Trigger(p) ==
  /\ p \in trigger
  /\ queue' = queue \cup Triggered(p)
  /\ trigger' = trigger \ {p}
  /\ UNCHANGED <<status, rounds, reached, started>>

\* Mutant: the reconciler leaves queued dependents and nothing rehydrates them.
RehydratedNever == {}

\* rehydrateDependentSessions
Rehydrated == {d \in Pod : status[d] = "queued" /\ Ready(d, NeededAtStartup(d))}

\* The daemon ends and starts again: queued pods without parents are enqueued by
\* the reconciler, the others by the rehydration.  Running pods are recovered.
Restart ==
  /\ queue' = {p \in Pod : status[p] = "queued" /\ Parents[p] = {}} \cup Rehydrated
  /\ trigger' = {}
  /\ UNCHANGED <<status, rounds, reached, started>>

Next ==
  \/ \E p \in Pod : Trigger(p)
  \/ trigger = {} /\ \E p \in Pod :
       \/ Admit(p) \/ Begin(p) \/ Fail(p) \/ Again(p) \/ Delete(p)
       \/ \E s \in Delivered : Deliver(p, s) \/ DeliverQuietly(p, s)
  \/ Restart

Spec == Init /\ [][Next]_seriesVars

\* The queue gets to every pod; a transition is followed by its trigger.
Fairness ==
  \A p \in Pod : WF_seriesVars(Trigger(p)) /\ WF_seriesVars(trigger = {} /\ Begin(p))

FairSpec == Spec /\ Fairness
----------------------------------------------------------------------------
(* Properties.                                                                *)

\* Types; and the queue holds rows that wait, never a pod that is already at work
\* when its parent is delivered a second time.
TypeOK ==
  /\ status \in [Pod -> {"absent", "queued", "running", "validated", "complete", "failed"}]
  /\ queue \subseteq Pod /\ trigger \subseteq Pod /\ started \subseteq Pod
  /\ rounds \in [Pod -> 0..MaxRounds]
  /\ reached \in [Pod -> SUBSET Delivered]
  /\ \A p \in queue : status[p] = "queued"

\* No dependent runs before all its parents were delivered, and one that shares its
\* parents' branch not before they completed and gave up the worktree of the branch:
\* however admissions, triggers, reworks, deletions and restarts follow each other.
StartsAfterParents ==
  \A d \in started : \A p \in Parents[d] :
    IF d \in Shared THEN "complete" \in reached[p] ELSE reached[p] # {}

\* A dependent whose parents are all delivered runs, or one of them is taken back:
\* also when the daemon ends between a parent's transition and its trigger.
DependentRuns ==
  \A d \in Pod :
    (status[d] = "queued" /\ Ready(d, Needed(d)))
      ~> (d \in started \/ ~Ready(d, Needed(d)))
=============================================================================
