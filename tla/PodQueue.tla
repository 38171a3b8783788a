------------------------------ MODULE PodQueue ------------------------------
(* The in-memory dispatch queue of the daemon (pods/pod-queue.ts) and the    *)
(* processPod calls it starts.  Every operation is synchronous JavaScript,   *)
(* so each is one step; only the settlement of a processPod promise comes    *)
(* later, as the step Finish.  A call may also hang for ever (Wedge): that   *)
(* is what clearStuckEntry exists for, and here its caller keeps the         *)
(* contract of the comment at pod-queue.ts:11-18 (no processPod is running). *)
(* PodKick replaces that contract by the guard the caller really has.        *)
EXTENDS Integers, Sequences, FiniteSets

CONSTANTS Pod,             \* pod identifiers
          MaxConcurrency,  \* slots (MAX_CONCURRENCY)
          Drainer,         \* callers of drain()
          MaxRequests,     \* bound: enqueue and requeueAfterCurrent calls
          MaxWedges        \* bound: processPod calls that never settle

ASSUME QueueAssumption ==
  /\ IsFiniteSet(Pod)
  /\ MaxConcurrency \in Nat \ {0}
  /\ MaxRequests \in Nat
  /\ MaxWedges \in Nat

VARIABLES queue,             \* pod ids waiting, in order
          activeIds,         \* pod ids the queue believes are being processed
          deferredRequeues,  \* active ids to push again when they are released
          activeCount,       \* slots the queue believes are taken
          drains,            \* state of each drain() promise
          runs,              \* processPod calls in progress, per pod
          stuck,             \* pods whose active entry belongs to a hung call
          requests, wedges   \* used up parts of the bounds

queueVars == <<queue, activeIds, deferredRequeues, activeCount, drains, runs, stuck,
               requests, wedges>>

DrainState == {"none", "waiting", "resolved"}

Waiting(q) == {q[i] : i \in DOMAIN q}

Init ==
  /\ queue = <<>>
  /\ activeIds = {}
  /\ deferredRequeues = {}
  /\ activeCount = 0
  /\ drains = [d \in Drainer |-> "none"]
  /\ runs = [p \in Pod |-> 0]
  /\ stuck = {}
  /\ requests = 0
  /\ wedges = 0
----------------------------------------------------------------------------
(* The queue's bookkeeping as a value, so that operations compose: one      *)
(* handler may call several of them before it yields.                       *)

Now == [queue |-> queue, active |-> activeIds, count |-> activeCount, runs |-> runs]

Become(s) ==
  /\ queue' = s.queue
  /\ activeIds' = s.active
  /\ activeCount' = s.count
  /\ runs' = s.runs

Pushed(s, p) == [s EXCEPT !.queue = Append(s.queue, p)]

\* The first statements of processNext: start the head of the queue if there is room.
ProcessNext(s) ==
  IF s.count >= MaxConcurrency \/ s.queue = <<>> THEN s
  ELSE [queue  |-> Tail(s.queue),
        active |-> s.active \cup {Head(s.queue)},
        count  |-> s.count + 1,
        runs   |-> [s.runs EXCEPT ![Head(s.queue)] = @ + 1]]

\* Mutant: enqueue looks for duplicates among the waiting pods only.
EnqueuedTwice(s, p) == ProcessNext(IF p \notin Waiting(s.queue) THEN Pushed(s, p) ELSE s)

Enqueued(s, p) ==
  ProcessNext(IF p \notin Waiting(s.queue) /\ p \notin s.active THEN Pushed(s, p) ELSE s)

\* The entry is dropped and its slot returned; clamped as in the code.
Cleared(s, p) ==
  [s EXCEPT !.active = @ \ {p}, !.count = IF @ > 0 THEN @ - 1 ELSE 0]

\* Mutant: the finally block forgets the deferred requeue.
ReleasedForgetting(s, p) ==
  [s EXCEPT !.active = @ \ {p}, !.count = @ - 1,
            !.runs = [s.runs EXCEPT ![p] = s.runs[p] - 1]]

\* The slot is returned and a deferred requeue is pushed (the finally block).
Released(s, p) ==
  LET freed == [s EXCEPT !.active = @ \ {p}, !.count = @ - 1,
                         !.runs = [s.runs EXCEPT ![p] = s.runs[p] - 1]]
  IN IF p \in deferredRequeues /\ p \notin Waiting(s.queue) THEN Pushed(freed, p) ELSE freed

\* checkDrain: every pending drain() promise resolves once nothing is left.
CheckDrain(s) ==
  drains' = IF s.count = 0 /\ s.queue = <<>>
            THEN [d \in Drainer |-> IF drains[d] = "waiting" THEN "resolved" ELSE drains[d]]
            ELSE drains
----------------------------------------------------------------------------
CountRequest ==
  /\ requests < MaxRequests
  /\ requests' = requests + 1

Enqueue(p) ==
  /\ CountRequest
  /\ Become(Enqueued(Now, p))
  /\ UNCHANGED <<deferredRequeues, drains, stuck, wedges>>

RequeueAfterCurrent(p) ==
  /\ CountRequest
  /\ IF p \in activeIds
     THEN /\ deferredRequeues' = deferredRequeues \cup {p}
          /\ Become(ProcessNext(Now))
     ELSE /\ Become(ProcessNext(IF p \notin Waiting(queue) THEN Pushed(Now, p) ELSE Now))
          /\ UNCHANGED deferredRequeues
  /\ UNCHANGED <<drains, stuck, wedges>>

\* Mutant: the finally block looks for drained state before it requeues.
FinishDrainFirst(p) ==
  /\ runs[p] > 0
  /\ CheckDrain([Now EXCEPT !.count = @ - 1])
  /\ Become(ProcessNext(Released(Now, p)))
  /\ deferredRequeues' = deferredRequeues \ {p}
  /\ UNCHANGED <<stuck, requests, wedges>>

\* Mutant: the finally block does not pick up the next waiting pod.
FinishWithoutNext(p) ==
  /\ runs[p] > 0
  /\ CheckDrain(Released(Now, p))
  /\ Become(Released(Now, p))
  /\ deferredRequeues' = deferredRequeues \ {p}
  /\ UNCHANGED <<stuck, requests, wedges>>

\* Mutant: the finally block leaves the resolvers of drain() alone.
FinishWithoutDrain(p) ==
  /\ runs[p] > 0
  /\ Become(ProcessNext(Released(Now, p)))
  /\ deferredRequeues' = deferredRequeues \ {p}
  /\ UNCHANGED <<drains, stuck, requests, wedges>>

\* processPod settled (resolved or threw): the finally block of processNext.
Finish(p) ==
  /\ runs[p] > 0
  /\ CheckDrain(Released(Now, p))
  /\ Become(ProcessNext(Released(Now, p)))
  /\ deferredRequeues' = deferredRequeues \ {p}
  /\ UNCHANGED <<stuck, requests, wedges>>

\* A processPod call hangs for ever; its active entry and slot remain.
Wedge(p) ==
  /\ wedges < MaxWedges
  /\ runs[p] > 0
  /\ runs' = [runs EXCEPT ![p] = @ - 1]
  /\ stuck' = stuck \cup {p}
  /\ wedges' = wedges + 1
  /\ UNCHANGED <<queue, activeIds, deferredRequeues, activeCount, drains, requests>>

\* clearStuckEntry, called as its contract says: the entry's call is hung.
ClearStuckEntry(p) ==
  /\ p \in activeIds
  /\ p \in stuck
  /\ CheckDrain(Cleared(Now, p))
  /\ Become(ProcessNext(Cleared(Now, p)))
  /\ stuck' = stuck \ {p}
  /\ UNCHANGED <<deferredRequeues, requests, wedges>>

Drain(d) ==
  /\ drains[d] = "none"
  /\ drains' = [drains EXCEPT ![d] = IF activeCount = 0 /\ queue = <<>> THEN "resolved"
                                     ELSE "waiting"]
  /\ UNCHANGED <<queue, activeIds, deferredRequeues, activeCount, runs, stuck, requests, wedges>>

Next ==
  \/ \E p \in Pod : \/ Enqueue(p)
                    \/ RequeueAfterCurrent(p)
                    \/ Finish(p)
                    \/ Wedge(p)
                    \/ ClearStuckEntry(p)
  \/ \E d \in Drainer : Drain(d)

Spec == Init /\ [][Next]_queueVars

\* A call that is not hung settles eventually; nothing else is promised.
FairSpec == Spec /\ \A p \in Pod : WF_queueVars(Finish(p))
----------------------------------------------------------------------------
(* Type invariant of the queue's variables (pod-queue.ts:30-37).            *)
TypeOK ==
  /\ queue \in Seq(Pod)
  /\ activeIds \subseteq Pod
  /\ deferredRequeues \subseteq Pod
  /\ activeCount \in 0..MaxConcurrency
  /\ drains \in [Drainer -> DrainState]
  /\ runs \in [Pod -> Nat]
  /\ stuck \subseteq Pod
  /\ requests \in 0..MaxRequests
  /\ wedges \in 0..MaxWedges

(* No pod is ever processed by two calls at once, and the queue's two        *)
(* records of what is running - the id set and the slot counter - agree with *)
(* the calls that really hold a slot (pod-queue.ts:31-36, 46-68, 90-98).     *)
SlotsMatchRuns ==
  /\ \A p \in Pod : runs[p] = IF p \in activeIds \ stuck THEN 1 ELSE 0
  /\ stuck \subseteq activeIds
  /\ activeCount = Cardinality(activeIds)

(* drain() resolves only when no pod waits and no call that can still settle *)
(* is in progress, a deferred requeue included ("wait for all in-flight to   *)
(* complete", pod-queue.ts:22).                                              *)
DrainWaits ==
  [][\A d \in Drainer :
       drains[d] # "resolved" /\ drains'[d] = "resolved"
       => queue' = <<>> /\ \A p \in Pod : runs'[p] = 0]_queueVars

(* The queue implements the dispatcher it promises to be: one slot per pod,  *)
(* no idle slot while a pod waits, no request lost (pod-queue.ts:46-98).     *)
Dispatch == INSTANCE PodDispatch WITH
              Capacity <- MaxConcurrency,
              waiting  <- Waiting(queue),
              running  <- activeIds,
              owed     <- deferredRequeues

ImplementsDispatch == Dispatch!Spec

(* Every waiting pod is eventually processed, however requests for other     *)
(* pods keep arriving, as long as hung calls leave a slot free.              *)
WaiterRuns == \A p \in Pod : (p \in Waiting(queue)) ~> (runs[p] > 0)

(* A rerun asked for while the pod was running does take place once the      *)
(* current call settles, unless that call hangs.                             *)
DeferredRuns ==
  \A p \in Pod :
    (p \in deferredRequeues /\ runs[p] > 0)
      ~> ((p \notin deferredRequeues /\ (p \in Waiting(queue) \/ runs[p] > 0)) \/ p \in stuck)

(* A pending drain() resolves once requests stop, unless a call hangs: the   *)
(* shutdown sequence awaits it (index.ts:1423).                              *)
DrainCompletes ==
  \A d \in Drainer : (drains[d] = "waiting") ~> (drains[d] = "resolved" \/ stuck # {})
=============================================================================
