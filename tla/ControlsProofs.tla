--------------------------- MODULE ControlsProofs ---------------------------
(* Proofs about what operators do to a pod and what they say to its worker, for *)
(* any number of kills, generations and containers, of a local or a sandbox    *)
(* pod, and for any number of questions, messages, runs and restarts.           *)
EXTENDS MCPodControls, Sequences, FiniteSetTheorems, TLAPS

----------------------------------------------------------------------------
(* The calls that race for a pod.                                             *)

\* No consumer captured a generation that is still to come.
CapturedBefore == proc.gen <= gen /\ reject.gen <= gen

\* A container that is spawned but not yet recorded is known to its processPod alone.
SpawnedIsPrivate ==
  /\ reject.container <= made
  /\ proc.pc = "preparing" => proc.container = 0
  /\ proc.pc = "provisioning" /\ proc.container # 0 =>
       proc.container = made /\ container < made /\ reject.container < made
  /\ proc.pc = "working" => proc.container # 0

\* The inductive invariant: OneOwningWorker needs to know that no rejection can have
\* captured the container a starting processPod is about to record.
WorkerInv == TypeOK /\ CapturedBefore /\ SpawnedIsPrivate /\ OneOwningWorker
----------------------------------------------------------------------------
(* Types.                                                                    *)

\* A call that captures what the pod has is a call of the type of its pc.
LEMMA CapturedType ==
  ASSUME TypeOK, NEW S, NEW pc \in S
  PROVE  /\ Captured(pc) \in CallSet(S)
         /\ Captured(pc).pc = pc /\ Captured(pc).gen = gen /\ Captured(pc).container = container
<1>1. gen \in 0..MaxGen /\ container \in 0..MaxContainers /\ worktree \in BOOLEAN
  BY LifecycleAssumption DEF TypeOK
<1> QED BY <1>1 DEF Captured, Call, CallSet

\* Idle is a call of every type that has its pc, with nothing captured.
LEMMA IdleType ==
  ASSUME NEW S, "idle" \in S
  PROVE  Idle \in CallSet(S) /\ Idle.pc = "idle" /\ Idle.gen = 0 /\ Idle.container = 0
BY LifecycleAssumption DEF Idle, Call, CallSet

\* A call whose container was removed has moved on.
LEMMA EmptiedType ==
  ASSUME NEW S, NEW c \in CallSet(S), NEW pc \in S, NEW n \in 0..MaxContainers
  PROVE  [c EXCEPT !.container = n, !.pc = pc] \in CallSet(S)
BY DEF CallSet

\* Nothing runs at first.
LEMMA InitWorker == Init => WorkerInv
<1>1. Idle \in CallSet({"idle", "preparing", "provisioning", "working"})
  BY IdleType
<1>2. Idle \in CallSet({"idle", "asked", "cleaning", "removing", "removed"})
  BY IdleType
<1>3. Idle \in CallSet({"idle", "tearing"}) /\ Idle \in CallSet({"idle", "stopping"})
      /\ Idle \in CallSet({"idle", "preparing", "prepared", "working"})
  BY IdleType
<1>4. Idle.pc = "idle" /\ Idle.gen = 0 /\ Idle.container = 0
  BY IdleType
<1>5. Init => TypeOK
  <2>1. ASSUME Init PROVE kill \in [Killer -> CallSet({"idle", "asked", "cleaning", "removing", "removed"})]
    BY <1>2, <2>1 DEF Init
  <2>2. ASSUME Init PROVE gen \in 0..MaxGen /\ container \in 0..made /\ made \in 0..MaxContainers
    BY <2>2, LifecycleAssumption DEF Init
  <2>3. ASSUME Init PROVE ((queue = "active") <=> (proc.pc # "idle"))
    BY <1>4, <2>3 DEF Init
  <2> QED BY <1>1, <1>3, <2>1, <2>2, <2>3 DEF Init, TypeOK, Status
<1>6. Init => CapturedBefore /\ SpawnedIsPrivate /\ OneOwningWorker
  BY <1>4 DEF Init, CapturedBefore, SpawnedIsPrivate, OneOwningWorker
<1> QED BY <1>5, <1>6 DEF WorkerInv

\* processPod
LEMMA ProcWorker == ASSUME WorkerInv, UNCHANGED local, ProcNext PROVE WorkerInv'
<1> USE LifecycleAssumption DEF WorkerInv, controlVars, podVars
<1>0. Idle \in CallSet({"idle", "preparing", "provisioning", "working"})
      /\ Idle.pc = "idle" /\ Idle.gen = 0 /\ Idle.container = 0
  BY IdleType
<1>1. CASE Start
  <2>3. CASE status = "queued"
    <3>1. proc' = Call("preparing", gen, 0, FALSE) /\ queue' = "active"
      BY <1>1, <2>3 DEF Start
    <3>2. /\ proc' \in CallSet({"idle", "preparing", "provisioning", "working"})
          /\ proc'.pc = "preparing" /\ proc'.gen = gen /\ proc'.container = 0
      BY <3>1 DEF Call, CallSet, TypeOK
    <3>3. UNCHANGED <<status, gen, container, worktree, made, kill, rework, reject, kick, wake>>
      BY <1>1 DEF Start
    <3>4. TypeOK'
      BY <3>1, <3>2, <3>3 DEF TypeOK
    <3>5. CapturedBefore' /\ SpawnedIsPrivate' /\ OneOwningWorker'
      BY <3>2, <3>3 DEF TypeOK, CapturedBefore, SpawnedIsPrivate, OneOwningWorker
    <3> QED BY <3>4, <3>5
  <2>4. CASE status # "queued"
    BY <1>0, <1>1, <2>4 DEF Start, TypeOK, CapturedBefore, SpawnedIsPrivate, OneOwningWorker, OwnsLifecycle
  <2> QED BY <2>3, <2>4
<1>2. CASE Superseded
  BY <1>0, <1>2 DEF Superseded, Return, TypeOK, CapturedBefore, SpawnedIsPrivate, OneOwningWorker,
    OwnsLifecycle
<1>3. CASE Provision
  BY <1>3 DEF Provision, TypeOK, CapturedBefore, SpawnedIsPrivate, OneOwningWorker, OwnsLifecycle,
    CallSet, Status
<1>4. CASE Spawn
  BY <1>4 DEF Spawn, TypeOK, CapturedBefore, SpawnedIsPrivate, OneOwningWorker, OwnsLifecycle, CallSet
<1>5. CASE Run
  BY <1>5 DEF Run, TypeOK, CapturedBefore, SpawnedIsPrivate, OneOwningWorker, OwnsLifecycle, CallSet, Status
<1>6. CASE Finish
  BY <1>0, <1>6 DEF Finish, SettleRun, Return, TypeOK, CapturedBefore, SpawnedIsPrivate,
    OneOwningWorker, OwnsLifecycle, Status
<1>7. CASE Error
  BY <1>0, <1>7 DEF Error, FailOwned, Return, TypeOK, CapturedBefore, SpawnedIsPrivate,
    OneOwningWorker, OwnsLifecycle, Status
<1> QED BY <1>1, <1>2, <1>3, <1>4, <1>5, <1>6, <1>7 DEF ProcNext

\* killSession
LEMMA KillWorker ==
  ASSUME WorkerInv, UNCHANGED local, NEW k \in Killer, KillNext(k)
  PROVE  WorkerInv'
<1> DEFINE KillCall == CallSet({"idle", "asked", "cleaning", "removing", "removed"})
<1> USE LifecycleAssumption DEF WorkerInv, podVars, others
<1>1. Idle \in KillCall /\ Captured("asked") \in KillCall
  BY IdleType, CapturedType
<1>2. kill' \in [Killer -> KillCall]
  <2>1. PICK c \in KillCall : kill' = [kill EXCEPT ![k] = c]
    <3>1. kill[k] \in KillCall
      BY DEF TypeOK
    <3>2. \A pc \in {"cleaning", "removing", "removed"} :
            /\ [kill[k] EXCEPT !.pc = pc] \in KillCall
            /\ [kill[k] EXCEPT !.container = 0, !.pc = pc] \in KillCall
            /\ [kill[k] EXCEPT !.worktree = FALSE, !.pc = pc] \in KillCall
      <4> SUFFICES ASSUME NEW pc \in {"cleaning", "removing", "removed"}
                   PROVE  /\ [kill[k] EXCEPT !.pc = pc] \in KillCall
                          /\ [kill[k] EXCEPT !.container = 0, !.pc = pc] \in KillCall
                          /\ [kill[k] EXCEPT !.worktree = FALSE, !.pc = pc] \in KillCall
        OBVIOUS
      <4>1. [kill[k] EXCEPT !.pc = pc] \in KillCall
        BY <3>1 DEF CallSet
      <4>2. [kill[k] EXCEPT !.container = 0, !.pc = pc] \in KillCall
        <5>1. 0 \in 0..MaxContainers
          OBVIOUS
        <5> QED BY <3>1, <5>1, EmptiedType
      <4>3. [kill[k] EXCEPT !.worktree = FALSE, !.pc = pc] \in KillCall
        BY <3>1 DEF CallSet
      <4> QED BY <4>1, <4>2, <4>3
    <3> HIDE DEF KillCall
    <3>3. CASE KillAsk(k) \/ KillStale(k) \/ KillEnd(k)
      BY <1>1, <3>3 DEF KillAsk, KillStale, KillEnd
    <3>4. CASE KillBegin(k)
      BY <1>1, <3>2, <3>4 DEF KillBegin, TypeOK
    <3>5. CASE KillContainer(k)
      <4>1. kill \in [Killer -> KillCall]
        BY DEF TypeOK, KillCall
      <4>2. \/ kill' = [kill EXCEPT ![k].container = 0, ![k].pc = "removing"]
            \/ kill' = [kill EXCEPT ![k].pc = "removing"]
        BY <3>5 DEF KillContainer
      <4>3. CASE kill' = [kill EXCEPT ![k].container = 0, ![k].pc = "removing"]
        <5>1. kill' = [kill EXCEPT ![k] = [kill[k] EXCEPT !.container = 0, !.pc = "removing"]]
          BY <4>1, <4>3
        <5>2. [kill[k] EXCEPT !.container = 0, !.pc = "removing"] \in KillCall
          BY <3>2
        <5> QED BY <5>1, <5>2
      <4>4. CASE kill' = [kill EXCEPT ![k].pc = "removing"]
        <5>1. [kill[k] EXCEPT !.pc = "removing"] \in KillCall
          BY <3>2
        <5> QED BY <4>4, <5>1
      <4> QED BY <4>2, <4>3, <4>4
    <3>6. CASE KillWorktree(k)
      BY <3>2, <3>6 DEF KillWorktree, TypeOK
    <3> QED BY <3>3, <3>4, <3>5, <3>6 DEF KillNext
  <2> HIDE DEF KillCall
  <2>2. kill \in [Killer -> KillCall]
    BY DEF TypeOK, KillCall
  <2> QED BY <2>1, <2>2
<1>3. UNCHANGED <<gen, proc, queue, made, rework, reject, kick, wake>>
  BY DEF KillNext, KillAsk, KillBegin, KillStale, KillContainer, KillWorktree, KillEnd
<1>4. status' \in Status /\ worktree' \in BOOLEAN /\ container' \in {container, 0}
  BY DEF KillNext, KillAsk, KillBegin, KillStale, KillContainer, KillWorktree, KillEnd, TypeOK, Status
<1>5. TypeOK'
  BY <1>2, <1>3, <1>4 DEF TypeOK
<1> QED BY <1>3, <1>4, <1>5 DEF TypeOK, CapturedBefore, SpawnedIsPrivate, OneOwningWorker, OwnsLifecycle

\* Forced rework, kick and wake: none of them starts a consumer.
LEMMA ControlWorker ==
  ASSUME WorkerInv, UNCHANGED local, ReworkNext \/ KickBegin \/ KickEnd \/ WakeNext
  PROVE  WorkerInv'
<1> USE LifecycleAssumption DEF WorkerInv, podVars, others, controlVars
<1>1. Idle \in CallSet({"idle", "tearing"}) /\ Idle \in CallSet({"idle", "stopping"})
  BY IdleType
<1>2. Captured("tearing") \in CallSet({"idle", "tearing"})
      /\ Captured("stopping") \in CallSet({"idle", "stopping"})
  BY CapturedType
<1>3. UNCHANGED <<proc, made, reject>> /\ UNCHANGED kill
  BY DEF ReworkNext, ReworkBegin, ReworkBlocked, ReworkQueue, KickBegin, KickEnd,
         WakeNext, WakeBegin, WakeOther, WakeRequeue
<1>4. /\ status' \in Status /\ worktree' \in BOOLEAN /\ container' \in {container, 0}
      /\ gen' \in {gen, gen + 1} /\ gen' \in 0..MaxGen
      /\ queue' = queue \/ (queue = "none" /\ queue' = "waiting")
  <2> rework.worktree \in BOOLEAN
    BY DEF TypeOK, CallSet
  <2>1. CASE ReworkBegin \/ ReworkBlocked
    BY <2>1 DEF ReworkBegin, ReworkBlocked, TypeOK
  <2>2. CASE ReworkQueue
    BY <2>2 DEF ReworkQueue, Enqueue, TypeOK, Status
  <2>3. CASE KickBegin \/ KickEnd
    BY <2>3 DEF KickBegin, KickEnd, TypeOK, Status
  <2>4. CASE WakeNext
    BY <2>4 DEF WakeNext, WakeBegin, WakeOther, WakeRequeue, Enqueue, TypeOK, Status
  <2> QED BY <2>1, <2>2, <2>3, <2>4 DEF ReworkNext
<1>5. rework' \in CallSet({"idle", "tearing"})
  <2>1. CASE ReworkBegin
    BY <2>1 DEF ReworkBegin, Call, CallSet, TypeOK
  <2>2. CASE ~ReworkBegin
    BY <1>1, <2>2 DEF ReworkNext, ReworkBlocked, ReworkQueue, KickBegin, KickEnd, WakeNext, WakeBegin,
      WakeOther, WakeRequeue, TypeOK
  <2> QED BY <2>1, <2>2
<1>6. kick' \in CallSet({"idle", "stopping"}) /\ wake' \in CallSet({"idle", "tearing"})
  BY <1>1, <1>2 DEF ReworkNext, ReworkBegin, ReworkBlocked, ReworkQueue, KickBegin, KickEnd,
         WakeNext, WakeBegin, WakeOther, WakeRequeue, TypeOK
<1>7. TypeOK'
  BY <1>3, <1>4, <1>5, <1>6 DEF TypeOK
<1>8. proc.gen \in Nat /\ reject.gen \in Nat /\ gen \in Nat
  BY DEF TypeOK, CallSet
<1> QED BY <1>3, <1>4, <1>7, <1>8 DEF TypeOK, CapturedBefore, SpawnedIsPrivate, OneOwningWorker, OwnsLifecycle

\* rejectSession
LEMMA RejectWorker == ASSUME WorkerInv, UNCHANGED local, RejectNext PROVE WorkerInv'
<1> DEFINE RejectCall == CallSet({"idle", "preparing", "prepared", "working"})
<1> USE LifecycleAssumption DEF WorkerInv, podVars, others
<1>1. /\ Idle \in RejectCall /\ Idle.pc = "idle" /\ Idle.gen = 0 /\ Idle.container = 0
      /\ \A pc \in {"preparing", "working"} :
           /\ Captured(pc) \in RejectCall /\ Captured(pc).pc = pc
           /\ Captured(pc).gen = gen /\ Captured(pc).container = container
  BY IdleType, CapturedType
<1>2. UNCHANGED <<gen, container, worktree, made, proc, queue, kill, rework, kick, wake>>
  BY DEF RejectNext, RejectBegin, RejectPrepare, RejectFail, RejectResume, RejectFinish
<1>3. status' \in Status
  BY DEF RejectNext, RejectBegin, RejectPrepare, RejectFail, RejectResume, RejectFinish, Rollback,
    SettleRun, TypeOK, Status
<1>4. \/ reject' \in {reject, Idle}
      \/ reject' = Captured("preparing")
      \/ reject' = [reject EXCEPT !.pc = "prepared"]
      \/ reject' = Captured("working") /\ proc.pc # "working"
  BY DEF RejectNext, RejectBegin, RejectPrepare, RejectFail, RejectResume, RejectFinish, Rollback
<1>5. reject' \in RejectCall
  BY <1>1, <1>4 DEF TypeOK, CallSet
<1>6. reject'.container <= made /\ reject'.gen <= gen
      /\ (reject'.container < made \/ reject'.container = reject.container
         \/ reject'.container = container \/ reject' = Idle)
  BY <1>1, <1>4 DEF TypeOK, CallSet, CapturedBefore, SpawnedIsPrivate
<1>7. TypeOK'
  BY <1>2, <1>3, <1>5 DEF TypeOK
<1>8. SpawnedIsPrivate' /\ CapturedBefore'
  BY <1>1, <1>2, <1>6 DEF CapturedBefore, SpawnedIsPrivate, TypeOK, CallSet
<1>9. OneOwningWorker'
  BY <1>1, <1>2, <1>4 DEF OneOwningWorker, OwnsLifecycle, TypeOK, CallSet
<1> QED BY <1>7, <1>8, <1>9
----------------------------------------------------------------------------
\* Every step keeps the invariant of the workers.
LEMMA StepWorker == ASSUME WorkerInv, [Next]_vars PROVE WorkerInv'
<1>1. CASE UNCHANGED vars
  BY <1>1 DEF vars, podVars, WorkerInv, TypeOK, CapturedBefore, SpawnedIsPrivate, OneOwningWorker,
    OwnsLifecycle
<1>2. CASE Next
  BY <1>2, ProcWorker, KillWorker, ControlWorker, RejectWorker DEF Next
<1> QED BY <1>1, <1>2

\* WorkerInv is an invariant of the pod.
LEMMA WorkerInvariant == Spec => []WorkerInv
BY InitWorker, StepWorker, PTL DEF Spec

\* A pod has a known status and every call in flight captured values it had, for any
\* number of kills, generations and containers.
THEOREM LifecycleTypeOK == Spec => []TypeOK
BY WorkerInvariant, PTL DEF WorkerInv

\* Two consumers never both own the pod's lifecycle, whatever controls raced to start
\* them (agent-event-consumption.ts, operator-rejection.ts).
THEOREM LifecycleOneOwningWorker == Spec => []OneOwningWorker
BY WorkerInvariant, PTL DEF WorkerInv
----------------------------------------------------------------------------
(* The two action properties.                                                *)

\* One step of the action property, from the invariant.
LEMMA StepSuperseded ==
  ASSUME TypeOK, [Next]_vars, proc.pc # "idle", proc'.pc = "idle", proc.gen # gen
  PROVE  UNCHANGED podVars
<1>1. proc' # proc
  OBVIOUS
<1>2. ProcNext
  BY <1>1 DEF Next, vars, controlVars, others, ReworkNext, ReworkBegin, ReworkBlocked, ReworkQueue,
     RejectNext, RejectBegin, RejectPrepare, RejectFail, RejectResume, RejectFinish,
     KickBegin, KickEnd, WakeNext, WakeBegin, WakeOther, WakeRequeue,
     KillNext, KillAsk, KillBegin, KillStale, KillContainer, KillWorktree, KillEnd
<1>3. ~(Provision \/ Spawn \/ Run)
  BY DEF Provision, Spawn, Run, TypeOK, CallSet
<1>4. CASE Start
  BY <1>4 DEF Start
<1>5. CASE Superseded
  BY <1>5 DEF Superseded
<1>6. CASE Finish
  BY <1>6 DEF Finish, SettleRun, OwnsLifecycle, podVars
<1>7. CASE Error
  BY <1>7 DEF Error, FailOwned, podVars
<1> QED BY <1>2, <1>3, <1>4, <1>5, <1>6, <1>7 DEF ProcNext

\* A processPod that ends after a rework opened a newer generation moves the pod
\* nowhere (agent-process-workflow.ts), for any number of generations and calls.
THEOREM LifecycleSuperseded == Spec => SupersededCallSettlesNothing
<1>1. TypeOK /\ [Next]_vars =>
        [proc.pc # "idle" /\ proc'.pc = "idle" /\ proc.gen # gen => UNCHANGED podVars]_vars
  BY StepSuperseded
<1> QED BY <1>1, LifecycleTypeOK, PTL DEF Spec, SupersededCallSettlesNothing

\* One step of the action property, from the invariant.
LEMMA StepKillEnds ==
  ASSUME TypeOK, [Next]_vars, NEW k \in Killer,
         kill[k].pc # "idle", kill'[k].pc = "idle", kill[k].gen # gen
  PROVE  UNCHANGED podVars
<1>1. kill' # kill
  OBVIOUS
<1>2. PICK l \in Killer : KillNext(l)
  BY <1>1 DEF Next, vars, controlVars, others, ProcNext, Start, Superseded, Provision, Spawn, Run,
    Finish, Error,
     ReworkNext, ReworkBegin, ReworkBlocked, ReworkQueue,
     RejectNext, RejectBegin, RejectPrepare, RejectFail, RejectResume, RejectFinish,
     KickBegin, KickEnd, WakeNext, WakeBegin, WakeOther, WakeRequeue
<1>3. l = k
  <2>1. \A c : l # k => [kill EXCEPT ![l] = c][k] = kill[k]
    BY DEF TypeOK
  <2> QED BY <1>2, <2>1
      DEF KillNext, KillAsk, KillBegin, KillStale, KillContainer, KillWorktree, KillEnd, TypeOK
<1>4. ~KillCurrent(k)
  BY DEF KillCurrent, OwnsLifecycle
<1>5. CASE KillBegin(k)
  BY <1>4, <1>5 DEF KillBegin, podVars
<1>6. CASE KillStale(k)
  BY <1>6 DEF KillStale
<1>7. CASE KillEnd(k)
  BY <1>7 DEF KillEnd, podVars
<1> QED BY <1>2, <1>3, <1>4, <1>5, <1>6, <1>7 DEF KillNext, KillAsk, KillContainer, KillWorktree

\* A kill that outlives its generation declares nothing of the next one killed
\* (operator-kill.ts), for any number of kills in flight.
THEOREM LifecycleKillEndsItsOwn == Spec => KillEndsItsOwn
<1>1. TypeOK /\ [Next]_vars =>
        [\A k \in Killer : kill[k].pc # "idle" /\ kill'[k].pc = "idle" /\ kill[k].gen # gen
           => UNCHANGED podVars]_vars
  BY StepKillEnds
<1> QED BY <1>1, LifecycleTypeOK, PTL DEF Spec, KillEndsItsOwn
----------------------------------------------------------------------------
(* The guidance of a worker.                                                  *)

\* The bounds of the guidance.
LEMMA GuidanceBounds == Guidance!GuidanceAssumption
BY GuidanceAssumption

\* Within an instance the operators of a standard module are those of the instance.
LEMMA SameCardinality ==
  ASSUME NEW S
  PROVE  Guidance!Cardinality(S) = Cardinality(S)
BY DEF Guidance!Cardinality, Cardinality

\* While a completion awaits, no run is open or on its way and no question is pending.
CompletionAlone ==
  /\ dispatching => ~active
  /\ active => podStatus \in {"running", "awaiting_input"}
  /\ completing # Guidance!None => ~active /\ ~dispatching /\ podStatus = "running"

\* A delivery leaves out no message before one of its own that is not consumed.
DeliveriesInOrder ==
  \A d \in DOMAIN deliveries : \A m \in deliveries[d].items :
    /\ m \in DOMAIN messages
    /\ \A n \in DOMAIN messages : n < m => n \in deliveries[d].items \cup consumed

\* A run has at most one delivery it has not acknowledged, and none is of a later run.
OneOpenDelivery ==
  \A d, e \in DOMAIN deliveries :
    /\ deliveries[d].run <= run
    /\ deliveries[d].run = deliveries[e].run /\ ~deliveries[d].acked /\ ~deliveries[e].acked => d = e

\* The inductive invariant.
GuidanceInv ==
  /\ Guidance!TypeOK /\ Len(messages) <= MaxMessages
  /\ CompletionAlone /\ OneOpenDelivery /\ DeliveriesInOrder /\ ConsumedInOrder

\* The worker has asked nothing and was told nothing at first.
LEMMA InitGuidance == Guidance!Init => GuidanceInv
<1>1. MaxRuns \in Nat \ {0} /\ MaxRestarts \in Nat
  BY GuidanceBounds DEF Guidance!GuidanceAssumption
<1>2. Guidance!Init => Guidance!TypeOK
  <2>1. /\ <<>> \in Seq(Question \cup {Guidance!None}) /\ <<>> \in Seq(Guidance!Delivery) /\ DOMAIN <<>> = {}
    OBVIOUS
  <2>2. ASSUME Guidance!Init PROVE active \in BOOLEAN /\ dispatching \in BOOLEAN
    BY <2>2, Zenon DEF Guidance!Init
  <2>3. ASSUME Guidance!Init PROVE
        /\ waiter \in [Question -> {Guidance!None, "unanswered", "advised", "conflict", "answered",
           "cancelled", "gone"} \cup Guidance!Waiting]
                          /\ response \in [Question -> {Guidance!None, "advisor", "human", "automation"}]
    BY <2>3 DEF Guidance!Init
  <2>4. ASSUME Guidance!Init PROVE run \in 1..MaxRuns /\ restarts \in 0..MaxRestarts
    BY <2>4, <1>1 DEF Guidance!Init
  <2>5. ASSUME Guidance!Init PROVE /\ messages \in Seq(Question \cup {Guidance!None})
                                      /\ consumed \subseteq DOMAIN messages
                          /\ deliveries \in Seq(Guidance!Delivery)
                             /\ received \subseteq DOMAIN deliveries /\ decided \subseteq Question
    BY <2>1, <2>5 DEF Guidance!Init
  <2>6. ASSUME Guidance!Init PROVE /\ podStatus = "running" /\ question = Guidance!None
                                      /\ completing = Guidance!None
    BY <2>6 DEF Guidance!Init
  <2>7. QED
    BY <2>2, <2>3, <2>4, <2>5, <2>6 DEF Guidance!TypeOK
<1>3. Guidance!Init => CompletionAlone /\ OneOpenDelivery /\ DeliveriesInOrder /\ ConsumedInOrder
  BY DEF Guidance!Init, CompletionAlone, OneOpenDelivery, DeliveriesInOrder, ConsumedInOrder,
     Guidance!ConsumedInOrder
<1>4. MaxMessages \in Nat /\ Len(<<>>) = 0
  BY GuidanceBounds DEF Guidance!GuidanceAssumption
<1>5. QED
  BY <1>2, <1>3, <1>4 DEF GuidanceInv, Guidance!Init

\* A batch is the beginning of what is pending.
LEMMA BatchBegins ==
  ASSUME messages \in Seq(Question \cup {Guidance!None}), NEW m \in Guidance!Batch,
    NEW n \in Guidance!Pending, n < m
  PROVE  n \in Guidance!Batch
<1>1. m \in 1..Len(messages) /\ n \in 1..Len(messages) /\ Len(messages) \in Nat
  BY DEF Guidance!Batch, Guidance!Candidates, Guidance!Pending
<1> DEFINE Before(k) == {j \in Guidance!Pending : j < k}
<1>2. Before(n) \subseteq Before(m)
  BY <1>1 DEF Guidance!Pending
<1>3. IsFiniteSet(Before(m)) 
  <2>1. IsFiniteSet(1..Len(messages))
    BY <1>1, FS_Interval
  <2>2. DOMAIN messages = 1..Len(messages) /\ Guidance!Pending \subseteq DOMAIN messages
    BY DEF Guidance!Pending
  <2>3. QED
    BY <2>1, <2>2, FS_Subset
<1>4. Cardinality(Before(n)) <= Cardinality(Before(m)) /\ Cardinality(Before(n)) \in Nat
      /\ Cardinality(Before(m)) \in Nat
  BY <1>2, <1>3, FS_Subset, FS_CardinalityType
<1>5. Cardinality(Before(m)) < MaxBatch /\ MaxBatch \in Nat
  BY GuidanceBounds, SameCardinality DEF Guidance!Batch, Guidance!Candidates, Guidance!GuidanceAssumption
<1>6. QED
  BY <1>4, <1>5, SameCardinality DEF Guidance!Batch, Guidance!Candidates

\* Steps that neither send, deliver nor consume a message keep the order of messages.
LEMMA OrderKept ==
  ASSUME GuidanceInv, UNCHANGED <<messages, consumed>>,
         UNCHANGED deliveries, run' \in {run, run + 1}
  PROVE  DeliveriesInOrder' /\ ConsumedInOrder' /\ OneOpenDelivery'
<1>1. \A d \in DOMAIN deliveries : deliveries[d].run \in Nat
  <2>1. \A d \in DOMAIN deliveries : deliveries[d] \in Guidance!Delivery
    BY DEF GuidanceInv, Guidance!TypeOK
  <2>2. QED
    BY <2>1 DEF Guidance!Delivery
<1>2. run \in Nat
  BY GuidanceBounds DEF GuidanceInv, Guidance!TypeOK, Guidance!GuidanceAssumption
<1>3. QED
  BY <1>1, <1>2 DEF GuidanceInv, DeliveriesInOrder, ConsumedInOrder, Guidance!ConsumedInOrder, OneOpenDelivery

\* A message is sent: it is after every other.
LEMMA SendKeeps ==
  ASSUME GuidanceInv, NEW x \in Question \cup {Guidance!None}, messages' = Append(messages, x),
         Len(messages) < MaxMessages, UNCHANGED <<Guidance!guidanceVars, run>>
  PROVE  DeliveriesInOrder' /\ ConsumedInOrder' /\ OneOpenDelivery' /\ Len(messages') <= MaxMessages
    /\ messages' \in Seq(Question \cup {Guidance!None})
         /\ consumed' \subseteq DOMAIN messages'
<1>1. /\ DOMAIN messages = 1..Len(messages) /\ DOMAIN messages' = 1..Len(messages) + 1 /\ Len(messages) \in Nat
      /\ messages' \in Seq(Question \cup {Guidance!None}) /\ Len(messages') = Len(messages) + 1
         /\ MaxMessages \in Nat
  BY GuidanceBounds DEF GuidanceInv, Guidance!TypeOK, Guidance!GuidanceAssumption
<1>2. \A m \in DOMAIN messages, n \in DOMAIN messages' : n < m => n \in DOMAIN messages
  BY <1>1
<1>3. DOMAIN messages \subseteq DOMAIN messages'
  BY <1>1
<1>4. consumed \subseteq DOMAIN messages
  BY DEF GuidanceInv, Guidance!TypeOK
<1>5. UNCHANGED <<deliveries, consumed, run>>
  BY DEF Guidance!guidanceVars
<1>6. DeliveriesInOrder'
  BY <1>2, <1>3, <1>5 DEF GuidanceInv, DeliveriesInOrder
<1>7. ConsumedInOrder'
  BY <1>2, <1>4, <1>5 DEF GuidanceInv, ConsumedInOrder, Guidance!ConsumedInOrder
<1>8. OneOpenDelivery'
  BY <1>5 DEF GuidanceInv, OneOpenDelivery
<1>9. Len(messages') <= MaxMessages
  BY <1>1
<1>10. QED
  BY <1>1, <1>3, <1>4, <1>5, <1>6, <1>7, <1>8, <1>9
----------------------------------------------------------------------------
\* Questions, their calls and the replies.
LEMMA AskKeeps ==
  ASSUME GuidanceInv, Guidance!StreamCloses \/ \E q \in Question : Guidance!Ask(q)
    \/ Guidance!Timeout(q) \/ Guidance!Advised(q)
  PROVE  GuidanceInv'
<1> USE DEF GuidanceInv
<1>1. UNCHANGED <<messages, consumed, deliveries, received, run, active, dispatching, completing,
                  restarts, decided>>
  BY DEF Guidance!Ask, Guidance!StreamCloses, Guidance!Timeout, Guidance!Advised,
     Guidance!guidanceVars, Guidance!runVars
<1>2. DeliveriesInOrder' /\ ConsumedInOrder' /\ OneOpenDelivery' /\ Len(messages') <= MaxMessages
  BY <1>1, OrderKept
<1>3. /\ podStatus' \in {"running", "awaiting_input", "validating", "validated", "complete", "failed"}
      /\ question' \in Question \cup {Guidance!None}
         /\ (question' # Guidance!None <=> podStatus' = "awaiting_input")
      /\ (podStatus' = podStatus \/ (active /\ podStatus' = "awaiting_input"))
  BY GuidanceBounds DEF Guidance!GuidanceAssumption, Guidance!Ask, Guidance!StreamCloses,
     Guidance!Timeout, Guidance!Advised, Guidance!TypeOK
<1>4. waiter' \in [Question -> {Guidance!None, "unanswered", "advised", "conflict", "answered",
      "cancelled", "gone"} \cup Guidance!Waiting]
  BY DEF Guidance!Ask, Guidance!StreamCloses, Guidance!Timeout, Guidance!Advised, Guidance!Detached,
     Guidance!Waiting, Guidance!TypeOK
<1>5. response' \in [Question -> {Guidance!None, "advisor", "human", "automation"}]
  BY DEF Guidance!Ask, Guidance!StreamCloses, Guidance!Timeout, Guidance!Advised, Guidance!TypeOK
<1>6. Guidance!TypeOK'
  BY <1>1, <1>3, <1>4, <1>5 DEF Guidance!TypeOK
<1>7. CompletionAlone'
  BY <1>1, <1>3 DEF CompletionAlone
<1>8. QED
  BY <1>2, <1>6, <1>7

\* A reply answers the question and is consumed with it, or is sent as guidance.
LEMMA ReplyKeeps ==
  ASSUME GuidanceInv, NEW actor \in {"human", "automation"}, Guidance!Reply(actor)
  PROVE  GuidanceInv'
<1> USE DEF GuidanceInv
<1>1. question \in Question /\ podStatus' = "running" /\ question' = Guidance!None
  BY DEF Guidance!Reply, Guidance!AfterReply, Guidance!TypeOK
<1>2. messages' = Append(messages, question) /\ UNCHANGED <<Guidance!guidanceVars, run, active,
                                                            completing, restarts>>
  BY DEF Guidance!Reply, Guidance!Queued
<1>3. /\ DeliveriesInOrder' /\ ConsumedInOrder' /\ OneOpenDelivery' /\ Len(messages') <= MaxMessages
      /\ messages' \in Seq(Question \cup {Guidance!None})
      /\ consumed' \subseteq DOMAIN messages'
  BY <1>1, <1>2, SendKeeps DEF Guidance!Reply
<1>4. waiter' \in [Question -> {Guidance!None, "unanswered", "advised", "conflict", "answered",
      "cancelled", "gone"} \cup Guidance!Waiting]
  BY DEF Guidance!Reply, Guidance!Returned, Guidance!TypeOK
<1>5. response' \in [Question -> {Guidance!None, "advisor", "human", "automation"}] /\ decided' \subseteq Question
  BY <1>1 DEF Guidance!Reply, Guidance!TypeOK
<1>6. dispatching' \in BOOLEAN /\ (dispatching' => dispatching \/ ~active)
  BY DEF Guidance!Reply, Guidance!TypeOK
<1>7. Guidance!TypeOK'
  BY <1>1, <1>2, <1>3, <1>4, <1>5, <1>6 DEF Guidance!TypeOK, Guidance!guidanceVars
<1>8. CompletionAlone'
  BY <1>1, <1>2, <1>6 DEF CompletionAlone, Guidance!Reply
<1>9. QED
  BY <1>3, <1>7, <1>8

\* A nudge is sent, or is an answer.
LEMMA NudgeKeeps == ASSUME GuidanceInv, Guidance!Nudge PROVE GuidanceInv'
<1> USE DEF GuidanceInv
<1>1. messages' = Append(messages, Guidance!None) /\ UNCHANGED <<podStatus, Guidance!askVars,
                                                                 Guidance!guidanceVars, Guidance!runVars>>
  BY DEF Guidance!Nudge
<1>2. /\ DeliveriesInOrder' /\ ConsumedInOrder' /\ OneOpenDelivery' /\ Len(messages') <= MaxMessages
      /\ messages' \in Seq(Question \cup {Guidance!None})
      /\ consumed' \subseteq DOMAIN messages'
  BY <1>1, SendKeeps DEF Guidance!Nudge, Guidance!runVars
<1>3. Guidance!TypeOK'
  BY <1>1, <1>2 DEF Guidance!TypeOK, Guidance!askVars, Guidance!guidanceVars, Guidance!runVars
<1>4. CompletionAlone'
  BY <1>1 DEF CompletionAlone, Guidance!runVars
<1>5. QED
  BY <1>2, <1>3, <1>4
----------------------------------------------------------------------------
\* The worker reads: an open delivery again, or the next batch.
LEMMA ReadKeeps == ASSUME GuidanceInv, Guidance!Read PROVE GuidanceInv'
<1> USE DEF GuidanceInv
<1>1. UNCHANGED <<podStatus, Guidance!askVars, messages, consumed, Guidance!runVars>>
  BY DEF Guidance!Read
<1>2. /\ deliveries' \in Seq(Guidance!Delivery) /\ received' \subseteq DOMAIN deliveries'
      /\ DeliveriesInOrder' /\ OneOpenDelivery'
  <2>1. CASE Guidance!OpenDeliveries # {}
    <3>1. \E o \in Guidance!OpenDeliveries : \A p \in Guidance!OpenDeliveries : o <= p
      <4>1. Guidance!OpenDeliveries \subseteq 1..Len(deliveries) /\ Len(deliveries) \in Nat
        BY DEF Guidance!OpenDeliveries, Guidance!TypeOK
      <4>2. \A o, p \in Guidance!OpenDeliveries : o = p
        BY DEF Guidance!OpenDeliveries, OneOpenDelivery
      <4>3. PICK o \in Guidance!OpenDeliveries : TRUE
        BY <2>1
      <4>4. o \in 1..Len(deliveries)
        BY <4>1
      <4>5. o <= o
        BY <4>1, <4>4
      <4>6. QED
        BY <4>2, <4>5
    <3>2. deliveries' = deliveries /\ \E d \in Guidance!OpenDeliveries : received' \in {received, received \cup {d}}
      BY <2>1, <3>1 DEF Guidance!Read
    <3>3. UNCHANGED <<messages, consumed, run>>
      BY <1>1 DEF Guidance!runVars
    <3>4. DeliveriesInOrder' /\ OneOpenDelivery'
      BY <3>2, <3>3, OrderKept
    <3>5. QED
      BY <3>2, <3>4 DEF Guidance!OpenDeliveries, Guidance!TypeOK
  <2>2. CASE Guidance!OpenDeliveries = {}
    <3> DEFINE new == [run |-> run, items |-> Guidance!Batch, acked |-> FALSE]
               n == Len(deliveries)
    <3>1. /\ deliveries' = Append(deliveries, new)
          /\ received' \in {received, received \cup {n + 1}}
      BY <2>2 DEF Guidance!Read
    <3>2. Guidance!Batch \subseteq Guidance!Pending /\ Guidance!Pending = DOMAIN messages \ consumed
          /\ DOMAIN messages = 1..Len(messages)
          /\ Len(messages) \in Nat /\ MaxMessages \in Nat
      BY GuidanceBounds DEF Guidance!Batch, Guidance!Candidates, Guidance!Pending, Guidance!TypeOK,
         Guidance!GuidanceAssumption
    <3>3. new \in Guidance!Delivery /\ new.run = run /\ new.items = Guidance!Batch
      BY <3>2 DEF Guidance!Delivery, Guidance!TypeOK
    <3> HIDE DEF new
    <3>4. /\ n \in Nat /\ deliveries' \in Seq(Guidance!Delivery) /\ DOMAIN deliveries = 1..n
             /\ DOMAIN deliveries' = 1..n + 1
          /\ deliveries'[n + 1] = new /\ \A d \in 1..n : deliveries'[d] = deliveries[d]
      BY <3>1, <3>3 DEF Guidance!TypeOK
    <3>5. received' \subseteq DOMAIN deliveries'
      BY <3>1, <3>4 DEF Guidance!TypeOK
    <3>6. \A d \in DOMAIN deliveries' : d \in DOMAIN deliveries \/ d = n + 1
      BY <3>4
    <3>7. \A m \in Guidance!Batch, k \in DOMAIN messages : k < m => k \in Guidance!Batch \cup consumed
      BY <3>2, BatchBegins DEF Guidance!TypeOK
    <3>8. DeliveriesInOrder'
      BY <1>1, <3>2, <3>3, <3>4, <3>6, <3>7 DEF DeliveriesInOrder
    <3>9. OneOpenDelivery'
      <4>1. \A d \in DOMAIN deliveries : deliveries[d].run # run \/ deliveries[d].acked
        BY <2>2 DEF Guidance!OpenDeliveries
      <4>2. run \in Nat /\ run' = run
        BY <1>1, GuidanceBounds DEF Guidance!GuidanceAssumption, Guidance!runVars, Guidance!TypeOK
      <4>3. QED
        BY <3>3, <3>4, <3>6, <4>1, <4>2 DEF OneOpenDelivery
    <3>10. QED
      BY <3>4, <3>5, <3>8, <3>9
  <2>3. QED
    BY <2>1, <2>2
<1>3. ConsumedInOrder'
  BY <1>1 DEF ConsumedInOrder, Guidance!ConsumedInOrder
<1>4. Guidance!TypeOK' /\ CompletionAlone'
  BY <1>1, <1>2 DEF Guidance!TypeOK, CompletionAlone, Guidance!askVars, Guidance!runVars
<1>5. QED
  BY <1>1, <1>2, <1>3, <1>4

\* The worker acknowledges a delivery of its run.
LEMMA AcknowledgeKeeps ==
  ASSUME GuidanceInv, NEW d \in DOMAIN deliveries, Guidance!Acknowledge(d)
  PROVE  GuidanceInv'
<1> USE DEF GuidanceInv
<1>1. /\ consumed' = consumed \cup deliveries[d].items
      /\ deliveries' = [deliveries EXCEPT ![d].acked = TRUE]
      /\ UNCHANGED <<podStatus, Guidance!askVars, messages, received, Guidance!runVars>>
  BY DEF Guidance!Acknowledge, Guidance!Acked
<1>2. /\ DOMAIN deliveries' = DOMAIN deliveries /\ deliveries' \in Seq(Guidance!Delivery)
      /\ \A e \in DOMAIN deliveries :
           /\ deliveries'[e].items = deliveries[e].items /\ deliveries'[e].run = deliveries[e].run
           /\ ~deliveries'[e].acked => ~deliveries[e].acked
  <2>1. deliveries \in Seq(Guidance!Delivery) /\ \A e \in DOMAIN deliveries : deliveries[e] \in Guidance!Delivery
    BY DEF Guidance!TypeOK
  <2> DEFINE acked == [deliveries[d] EXCEPT !.acked = TRUE]
  <2>2. /\ acked \in Guidance!Delivery /\ acked.items = deliveries[d].items
           /\ acked.run = deliveries[d].run /\ acked.acked = TRUE
    BY <2>1 DEF Guidance!Delivery
  <2>3. deliveries' = [deliveries EXCEPT ![d] = acked]
    BY <1>1
  <2> HIDE DEF acked
  <2>4. QED
    BY <2>1, <2>2, <2>3
<1>3. consumed' \subseteq DOMAIN messages /\ ConsumedInOrder'
  BY <1>1 DEF DeliveriesInOrder, ConsumedInOrder, Guidance!ConsumedInOrder, Guidance!TypeOK
<1>4. DeliveriesInOrder'
  BY <1>1, <1>2 DEF DeliveriesInOrder
<1>5. OneOpenDelivery'
  BY <1>1, <1>2 DEF OneOpenDelivery, Guidance!runVars
<1>6. Guidance!TypeOK' /\ CompletionAlone'
  BY <1>1, <1>2, <1>3 DEF Guidance!TypeOK, CompletionAlone, Guidance!askVars, Guidance!runVars
<1>7. QED
  BY <1>1, <1>3, <1>4, <1>5, <1>6

\* Runs begin and end, completions decide, and the daemon restarts.
LEMMA RunKeeps ==
  ASSUME GuidanceInv, Guidance!BeginRun \/ Guidance!DispatchFails \/ Guidance!EndRun \/ Guidance!Held
    \/ Guidance!Decide \/ Guidance!Rework \/ Guidance!Restart
  PROVE  GuidanceInv'
<1> USE DEF GuidanceInv
<1>1. UNCHANGED <<messages, consumed, deliveries, received, response, decided>>
  BY DEF Guidance!BeginRun, Guidance!DispatchFails, Guidance!EndRun, Guidance!Held, Guidance!Decide,
     Guidance!Rework, Guidance!Restart, Guidance!guidanceVars, Guidance!askVars
<1>2. run \in Nat /\ MaxRuns \in Nat /\ MaxRestarts \in Nat
  BY GuidanceBounds DEF Guidance!GuidanceAssumption, Guidance!TypeOK
<1>3. run' \in {run, run + 1} /\ run' \in 1..MaxRuns
  BY <1>2 DEF Guidance!BeginRun, Guidance!DispatchFails, Guidance!EndRun, Guidance!Held,
     Guidance!Decide, Guidance!Rework, Guidance!Restart, Guidance!runVars, Guidance!TypeOK
<1>4. DeliveriesInOrder' /\ ConsumedInOrder' /\ OneOpenDelivery'
  BY <1>1, <1>3, OrderKept
<1>5. waiter' \in [Question -> {Guidance!None, "unanswered", "advised", "conflict", "answered",
      "cancelled", "gone"} \cup Guidance!Waiting]
  BY DEF Guidance!BeginRun, Guidance!DispatchFails, Guidance!EndRun, Guidance!Held, Guidance!Decide,
     Guidance!Rework, Guidance!Restart, Guidance!askVars, Guidance!Detached, Guidance!Waiting, Guidance!TypeOK
<1>6. active' \in BOOLEAN /\ dispatching' \in BOOLEAN
  BY DEF Guidance!BeginRun, Guidance!DispatchFails, Guidance!EndRun, Guidance!Held, Guidance!Decide,
     Guidance!Rework, Guidance!Restart, Guidance!TypeOK
<1>7. /\ podStatus' \in {"running", "awaiting_input", "validating", "validated", "complete", "failed"}
      /\ question' \in Question \cup {Guidance!None}
         /\ (question' # Guidance!None <=> podStatus' = "awaiting_input")
      /\ completing' \in {Guidance!None, "holding", "preparing"} /\ restarts' \in 0..MaxRestarts
  BY <1>2 DEF Guidance!BeginRun, Guidance!DispatchFails, Guidance!EndRun, Guidance!Held,
     Guidance!Decide, Guidance!Rework, Guidance!Restart, Guidance!askVars, Guidance!TypeOK,
     CompletionAlone, Guidance!None
<1>8. CompletionAlone'
  BY DEF Guidance!BeginRun, Guidance!DispatchFails, Guidance!EndRun, Guidance!Held, Guidance!Decide,
     Guidance!Rework, Guidance!Restart, Guidance!TypeOK, CompletionAlone, Guidance!None
<1>9. Guidance!TypeOK'
  BY <1>1, <1>3, <1>5, <1>6, <1>7 DEF Guidance!TypeOK
<1>10. QED
  BY <1>1, <1>4, <1>8, <1>9

\* Every step of the worker, its operators and the daemon keeps the invariant.
LEMMA StepGuidance == ASSUME GuidanceInv, [Guidance!Next]_Guidance!vars PROVE GuidanceInv'
<1>1. CASE UNCHANGED Guidance!vars
  BY <1>1 DEF Guidance!vars, Guidance!askVars, Guidance!guidanceVars, Guidance!runVars, GuidanceInv,
     Guidance!TypeOK, CompletionAlone, OneOpenDelivery,
     DeliveriesInOrder, ConsumedInOrder, Guidance!ConsumedInOrder
<1>2. QED
  BY <1>1, AskKeeps, ReplyKeeps, NudgeKeeps, ReadKeeps, AcknowledgeKeeps, RunKeeps DEF Guidance!Next

\* The worker, its questions, messages, deliveries and completion have their types, for any
\* number of each; the pod waits for input exactly while a question is pending.
THEOREM GuidanceTypeOK == Guidance!Spec => []Guidance!TypeOK
<1>1. GuidanceInv => Guidance!TypeOK
  BY DEF GuidanceInv
<1>2. QED
  BY <1>1, InitGuidance, StepGuidance, PTL DEF Guidance!Spec

\* Guidance is consumed in the order it was sent (operator-guidance-delivery.ts): lost answers,
\* repeated reads and new workers never let a worker acknowledge a later message alone.
THEOREM GuidanceConsumedInOrder == Guidance!Spec => []ConsumedInOrder
<1>1. GuidanceInv => ConsumedInOrder
  BY DEF GuidanceInv
<1>2. QED
  BY <1>1, InitGuidance, StepGuidance, PTL DEF Guidance!Spec
----------------------------------------------------------------------------
(* The parts together.                                                        *)

\* A behaviour of the instance that the run checks is one of each part, so what is proved
\* of the parts holds of it.
THEOREM ControlsAreParts == ControlsSpec => Spec /\ Guidance!Spec
<1>1. ControlsInit => Init /\ Guidance!Init
  BY DEF ControlsInit
<1>2. [ControlsNext]_<<part, vars, guidanceVars>> => [Next]_vars /\ [Guidance!Next]_Guidance!vars
  BY DEF ControlsNext, guidanceVars, Guidance!vars, Guidance!askVars, Guidance!guidanceVars, Guidance!runVars
<1>3. QED
  BY <1>1, <1>2, PTL DEF ControlsSpec, Spec, Guidance!Spec

\* So the instance that the run checks has every safety property it is checked for,
\* whatever the values of its constants.
THEOREM ControlsSafe ==
  ControlsSpec => []OneOwningWorker /\ []ConsumedInOrder /\ SupersededCallSettlesNothing /\ KillEndsItsOwn
BY ControlsAreParts, LifecycleOneOwningWorker, GuidanceConsumedInOrder, LifecycleSuperseded,
   LifecycleKillEndsItsOwn, PTL
=============================================================================
