--------------------------- MODULE PodQueueProofs ---------------------------
(* The pod queue is right for every set of pods, every number of slots and   *)
(* every number of requests: its two records of what is running agree with   *)
(* the calls in progress, drain() waits for all of them, and every step is a *)
(* step of the dispatcher PodDispatch.                                       *)
EXTENDS PodQueue, FiniteSetTheorems, TLAPS

Bookkeeping == [queue : Seq(Pod), active : SUBSET Pod, count : Nat, runs : [Pod -> Nat]]

NoDuplicates(q) == \A i, j \in DOMAIN q : q[i] = q[j] => i = j

\* The queue's bookkeeping is consistent, k being the hung calls: what an
\* operation of the queue finds and what it leaves.
Consistent(s, k) ==
  /\ s \in Bookkeeping
  /\ NoDuplicates(s.queue)
  /\ Waiting(s.queue) \cap s.active = {}
  /\ s.count = Cardinality(s.active)
  /\ s.count <= MaxConcurrency
  /\ k \subseteq s.active
  /\ \A p \in Pod : s.runs[p] = IF p \in s.active \ k THEN 1 ELSE 0

\* The inductive invariant: consistent bookkeeping, and the types of the rest.
IInv ==
  /\ Consistent(Now, stuck)
  /\ deferredRequeues \subseteq Pod
  /\ drains \in [Drainer -> DrainState]
  /\ requests \in 0..MaxRequests
  /\ wedges \in 0..MaxWedges
----------------------------------------------------------------------------
(* Active pods are finitely many, so counting them behaves.                 *)
LEMMA ActiveFinite ==
  ASSUME NEW A \in SUBSET Pod
  PROVE  IsFiniteSet(A) /\ Cardinality(A) \in Nat
  BY QueueAssumption, FS_Subset, FS_CardinalityType DEF QueueAssumption

(* Appending a pod that does not wait keeps a queue free of duplicates.     *)
LEMMA AppendWaiting ==
  ASSUME NEW q \in Seq(Pod), NEW p \in Pod
  PROVE  /\ Append(q, p) \in Seq(Pod)
         /\ Waiting(Append(q, p)) = Waiting(q) \cup {p}
         /\ NoDuplicates(q) /\ p \notin Waiting(q) => NoDuplicates(Append(q, p))
  <1> DEFINE a == Append(q, p)
  <1>1. a \in Seq(Pod) /\ Len(a) = Len(q) + 1 /\ Len(q) \in Nat
    OBVIOUS
  <1>2. DOMAIN a = 1..Len(q) + 1 /\ DOMAIN q = 1..Len(q)
    BY <1>1
  <1>3. a[Len(q) + 1] = p /\ \A i \in 1..Len(q) : a[i] = q[i]
    OBVIOUS
  <1> HIDE DEF a
  <1>4. Waiting(a) = Waiting(q) \cup {p}
    <2>1. ASSUME NEW x \in Waiting(a)
          PROVE  x \in Waiting(q) \cup {p}
      BY <2>1, <1>1, <1>2, <1>3 DEF Waiting
    <2>2. ASSUME NEW x \in Waiting(q)
          PROVE  x \in Waiting(a)
      <3>1. PICK i \in 1..Len(q) : x = q[i]
        BY <1>2 DEF Waiting
      <3>2. i \in DOMAIN a /\ a[i] = x
        BY <3>1, <1>1, <1>2, <1>3
      <3>3. QED
        BY <3>2 DEF Waiting
    <2>3. p \in Waiting(a)
      <3>1. Len(q) + 1 \in DOMAIN a
        BY <1>1, <1>2
      <3>2. QED
        BY <3>1, <1>3 DEF Waiting
    <2>4. QED
      BY <2>1, <2>2, <2>3
  <1>5. ASSUME NoDuplicates(q), p \notin Waiting(q)
        PROVE  NoDuplicates(a)
    <2>1. \A i \in 1..Len(q) : q[i] # p
      BY <1>2, <1>5 DEF Waiting
    <2>2. QED
      BY <2>1, <1>1, <1>2, <1>3, <1>5 DEF NoDuplicates
  <1>6. QED
    BY <1>1, <1>4, <1>5 DEF a

(* Without duplicates, the tail of a queue is the queue without its head.   *)
LEMMA TailWaiting ==
  ASSUME NEW q \in Seq(Pod), q # <<>>, NoDuplicates(q)
  PROVE  /\ Head(q) \in Pod /\ Head(q) \in Waiting(q)
         /\ Tail(q) \in Seq(Pod) /\ NoDuplicates(Tail(q))
         /\ Waiting(Tail(q)) = Waiting(q) \ {Head(q)}
  <1> DEFINE t == Tail(q)
  <1>1. Len(q) \in Nat \ {0} /\ t \in Seq(Pod) /\ Len(t) = Len(q) - 1
    OBVIOUS
  <1>2. DOMAIN t = 1..Len(q) - 1 /\ DOMAIN q = 1..Len(q)
    BY <1>1
  <1>3. Head(q) = q[1] /\ \A i \in 1..Len(q) - 1 : t[i] = q[i + 1]
    BY <1>1
  <1>4. Head(q) \in Pod
    OBVIOUS
  <1> HIDE DEF t
  <1>5. Head(q) \in Waiting(q)
    BY <1>1, <1>2, <1>3 DEF Waiting
  <1>6. ASSUME NEW i \in DOMAIN t, NEW j \in DOMAIN t, t[i] = t[j]
        PROVE  i = j
    <2>1. i + 1 \in DOMAIN q /\ j + 1 \in DOMAIN q
      BY <1>1, <1>2
    <2>2. q[i + 1] = q[j + 1]
      BY <1>2, <1>3, <1>6
    <2>3. i + 1 = j + 1
      BY <2>1, <2>2 DEF NoDuplicates
    <2>4. QED
      BY <2>3, <1>1, <1>2
  <1>7. ASSUME NEW x \in Waiting(t)
        PROVE  x \in Waiting(q) \ {Head(q)}
    <2>1. PICK i \in 1..Len(q) - 1 : x = t[i]
      BY <1>2 DEF Waiting
    <2>2. i + 1 \in DOMAIN q /\ i + 1 # 1 /\ 1 \in DOMAIN q /\ x = q[i + 1]
      BY <2>1, <1>1, <1>2, <1>3
    <2>3. QED
      BY <2>2, <1>3 DEF Waiting, NoDuplicates
  <1>8. ASSUME NEW x \in Waiting(q) \ {Head(q)}
        PROVE  x \in Waiting(t)
    <2>1. PICK i \in 1..Len(q) : x = q[i]
      BY <1>2 DEF Waiting
    <2>2. i # 1
      BY <2>1, <1>3
    <2>3. i - 1 \in DOMAIN t /\ t[i - 1] = x
      BY <2>1, <2>2, <1>1, <1>2, <1>3
    <2>4. QED
      BY <2>3 DEF Waiting
  <1>9. QED
    BY <1>1, <1>4, <1>5, <1>6, <1>7, <1>8 DEF t, NoDuplicates

(* Pushing a pod that neither waits nor runs keeps the bookkeeping consistent. *)
LEMMA PushedConsistent ==
  ASSUME NEW s, NEW k, Consistent(s, k), NEW p \in Pod,
         p \notin Waiting(s.queue), p \notin s.active
  PROVE  Consistent(Pushed(s, p), k)
  <1>1. s.queue \in Seq(Pod)
    BY DEF Consistent, Bookkeeping
  <1>2. QED
    BY <1>1, AppendWaiting DEF Consistent, Bookkeeping, Pushed

(* Starting the head of the queue keeps the bookkeeping consistent, and the  *)
(* head was not running: the slot counter and the id set grow together.      *)
LEMMA NextConsistent ==
  ASSUME NEW s, NEW k, Consistent(s, k)
  PROVE  Consistent(ProcessNext(s), k)
  <1>1. CASE s.count >= MaxConcurrency \/ s.queue = <<>>
    BY <1>1 DEF ProcessNext
  <1>2. CASE ~(s.count >= MaxConcurrency \/ s.queue = <<>>)
    <2> DEFINE h == Head(s.queue)
    <2>1. /\ s \in Bookkeeping /\ s.queue \in Seq(Pod) /\ s.queue # <<>>
          /\ NoDuplicates(s.queue) /\ s.active \in SUBSET Pod
      BY <1>2 DEF Consistent, Bookkeeping
    <2>2. /\ h \in Pod /\ h \in Waiting(s.queue)
          /\ Tail(s.queue) \in Seq(Pod) /\ NoDuplicates(Tail(s.queue))
          /\ Waiting(Tail(s.queue)) = Waiting(s.queue) \ {h}
      BY <2>1, TailWaiting
    <2>3. h \notin s.active
      BY <2>2 DEF Consistent
    <2>4. Cardinality(s.active \cup {h}) = Cardinality(s.active) + 1
      BY <2>1, <2>3, ActiveFinite, FS_AddElement
    <2>5. s.count + 1 <= MaxConcurrency
      BY <1>2, <2>1, QueueAssumption DEF QueueAssumption, Bookkeeping
    <2>6. s.runs[h] = 0
      BY <2>2, <2>3 DEF Consistent
    <2> HIDE DEF h
    <2>7. ProcessNext(s) = [queue |-> Tail(s.queue), active |-> s.active \cup {h},
                            count |-> s.count + 1, runs |-> [s.runs EXCEPT ![h] = @ + 1]]
      BY <1>2 DEF ProcessNext, h
    <2>8. QED
      BY <2>1, <2>2, <2>3, <2>4, <2>5, <2>6, <2>7 DEF Consistent, Bookkeeping
  <1>3. QED
    BY <1>1, <1>2

(* enqueue keeps the bookkeeping consistent.                                *)
LEMMA EnqueuedConsistent ==
  ASSUME NEW s, NEW k, Consistent(s, k), NEW p \in Pod
  PROVE  Consistent(Enqueued(s, p), k)
  BY PushedConsistent, NextConsistent DEF Enqueued

(* Giving back a slot: the id leaves the set and the counter follows.       *)
LEMMA RemovedConsistent ==
  ASSUME NEW s, NEW k, Consistent(s, k), NEW p \in s.active
  PROVE  /\ s.count - 1 \in Nat
         /\ s.count - 1 = Cardinality(s.active \ {p})
         /\ s.count > 0
  <1>1. s.active \in SUBSET Pod
    BY DEF Consistent, Bookkeeping
  <1>2. IsFiniteSet(s.active) /\ IsFiniteSet(s.active \ {p})
    BY <1>1, ActiveFinite
  <1>3. Cardinality(s.active \ {p}) = Cardinality(s.active) - 1
    BY <1>2, FS_RemoveElement
  <1>4. QED
    BY <1>2, <1>3, FS_CardinalityType DEF Consistent

(* The finally block gives the slot of a finished call back and requeues a   *)
(* deferred pod: consistent again.                                           *)
LEMMA ReleasedConsistent ==
  ASSUME NEW s, NEW k, Consistent(s, k), NEW p \in Pod, s.runs[p] > 0
  PROVE  Consistent(Released(s, p), k)
  <1> DEFINE without == [s.runs EXCEPT ![p] = s.runs[p] - 1]
             freed == [s EXCEPT !.active = @ \ {p}, !.count = @ - 1, !.runs = without]
  <1>1. p \in s.active /\ p \notin k /\ s.runs[p] = 1
    BY DEF Consistent
  <1>2. s.count - 1 \in Nat /\ s.count - 1 = Cardinality(s.active \ {p})
    BY <1>1, RemovedConsistent
  <1>3. /\ without \in [Pod -> Nat]
        /\ \A q \in Pod : without[q] = IF q = p THEN 0 ELSE s.runs[q]
    BY <1>1 DEF Consistent, Bookkeeping
  <1> HIDE DEF without
  <1>4. /\ freed \in Bookkeeping
        /\ freed.queue = s.queue /\ freed.active = s.active \ {p}
        /\ freed.count = s.count - 1
        /\ freed.runs = without
    BY <1>1, <1>2, <1>3 DEF Consistent, Bookkeeping
  <1> HIDE DEF freed
  <1>5. Consistent(freed, k)
    BY <1>1, <1>2, <1>3, <1>4, QueueAssumption DEF Consistent, Bookkeeping, QueueAssumption
  <1>6. Released(s, p) = IF p \in deferredRequeues /\ p \notin Waiting(s.queue)
                         THEN Pushed(freed, p) ELSE freed
    BY DEF Released, freed, without
  <1>7. QED
    BY <1>4, <1>5, <1>6, PushedConsistent

(* clearStuckEntry on a hung call gives its slot back.                      *)
LEMMA ClearedConsistent ==
  ASSUME NEW s, NEW k, Consistent(s, k), NEW p \in k
  PROVE  Consistent(Cleared(s, p), k \ {p})
  <1>1. p \in s.active /\ p \in Pod /\ s.runs[p] = 0
    BY DEF Consistent, Bookkeeping
  <1>2. s.count - 1 \in Nat /\ s.count - 1 = Cardinality(s.active \ {p}) /\ s.count > 0
    BY <1>1, RemovedConsistent
  <1>3. /\ Cleared(s, p) \in Bookkeeping
        /\ Cleared(s, p).queue = s.queue /\ Cleared(s, p).active = s.active \ {p}
        /\ Cleared(s, p).count = s.count - 1
        /\ Cleared(s, p).runs = s.runs
    BY <1>2 DEF Cleared, Consistent, Bookkeeping
  <1>4. QED
    BY <1>1, <1>2, <1>3, QueueAssumption DEF Consistent, Bookkeeping, QueueAssumption

(* A call that hangs still holds its slot.                                  *)
LEMMA WedgedConsistent ==
  ASSUME NEW s, NEW k, Consistent(s, k), NEW p \in Pod, s.runs[p] > 0
  PROVE  Consistent([s EXCEPT !.runs = [s.runs EXCEPT ![p] = s.runs[p] - 1]], k \cup {p})
  <1>1. p \in s.active /\ p \notin k /\ s.runs[p] = 1
    BY DEF Consistent
  <1> DEFINE without == [s.runs EXCEPT ![p] = s.runs[p] - 1]
             hung == [s EXCEPT !.runs = without]
  <1>2. /\ without \in [Pod -> Nat]
        /\ \A q \in Pod : without[q] = IF q = p THEN 0 ELSE s.runs[q]
    BY <1>1 DEF Consistent, Bookkeeping
  <1> HIDE DEF without
  <1>3. /\ hung \in Bookkeeping
        /\ hung.queue = s.queue /\ hung.active = s.active /\ hung.count = s.count
        /\ hung.runs = without
    BY <1>1, <1>2 DEF Consistent, Bookkeeping
  <1> HIDE DEF hung
  <1>4. Consistent(hung, k \cup {p})
    BY <1>1, <1>2, <1>3 DEF Consistent, Bookkeeping
  <1>5. QED
    BY <1>4 DEF hung, without

(* What Become leaves is what it was given.                                 *)
LEMMA BecomeNow ==
  ASSUME NEW s, s \in Bookkeeping, Become(s)
  PROVE  Now' = s
  BY DEF Become, Now, Bookkeeping
----------------------------------------------------------------------------
(* checkDrain keeps the type of the drain() promises.                       *)
LEMMA CheckDrainType ==
  ASSUME NEW s, drains \in [Drainer -> DrainState], CheckDrain(s)
  PROVE  drains' \in [Drainer -> DrainState]
  BY DEF CheckDrain, DrainState

(* The invariant holds of every reachable state of the queue.               *)
THEOREM QueueInvariant == Spec => []IInv
  <1>1. Init => IInv
    <2> SUFFICES ASSUME Init PROVE IInv
      OBVIOUS
    <2>1. Now = [queue |-> <<>>, active |-> {}, count |-> 0, runs |-> [p \in Pod |-> 0]]
      BY DEF Init, Now
    <2>2. Cardinality({}) = 0
      BY FS_EmptySet
    <2>3. Consistent(Now, stuck)
      BY <2>1, <2>2, QueueAssumption
      DEF Init, Consistent, Bookkeeping, NoDuplicates, Waiting, QueueAssumption
    <2>4. QED
      BY <2>3, QueueAssumption DEF Init, IInv, DrainState, QueueAssumption
  <1>2. IInv /\ [Next]_queueVars => IInv'
    <2> SUFFICES ASSUME IInv, [Next]_queueVars PROVE IInv'
      OBVIOUS
    <2>1. Now \in Bookkeeping /\ Consistent(Now, stuck) /\ stuck \subseteq Pod
      BY DEF IInv, Consistent, Bookkeeping
    <2>2. ASSUME NEW p \in Pod, Enqueue(p) PROVE IInv'
      <3>1. Consistent(Enqueued(Now, p), stuck)
        BY <2>1, EnqueuedConsistent
      <3>2. Now' = Enqueued(Now, p)
        BY <2>2, <3>1, BecomeNow DEF Enqueue, Consistent
      <3>3. QED
        BY <2>2, <3>1, <3>2, QueueAssumption DEF Enqueue, CountRequest, IInv, QueueAssumption
    <2>3. ASSUME NEW p \in Pod, RequeueAfterCurrent(p) PROVE IInv'
      <3>1. CASE p \in activeIds
        <4>1. Consistent(ProcessNext(Now), stuck)
          BY <2>1, NextConsistent
        <4>2. Now' = ProcessNext(Now)
          BY <2>3, <3>1, <4>1, BecomeNow DEF RequeueAfterCurrent, Consistent
        <4>3. QED
          BY <2>3, <3>1, <4>1, <4>2, QueueAssumption
          DEF RequeueAfterCurrent, CountRequest, IInv, QueueAssumption
      <3>2. CASE p \notin activeIds
        <4>1. p \notin Now.active /\ Now.queue = queue
          BY <3>2 DEF Now
        <4>2. Consistent(IF p \notin Waiting(queue) THEN Pushed(Now, p) ELSE Now, stuck)
          BY <2>1, <4>1, PushedConsistent
        <4>3. Consistent(ProcessNext(IF p \notin Waiting(queue) THEN Pushed(Now, p) ELSE Now),
                         stuck)
          BY <4>2, NextConsistent
        <4>4. Now' = ProcessNext(IF p \notin Waiting(queue) THEN Pushed(Now, p) ELSE Now)
          BY <2>3, <3>2, <4>3, BecomeNow DEF RequeueAfterCurrent, Consistent
        <4>5. QED
          BY <2>3, <3>2, <4>3, <4>4, QueueAssumption
          DEF RequeueAfterCurrent, CountRequest, IInv, QueueAssumption
      <3>3. QED
        BY <3>1, <3>2
    <2>4. ASSUME NEW p \in Pod, Finish(p) PROVE IInv'
      <3>1. Now.runs[p] > 0
        BY <2>4 DEF Finish, Now
      <3>2. Consistent(ProcessNext(Released(Now, p)), stuck)
        BY <2>1, <3>1, ReleasedConsistent, NextConsistent
      <3>3. Now' = ProcessNext(Released(Now, p))
        BY <2>4, <3>2, BecomeNow DEF Finish, Consistent
      <3>4. QED
        BY <2>4, <3>2, <3>3, CheckDrainType DEF Finish, IInv
    <2>5. ASSUME NEW p \in Pod, Wedge(p) PROVE IInv'
      <3>1. Now.runs[p] > 0
        BY <2>5 DEF Wedge, Now
      <3>2. Consistent([Now EXCEPT !.runs = [Now.runs EXCEPT ![p] = Now.runs[p] - 1]],
                       stuck \cup {p})
        BY <2>1, <3>1, WedgedConsistent
      <3>3. Now' = [Now EXCEPT !.runs = [Now.runs EXCEPT ![p] = Now.runs[p] - 1]]
        BY <2>5 DEF Wedge, Now
      <3>4. QED
        BY <2>5, <3>2, <3>3, QueueAssumption DEF Wedge, IInv, QueueAssumption
    <2>6. ASSUME NEW p \in Pod, ClearStuckEntry(p) PROVE IInv'
      <3>1. p \in stuck
        BY <2>6 DEF ClearStuckEntry
      <3>2. Consistent(ProcessNext(Cleared(Now, p)), stuck \ {p})
        BY <2>1, <3>1, ClearedConsistent, NextConsistent
      <3>3. Now' = ProcessNext(Cleared(Now, p))
        BY <2>6, <3>2, BecomeNow DEF ClearStuckEntry, Consistent
      <3>4. QED
        BY <2>6, <3>2, <3>3, CheckDrainType DEF ClearStuckEntry, IInv
    <2>7. ASSUME NEW d \in Drainer, Drain(d) PROVE IInv'
      <3>1. Now' = Now
        BY <2>7 DEF Drain, Now
      <3>2. drains' \in [Drainer -> DrainState]
        BY <2>7 DEF Drain, IInv, DrainState
      <3>3. QED
        BY <2>1, <2>7, <3>1, <3>2 DEF Drain, IInv
    <2>8. CASE UNCHANGED queueVars
      <3>1. Now' = Now
        BY <2>8 DEF queueVars, Now
      <3>2. QED
        BY <2>1, <2>8, <3>1 DEF queueVars, IInv
    <2>9. QED
      BY <2>2, <2>3, <2>4, <2>5, <2>6, <2>7, <2>8 DEF Next
  <1>3. QED
    BY <1>1, <1>2, PTL DEF Spec

(* The type invariant of the queue holds for ever.                          *)
THEOREM QueueTypeOK == Spec => []TypeOK
  <1>1. IInv => TypeOK
    BY QueueAssumption DEF IInv, TypeOK, Consistent, Bookkeeping, Now, QueueAssumption
  <1>2. QED
    BY <1>1, QueueInvariant, PTL

(* The id set, the slot counter and the calls in progress always agree, and  *)
(* no pod is processed twice at a time (pod-queue.ts:31-36, 46-68, 90-98).   *)
THEOREM QueueSlots == Spec => []SlotsMatchRuns
  <1>1. IInv => SlotsMatchRuns
    BY DEF IInv, SlotsMatchRuns, Consistent, Now
  <1>2. QED
    BY <1>1, QueueInvariant, PTL
----------------------------------------------------------------------------
(* An empty queue with no slot taken has no call in progress.               *)
LEMMA DrainedIsIdle ==
  ASSUME NEW s, NEW k, Consistent(s, k), s.count = 0
  PROVE  s.active = {} /\ \A p \in Pod : s.runs[p] = 0
  <1>1. IsFiniteSet(s.active)
    BY ActiveFinite DEF Consistent, Bookkeeping
  <1>2. s.active = {}
    BY <1>1, FS_EmptySet DEF Consistent
  <1>3. QED
    BY <1>2 DEF Consistent

(* When the finally block, or a cleared entry, resolves a drain() promise,   *)
(* the queue is empty and idle after the step, processNext included.         *)
LEMMA ResolvedIsIdle ==
  ASSUME NEW s, NEW k, Consistent(s, k), CheckDrain(s), Now' = ProcessNext(s),
         NEW d \in Drainer, drains[d] # "resolved", drains'[d] = "resolved"
  PROVE  queue' = <<>> /\ \A p \in Pod : runs'[p] = 0
  <1>1. s.count = 0 /\ s.queue = <<>>
    BY DEF CheckDrain
  <1>2. Now' = s
    BY <1>1 DEF ProcessNext
  <1>3. queue' = s.queue /\ runs' = s.runs
    BY <1>2 DEF Now
  <1>4. QED
    BY <1>1, <1>3, DrainedIsIdle

(* drain() never resolves while a pod waits or a call that can still settle  *)
(* is in progress, a deferred requeue included (pod-queue.ts:22, 105-110).   *)
THEOREM QueueDrainWaits == Spec => DrainWaits
  <1>1. ASSUME IInv, [Next]_queueVars, NEW d \in Drainer,
               drains[d] # "resolved", drains'[d] = "resolved"
        PROVE  queue' = <<>> /\ \A p \in Pod : runs'[p] = 0
    <2>1. Consistent(Now, stuck) /\ Now \in Bookkeeping /\ stuck \subseteq Pod
      BY <1>1 DEF IInv, Consistent, Bookkeeping
    <2>2. ASSUME NEW p \in Pod, Finish(p)
          PROVE  queue' = <<>> /\ \A q \in Pod : runs'[q] = 0
      <3>1. Now.runs[p] > 0
        BY <2>2 DEF Finish, Now
      <3>2. Consistent(Released(Now, p), stuck)
        BY <2>1, <3>1, ReleasedConsistent
      <3>3. Consistent(ProcessNext(Released(Now, p)), stuck)
        BY <3>2, NextConsistent
      <3>4. Now' = ProcessNext(Released(Now, p))
        BY <2>2, <3>3, BecomeNow DEF Finish, Consistent
      <3>5. QED
        BY <1>1, <2>2, <3>2, <3>4, ResolvedIsIdle DEF Finish
    <2>3. ASSUME NEW p \in Pod, ClearStuckEntry(p)
          PROVE  queue' = <<>> /\ \A q \in Pod : runs'[q] = 0
      <3>1. p \in stuck
        BY <2>3 DEF ClearStuckEntry
      <3>2. Consistent(Cleared(Now, p), stuck \ {p})
        BY <2>1, <3>1, ClearedConsistent
      <3>3. Consistent(ProcessNext(Cleared(Now, p)), stuck \ {p})
        BY <3>2, NextConsistent
      <3>4. Now' = ProcessNext(Cleared(Now, p))
        BY <2>3, <3>3, BecomeNow DEF ClearStuckEntry, Consistent
      <3>5. QED
        BY <1>1, <2>3, <3>2, <3>4, ResolvedIsIdle DEF ClearStuckEntry
    <2>4. ASSUME NEW e \in Drainer, Drain(e)
          PROVE  queue' = <<>> /\ \A q \in Pod : runs'[q] = 0
      <3>1. activeCount = 0 /\ queue = <<>> /\ queue' = queue /\ runs' = runs
        BY <1>1, <2>4 DEF Drain, IInv
      <3>2. QED
        BY <2>1, <3>1, DrainedIsIdle DEF Now
    <2>5. ~ \E p \in Pod : Enqueue(p) \/ RequeueAfterCurrent(p) \/ Wedge(p)
      BY <1>1 DEF Enqueue, RequeueAfterCurrent, Wedge
    <2>6. ~ UNCHANGED queueVars
      BY <1>1 DEF queueVars
    <2>7. QED
      BY <1>1, <2>2, <2>3, <2>4, <2>5, <2>6 DEF Next
  <1>2. IInv /\ [Next]_queueVars
          => [\A d \in Drainer : drains[d] # "resolved" /\ drains'[d] = "resolved"
                => queue' = <<>> /\ \A p \in Pod : runs'[p] = 0]_queueVars
    BY <1>1
  <1>3. QED
    BY <1>2, QueueInvariant, PTL DEF Spec, DrainWaits
----------------------------------------------------------------------------
(* The dispatcher counts as the queue does.                                 *)
LEMMA SameCardinality ==
  ASSUME NEW S
  PROVE  Dispatch!Cardinality(S) = Cardinality(S)
  BY DEF Dispatch!Cardinality, Cardinality

(* processNext is the dispatcher's Fill: it moves at most one waiting pod,   *)
(* and leaves a pod waiting only if every slot is taken.                     *)
LEMMA NextFills ==
  ASSUME NEW s, NEW k, Consistent(s, k), Now' = ProcessNext(s)
  PROVE  Dispatch!Fill(Waiting(s.queue), s.active)
  <1>1. /\ s.queue \in Seq(Pod) /\ s.count \in Nat /\ NoDuplicates(s.queue)
        /\ s.count = Cardinality(s.active) /\ MaxConcurrency \in Nat
    BY QueueAssumption DEF Consistent, Bookkeeping, QueueAssumption
  <1>2. queue' = ProcessNext(s).queue /\ activeIds' = ProcessNext(s).active
    BY DEF Now
  <1>3. CASE s.count >= MaxConcurrency \/ s.queue = <<>>
    <2>1. queue' = s.queue /\ activeIds' = s.active
      BY <1>2, <1>3 DEF ProcessNext
    <2>2. s.queue = <<>> => Waiting(s.queue) = {}
      BY DEF Waiting
    <2>3. Waiting(queue)' = Waiting(s.queue)
      BY <2>1 DEF Waiting
    <2>4. Cardinality(s.active) >= MaxConcurrency \/ Waiting(s.queue) = {}
      BY <1>1, <1>3, <2>2
    <2>5. QED
      BY <2>1, <2>3, <2>4, SameCardinality DEF Dispatch!Fill
  <1>4. CASE ~(s.count >= MaxConcurrency \/ s.queue = <<>>)
    <2>1. queue' = Tail(s.queue) /\ activeIds' = s.active \cup {Head(s.queue)}
      BY <1>2, <1>4 DEF ProcessNext
    <2>2. Head(s.queue) \in Waiting(s.queue)
          /\ Waiting(Tail(s.queue)) = Waiting(s.queue) \ {Head(s.queue)}
      BY <1>1, <1>4, TailWaiting
    <2>3. Cardinality(s.active) < MaxConcurrency
      BY <1>1, <1>4
    <2>4. Waiting(queue)' = Waiting(Tail(s.queue))
      BY <2>1 DEF Waiting
    <2>5. QED
      BY <2>1, <2>2, <2>3, <2>4, SameCardinality DEF Dispatch!Fill
  <1>5. QED
    BY <1>3, <1>4

(* Every step of the queue is a step of the dispatcher it promises to be, or *)
(* changes nothing the dispatcher knows of (pod-queue.ts:46-98).             *)
THEOREM QueueImplementsDispatch == Spec => ImplementsDispatch
  <1>1. Init => Dispatch!Init
    BY DEF Init, Dispatch!Init, Waiting
  <1>2. IInv /\ [Next]_queueVars => [Dispatch!Next]_(Dispatch!dispatchVars)
    <2> SUFFICES ASSUME IInv, [Next]_queueVars
                 PROVE  [Dispatch!Next]_(Dispatch!dispatchVars)
      OBVIOUS
    <2>1. /\ Now \in Bookkeeping /\ Consistent(Now, stuck)
          /\ queue \in Seq(Pod) /\ Waiting(queue) \cap activeIds = {}
          /\ Now.queue = queue /\ Now.active = activeIds
      BY DEF IInv, Consistent, Bookkeeping, Now
    <2>2. ASSUME NEW p \in Pod, Enqueue(p)
          PROVE  Dispatch!Request(p)
      <3> DEFINE s == IF p \notin Waiting(queue) /\ p \notin activeIds
                      THEN Pushed(Now, p) ELSE Now
      <3>1. Consistent(s, stuck)
        BY <2>1, PushedConsistent
      <3>2. Enqueued(Now, p) = ProcessNext(s)
        BY <2>1 DEF Enqueued
      <3>3. /\ s.active = activeIds
            /\ Waiting(s.queue) = IF p \in activeIds THEN Waiting(queue)
                                   ELSE Waiting(queue) \cup {p}
        BY <2>1, AppendWaiting DEF Pushed, Now
      <3> HIDE DEF s
      <3>4. Now' = ProcessNext(s)
        BY <2>2, <3>1, <3>2, NextConsistent, BecomeNow DEF Enqueue, Consistent
      <3>5. Dispatch!Fill(Waiting(s.queue), s.active)
        BY <3>1, <3>4, NextFills
      <3>6. QED
        BY <2>2, <3>3, <3>5 DEF Enqueue, Dispatch!Request
    <2>3. ASSUME NEW p \in Pod, RequeueAfterCurrent(p)
          PROVE  Dispatch!Request(p) \/ Dispatch!RequestAgain(p)
      <3>1. CASE p \in activeIds
        <4>1. Now' = ProcessNext(Now)
          BY <2>1, <2>3, <3>1, NextConsistent, BecomeNow DEF RequeueAfterCurrent, Consistent
        <4>2. Dispatch!Fill(Waiting(queue), activeIds)
          BY <2>1, <4>1, NextFills
        <4>3. QED
          BY <2>3, <3>1, <4>2 DEF RequeueAfterCurrent, Dispatch!RequestAgain
      <3>2. CASE p \notin activeIds
        <4> DEFINE s == IF p \notin Waiting(queue) THEN Pushed(Now, p) ELSE Now
        <4>1. Consistent(s, stuck)
          BY <2>1, <3>2, PushedConsistent
        <4>2. s.active = activeIds /\ Waiting(s.queue) = Waiting(queue) \cup {p}
          BY <2>1, AppendWaiting DEF Pushed, Now
        <4>3. Now' = ProcessNext(s)
          BY <2>3, <3>2, <4>1, NextConsistent, BecomeNow DEF RequeueAfterCurrent, Consistent
        <4> HIDE DEF s
        <4>4. Dispatch!Fill(Waiting(s.queue), s.active)
          BY <4>1, <4>3, NextFills
        <4>5. QED
          BY <2>3, <3>2, <4>2, <4>4 DEF RequeueAfterCurrent, Dispatch!Request
      <3>3. QED
        BY <3>1, <3>2
    <2>4. ASSUME NEW p \in Pod, Finish(p)
          PROVE  Dispatch!Release(p)
      <3>1. Now.runs[p] > 0
        BY <2>4 DEF Finish, Now
      <3>2. p \in activeIds
        BY <2>1, <3>1 DEF Consistent
      <3>3. Consistent(Released(Now, p), stuck)
        BY <2>1, <3>1, ReleasedConsistent
      <3>4. Now' = ProcessNext(Released(Now, p))
        BY <2>4, <3>3, NextConsistent, BecomeNow DEF Finish, Consistent
      <3>5. Dispatch!Fill(Waiting(Released(Now, p).queue), Released(Now, p).active)
        BY <3>3, <3>4, NextFills
      <3>6. /\ Released(Now, p).active = activeIds \ {p}
            /\ Waiting(Released(Now, p).queue)
                 = IF p \in deferredRequeues THEN Waiting(queue) \cup {p} ELSE Waiting(queue)
        <4> DEFINE freed == [Now EXCEPT !.active = @ \ {p}, !.count = @ - 1,
                                        !.runs = [Now.runs EXCEPT ![p] = Now.runs[p] - 1]]
        <4>1. freed.active = activeIds \ {p} /\ freed.queue = queue
          BY DEF Now
        <4>2. Pushed(freed, p).active = activeIds \ {p}
              /\ Pushed(freed, p).queue = Append(queue, p)
          BY <4>1 DEF Pushed, Now
        <4>3. Waiting(Append(queue, p)) = Waiting(queue) \cup {p}
          BY <2>1, AppendWaiting
        <4>4. Released(Now, p) = IF p \in deferredRequeues /\ p \notin Waiting(queue)
                                 THEN Pushed(freed, p) ELSE freed
          BY <2>1 DEF Released
        <4> HIDE DEF freed
        <4>5. QED
          BY <4>1, <4>2, <4>3, <4>4
      <3>7. QED
        BY <2>4, <3>2, <3>5, <3>6 DEF Finish, Dispatch!Release
    <2>5. ASSUME NEW p \in Pod, ClearStuckEntry(p)
          PROVE  Dispatch!Evict(p)
      <3>1. p \in stuck /\ p \in activeIds
        BY <2>5 DEF ClearStuckEntry
      <3>2. Consistent(Cleared(Now, p), stuck \ {p})
        BY <2>1, <3>1, ClearedConsistent
      <3>3. Now' = ProcessNext(Cleared(Now, p))
        BY <2>5, <3>2, NextConsistent, BecomeNow DEF ClearStuckEntry, Consistent
      <3>4. Dispatch!Fill(Waiting(Cleared(Now, p).queue), Cleared(Now, p).active)
        BY <3>2, <3>3, NextFills
      <3>5. Cleared(Now, p).active = activeIds \ {p} /\ Cleared(Now, p).queue = queue
        BY DEF Cleared, Now
      <3>6. QED
        BY <2>5, <3>1, <3>4, <3>5 DEF ClearStuckEntry, Dispatch!Evict
    <2>6. ASSUME \/ \E p \in Pod : Wedge(p)
                 \/ \E d \in Drainer : Drain(d)
                 \/ UNCHANGED queueVars
          PROVE  UNCHANGED Dispatch!dispatchVars
      BY <2>6 DEF Wedge, Drain, queueVars, Dispatch!dispatchVars
    <2>7. QED
      BY <2>2, <2>3, <2>4, <2>5, <2>6 DEF Next, Dispatch!Next
  <1>3. QED
    BY <1>1, <1>2, QueueInvariant, PTL DEF Spec, ImplementsDispatch, Dispatch!Spec
=============================================================================
