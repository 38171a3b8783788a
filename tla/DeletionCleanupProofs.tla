------------------------ MODULE DeletionCleanupProofs ------------------------
(* For any number of delete requests, steps, attempts, configuration edits   *)
(* and crashes, the receipts keep the cleanups of a pod apart from each      *)
(* other and from the worker runs of its task.                               *)
EXTENDS DeletionCleanup, WellFoundedInduction, TLAPS

\* A request whose backend calls are in progress.
Calling(c) == calls[c].at = "calling"

\* Calls in progress belong to an unsettled attempt, there is at most one, and it
\* implies an open intent, which keeps worker runs out.
Fenced ==
  /\ \A a \in InFlight : a \in Unsettled
  /\ \A a, b \in Unsettled : a = b
  /\ Unsettled # {} => intent = "open"
  /\ intent = "open" => ~workers.open

\* A request in progress is the one that holds its attempt; who was answered
\* early is still in progress.
Owned ==
  /\ \A c \in Caller : Calling(c) => calls[c].attempt \in InFlight
  /\ \A c, d \in Caller : Calling(c) /\ Calling(d) => c = d
  /\ \A c \in Caller : calls[c].late => Calling(c)

\* Receipts tell the truth and the intent is closed by all of them.
Evidenced ==
  /\ receipts \subseteq cleaned
  /\ intent = "done" => receipts = Step /\ Unsettled = {}

\* The inductive invariant.
IInv == TypeOK /\ Fenced /\ Owned /\ Evidenced

(* A step that still lacks a receipt is found.                              *)
LEMMA MinStep ==
  ASSUME NEW D \in SUBSET Step, D # {}
  PROVE  Min(D) \in D
  <1>1. D \subseteq Nat
    BY DEF Step
  <1>2. \E x \in D : \A y \in D : ~(<<y, x>> \in OpToRel(<, Nat))
    BY <1>1, WFMin, NatLessThanWellFounded, Zenon
  <1>3. \A x, y \in D : ~(<<y, x>> \in OpToRel(<, Nat)) => ~(y < x)
    BY <1>1 DEF OpToRel
  <1>4. \E x \in D : \A y \in D : x <= y
    <2>1. PICK x \in D : \A y \in D : ~(<<y, x>> \in OpToRel(<, Nat))
      BY <1>2
    <2>2. \A y \in D : ~(y < x)
      BY <1>3, <2>1
    <2>3. QED
      BY <1>1, <2>2
  <1>5. QED
    BY <1>4, Zenon DEF Min

\* What a request looks like in the daemon's memory.
CallRecord == [at : {"idle", "calling", "cleaned"}, attempt : Attempt \cup {None}, late : BOOLEAN]

\* The loop calls the backend for a step without receipt, in time.
GoesOn(c, a, id, done) ==
  \E s \in Step \ done :
     /\ config = id
     /\ flight' = [flight EXCEPT ![a] = s]
     /\ calls' = [calls EXCEPT ![c] = [at |-> "calling", attempt |-> a, late |-> FALSE]]
     /\ attempts' = [attempts EXCEPT ![a] = "open"]

\* The loop ends with its attempt settled and nothing in flight.
Ends(c, a) ==
  \E r \in CallRecord :
     /\ r.at # "calling" /\ r.late = FALSE
     /\ flight' = [flight EXCEPT ![a] = None]
     /\ calls' = [calls EXCEPT ![c] = r]
     /\ attempts' = [attempts EXCEPT ![a] = "settled"]

(* The loop goes on or ends: a step that lacks a receipt is found in order.  *)
LEMMA ContinueCases ==
  ASSUME NEW c, NEW a \in Attempt, NEW late \in BOOLEAN, NEW id, NEW done \in SUBSET Step,
         Continue(c, a, late, id, done)
  PROVE  GoesOn(c, a, id, done) \/ Ends(c, a)
  <1>1. CASE Current(late, id) /\ NextStep(done) # None
    <2>1. late = FALSE /\ config = id
      BY <1>1 DEF Current
    <2>2. done # Step /\ NextStep(done) = Min(Step \ done)
      BY <1>1 DEF NextStep
    <2>3. NextStep(done) \in Step \ done
      BY <2>2, MinStep
    <2>4. QED
      BY <1>1, <2>1, <2>3 DEF Continue, GoesOn
  <1>2. CASE ~(Current(late, id) /\ NextStep(done) # None)
    <2> DEFINE r == IF Current(late, id) THEN [at |-> "cleaned", attempt |-> a, late |-> FALSE]
                    ELSE Idle
    <2>1. r \in CallRecord /\ r.at # "calling" /\ r.late = FALSE
      BY DEF CallRecord, Idle
    <2>2. /\ flight' = [flight EXCEPT ![a] = None]
          /\ calls' = [calls EXCEPT ![c] = r]
          /\ attempts' = [attempts EXCEPT ![a] = "settled"]
      BY <1>2 DEF Continue
    <2> HIDE DEF r
    <2>3. QED
      BY <2>1, <2>2 DEF Ends
  <1>3. QED
    BY <1>1, <1>2

(* What the loop does to the attempt of a request that alone may be in       *)
(* progress keeps calls fenced by attempts and attempts owned by requests.   *)
LEMMA ContinueKeeps ==
  ASSUME NEW c \in Caller, NEW a \in Attempt, NEW late \in BOOLEAN, NEW id,
         NEW done \in SUBSET Step, Continue(c, a, late, id, done), TypeOK, Fenced, Owned,
         \A b \in Unsettled : b = a,
         \A d \in Caller : Calling(d) => d = c,
         intent' = "open", ~workers.open, workers' = workers
  PROVE  /\ calls' \in [Caller -> CallRecord]
         /\ attempts' \in [Attempt -> {"unused", "open", "settled"}]
         /\ flight' \in [Attempt -> Step \cup {None}]
         /\ Fenced' /\ Owned'
  <1>1. /\ calls \in [Caller -> CallRecord]
        /\ attempts \in [Attempt -> {"unused", "open", "settled"}]
        /\ flight \in [Attempt -> Step \cup {None}]
    BY DEF TypeOK, CallRecord
  <1>2. CASE GoesOn(c, a, id, done)
    <2>1. PICK s \in Step \ done :
              /\ flight' = [flight EXCEPT ![a] = s]
              /\ calls' = [calls EXCEPT ![c] = [at |-> "calling", attempt |-> a, late |-> FALSE]]
              /\ attempts' = [attempts EXCEPT ![a] = "open"]
      BY <1>2 DEF GoesOn
    <2>2. [at |-> "calling", attempt |-> a, late |-> FALSE] \in CallRecord
      BY DEF CallRecord
    <2>3. /\ calls' \in [Caller -> CallRecord]
          /\ attempts' \in [Attempt -> {"unused", "open", "settled"}]
          /\ flight' \in [Attempt -> Step \cup {None}]
      BY <1>1, <2>1, <2>2
    <2>4. s # None
      BY DEF Step, None
    <2>5. Fenced'
      BY <1>1, <2>1, <2>4 DEF Fenced, InFlight, Unsettled
    <2>6. Owned'
      BY <1>1, <2>1, <2>4 DEF Owned, InFlight, Calling
    <2>7. QED
      BY <2>3, <2>5, <2>6
  <1>3. CASE Ends(c, a)
    <2>1. PICK r \in CallRecord :
              /\ r.at # "calling" /\ r.late = FALSE
              /\ flight' = [flight EXCEPT ![a] = None]
              /\ calls' = [calls EXCEPT ![c] = r]
              /\ attempts' = [attempts EXCEPT ![a] = "settled"]
      BY <1>3 DEF Ends
    <2>2. /\ calls' \in [Caller -> CallRecord]
          /\ attempts' \in [Attempt -> {"unused", "open", "settled"}]
          /\ flight' \in [Attempt -> Step \cup {None}]
      BY <1>1, <2>1
    <2>3. Fenced'
      BY <1>1, <2>1 DEF Fenced, InFlight, Unsettled
    <2>4. Owned'
      BY <1>1, <2>1 DEF Owned, InFlight, Calling
    <2>5. QED
      BY <2>2, <2>3, <2>4
  <1>4. QED
    BY <1>2, <1>3, ContinueCases
----------------------------------------------------------------------------
(* The invariant holds in the initial state.                                *)
LEMMA InitInv == Init => IInv
  <1> SUFFICES ASSUME Init PROVE IInv
    OBVIOUS
  <1>1. Idle \in CallRecord
    BY DEF Idle, CallRecord
  <1>2. TypeOK
    BY <1>1, CleanupAssumption DEF Init, TypeOK, CallRecord, CleanupAssumption
  <1>3. Fenced /\ Owned /\ Evidenced
    BY DEF Init, Fenced, Owned, Evidenced, Calling, Idle, InFlight, Unsettled
  <1>4. QED
    BY <1>2, <1>3 DEF IInv

(* A new delete request finds every other one over.                         *)
LEMMA DeleteInv == ASSUME IInv, NEW c \in Caller, Delete(c) PROVE IInv'
  <1>1. PICK a \in Attempt : attempts[a] = "unused" /\ Continue(c, a, FALSE, config, receipts)
    BY DEF Delete
  <1>2. /\ Unsettled = {} /\ \A d \in Caller : ~Calling(d)
        /\ intent' = "open" /\ ~workers.open /\ workers' = workers
    BY DEF Delete, IInv, Fenced, Owned
  <1>3. receipts \in SUBSET Step
    BY DEF IInv, TypeOK
  <1>4. /\ calls' \in [Caller -> CallRecord]
        /\ attempts' \in [Attempt -> {"unused", "open", "settled"}]
        /\ flight' \in [Attempt -> Step \cup {None}]
        /\ Fenced' /\ Owned'
    BY <1>1, <1>2, <1>3, ContinueKeeps DEF IInv
  <1>5. TypeOK'
    BY <1>4 DEF Delete, IInv, TypeOK, CallRecord
  <1>6. Evidenced'
    BY DEF Delete, IInv, Evidenced
  <1>7. QED
    BY <1>4, <1>5, <1>6 DEF IInv

(* A step that returns belongs to the only request in progress.             *)
LEMMA StepReturnsInv == ASSUME IInv, NEW c \in Caller, StepReturns(c) PROVE IInv'
  <1> DEFINE a == calls[c].attempt
             done == IF config = identity THEN receipts \cup {flight[a]} ELSE receipts
  <1>1. a \in InFlight /\ a \in Unsettled /\ Calling(c)
    BY DEF StepReturns, IInv, Owned, Fenced, Calling
  <1>2. a \in Attempt /\ flight[a] \in Step
    BY <1>1 DEF IInv, TypeOK, InFlight
  <1>3. done \in SUBSET Step
    BY <1>2 DEF IInv, TypeOK
  <1>4. receipts' = done /\ cleaned' = cleaned \cup {flight[a]}
    BY DEF StepReturns
  <1>5. PICK late \in {calls[c].late, TRUE} : Continue(c, a, late, identity, done)
    BY DEF StepReturns
  <1>6. late \in BOOLEAN
    BY <1>5 DEF IInv, TypeOK
  <1>7. /\ intent = "open" /\ intent' = "open" /\ ~workers.open /\ workers' = workers
        /\ \A b \in Unsettled : b = a
        /\ \A d \in Caller : Calling(d) => d = c
    BY <1>1 DEF StepReturns, IInv, Fenced, Owned
  <1> HIDE DEF a
  <1>8. /\ calls' \in [Caller -> CallRecord]
        /\ attempts' \in [Attempt -> {"unused", "open", "settled"}]
        /\ flight' \in [Attempt -> Step \cup {None}]
        /\ Fenced' /\ Owned'
    <2> HIDE DEF done
    <2> QED
      BY <1>2, <1>3, <1>5, <1>6, <1>7, ContinueKeeps DEF IInv
  <1>9. TypeOK'
    BY <1>2, <1>3, <1>4, <1>8 DEF StepReturns, IInv, TypeOK, CallRecord
  <1>10. Evidenced'
    BY <1>4, <1>7 DEF IInv, Evidenced
  <1>11. QED
    BY <1>8, <1>9, <1>10 DEF IInv

(* A step that fails settles its attempt.                                   *)
LEMMA StepFailsInv == ASSUME IInv, NEW c \in Caller, StepFails(c) PROVE IInv'
  <1> DEFINE a == calls[c].attempt
  <1>1. a \in InFlight /\ a \in Unsettled /\ Calling(c) /\ intent = "open"
    BY DEF StepFails, IInv, Owned, Fenced, Calling
  <1>2. a \in Attempt /\ flight[a] \in Step
    BY <1>1 DEF IInv, TypeOK, InFlight
  <1>3. /\ attempts' = [attempts EXCEPT ![a] = "settled"]
        /\ flight' = [flight EXCEPT ![a] = None]
        /\ cleaned' \in {cleaned, cleaned \cup {flight[a]}}
        /\ calls' = [calls EXCEPT ![c] = Idle]
        /\ UNCHANGED <<intent, identity, receipts, config, workers, crashes>>
    BY DEF StepFails
  <1> HIDE DEF a
  <1>4. Idle \in CallRecord
    BY DEF Idle, CallRecord
  <1>5. TypeOK'
    BY <1>2, <1>3, <1>4 DEF IInv, TypeOK, CallRecord
  <1>6. Fenced'
    BY <1>1, <1>2, <1>3 DEF IInv, TypeOK, Fenced, InFlight, Unsettled
  <1>7. Owned'
    BY <1>1, <1>3 DEF IInv, TypeOK, Owned, Calling, Idle
  <1>8. Evidenced'
    BY <1>1, <1>3 DEF IInv, Evidenced
  <1>9. QED
    BY <1>5, <1>6, <1>7, <1>8 DEF IInv

(* Answering a request at its deadline changes nothing but that.            *)
LEMMA TimeoutInv == ASSUME IInv, NEW c \in Caller, Timeout(c) PROVE IInv'
  <1>1. /\ calls' = [calls EXCEPT ![c].late = TRUE]
        /\ UNCHANGED <<intent, identity, attempts, receipts, flight, cleaned, config, workers,
                       crashes>>
        /\ Calling(c)
    BY DEF Timeout, Calling
  <1>2. TypeOK'
    BY <1>1 DEF IInv, TypeOK
  <1>3. Fenced'
    BY <1>1 DEF IInv, Fenced, InFlight, Unsettled
  <1>4. \A d \in Caller : calls'[d].at = calls[d].at /\ calls'[d].attempt = calls[d].attempt
                          /\ (calls'[d].late => calls[d].late \/ d = c)
    BY <1>1 DEF IInv, TypeOK
  <1>5. Owned'
    BY <1>1, <1>4 DEF IInv, Owned, Calling, InFlight
  <1>6. Evidenced'
    BY <1>1 DEF IInv, Evidenced, Unsettled
  <1>7. QED
    BY <1>2, <1>3, <1>5, <1>6 DEF IInv

(* The intent is only closed with all receipts and nothing unsettled.       *)
LEMMA FinishInv == ASSUME IInv, NEW c \in Caller, Finish(c) PROVE IInv'
  <1>1. /\ calls[c].at = "cleaned" /\ calls' = [calls EXCEPT ![c] = Idle]
        /\ UNCHANGED <<identity, attempts, receipts, flight, cleaned, config, workers, crashes>>
        /\ \/ intent' = intent
           \/ intent' = "done" /\ receipts = Step /\ Unsettled = {}
    BY DEF Finish
  <1>2. Idle \in CallRecord
    BY DEF Idle, CallRecord
  <1>3. TypeOK'
    BY <1>1, <1>2 DEF IInv, TypeOK, CallRecord
  <1>4. Unsettled' = Unsettled /\ InFlight' = InFlight
    BY <1>1 DEF Unsettled, InFlight
  <1>5. Fenced'
    BY <1>1, <1>4 DEF IInv, Fenced
  <1>6. \A d \in Caller : Calling(d)' => Calling(d) /\ calls'[d] = calls[d]
    BY <1>1 DEF IInv, TypeOK, Calling, Idle
  <1>7. \A d \in Caller : calls'[d].late => calls[d].late /\ calls'[d] = calls[d]
    BY <1>1 DEF IInv, TypeOK, Idle
  <1>8. Owned'
    BY <1>4, <1>6, <1>7 DEF IInv, Owned, Calling
  <1>9. Evidenced'
    BY <1>1, <1>4 DEF IInv, Evidenced
  <1>10. QED
    BY <1>3, <1>5, <1>8, <1>9 DEF IInv

(* Calls a crash left behind end without anybody to settle their attempt.   *)
LEMMA OrphanEndsInv == ASSUME IInv, NEW a \in Attempt, OrphanEnds(a) PROVE IInv'
  <1>1. /\ flight[a] # None /\ flight' = [flight EXCEPT ![a] = None]
        /\ \A c \in Caller : Calling(c) => calls[c].attempt # a
        /\ cleaned' \in {cleaned, cleaned \cup {flight[a]}}
        /\ UNCHANGED <<intent, identity, attempts, receipts, calls, config, workers, crashes>>
    BY DEF OrphanEnds, Calling
  <1>2. TypeOK'
    BY <1>1 DEF IInv, TypeOK
  <1>3. Fenced'
    BY <1>1 DEF IInv, TypeOK, Fenced, InFlight, Unsettled
  <1>4. \A c \in Caller : Calling(c) => flight'[calls[c].attempt] = flight[calls[c].attempt]
    BY <1>1 DEF IInv, TypeOK
  <1>5. Owned'
    BY <1>1, <1>4 DEF IInv, Owned, Calling, InFlight
  <1>6. Evidenced'
    BY <1>1 DEF IInv, Evidenced, Unsettled
  <1>7. QED
    BY <1>2, <1>3, <1>5, <1>6 DEF IInv

(* Configuration edits and the task's worker runs do not touch a cleanup.   *)
LEMMA WorldInv == ASSUME IInv, EditConfig \/ BeginRun \/ FinishRun PROVE IInv'
  <1>1. /\ UNCHANGED <<intent, identity, attempts, receipts, calls, flight, cleaned, crashes>>
        /\ config' \in 0..MaxConfig
        /\ workers' \in [count : 0..MaxWorkers, open : BOOLEAN]
        /\ intent = "open" => ~workers'.open
    <2>1. CASE EditConfig
      BY <2>1 DEF EditConfig, IInv, TypeOK, Fenced
    <2>2. CASE BeginRun
      BY <2>2, CleanupAssumption DEF BeginRun, IInv, TypeOK, Fenced, CleanupAssumption
    <2>3. CASE FinishRun
      BY <2>3 DEF FinishRun, IInv, TypeOK, Fenced
    <2>4. QED
      BY <2>1, <2>2, <2>3
  <1>2. TypeOK'
    BY <1>1 DEF IInv, TypeOK
  <1>3. Unsettled' = Unsettled /\ InFlight' = InFlight
    BY <1>1 DEF Unsettled, InFlight
  <1>4. QED
    BY <1>1, <1>2, <1>3 DEF IInv, Fenced, Owned, Evidenced, Calling

(* A crash forgets the requests; their attempts stay unsettled.             *)
LEMMA CrashInv == ASSUME IInv, Crash PROVE IInv'
  <1>1. /\ calls' = [c \in Caller |-> Idle]
        /\ crashes' = crashes + 1 /\ crashes < MaxCrashes
        /\ UNCHANGED <<intent, identity, attempts, receipts, flight, cleaned, config, workers>>
    BY DEF Crash
  <1>2. TypeOK'
    BY <1>1, CleanupAssumption DEF IInv, TypeOK, Idle, CleanupAssumption
  <1>3. Unsettled' = Unsettled /\ InFlight' = InFlight
    BY <1>1 DEF Unsettled, InFlight
  <1>4. Owned'
    BY <1>1 DEF Owned, Calling, Idle
  <1>5. QED
    BY <1>1, <1>2, <1>3, <1>4 DEF IInv, Fenced, Evidenced

(* Stuttering changes nothing.                                              *)
LEMMA StutterInv == ASSUME IInv, UNCHANGED cleanupVars PROVE IInv'
  BY DEF cleanupVars, IInv, TypeOK, Fenced, Owned, Evidenced, InFlight, Unsettled, Calling

(* The fences hold in every reachable state of a deletion.                  *)
THEOREM CleanupInvariant == Spec => []IInv
  <1>1. IInv /\ [Next]_cleanupVars => IInv'
    BY DeleteInv, StepReturnsInv, StepFailsInv, TimeoutInv, FinishInv, OrphanEndsInv, WorldInv,
       CrashInv, StutterInv DEF Next
  <1>2. QED
    BY <1>1, InitInv, PTL DEF Spec
----------------------------------------------------------------------------
(* The types of the deletion's rows and requests.                           *)
THEOREM CleanupTypeOK == Spec => []TypeOK
  BY CleanupInvariant, PTL DEF IInv

(* At any moment at most one attempt has backend calls in progress, whatever *)
(* was retried, timed out or crashed (deletion-ownership.ts:62-116).         *)
THEOREM CleanupOneAtATime == Spec => []OneCleanupAtATime
  <1>1. IInv => OneCleanupAtATime
    BY DEF IInv, Fenced, OneCleanupAtATime
  <1>2. QED
    BY <1>1, CleanupInvariant, PTL

(* No worker run of the task is unsettled while cleanup calls are in         *)
(* progress, answered or orphaned ones included (182 sql:44-47).             *)
THEOREM CleanupWithoutRuns == Spec => []NoRunDuringCleanup
  <1>1. IInv => NoRunDuringCleanup
    BY DEF IInv, Fenced, NoRunDuringCleanup
  <1>2. QED
    BY <1>1, CleanupInvariant, PTL

(* A removed pod has left no resource and no call behind (182 sql:51-55).   *)
THEOREM CleanupDeletedIsClean == Spec => []DeletedIsClean
  <1>1. IInv => DeletedIsClean
    BY DEF IInv, TypeOK, Fenced, Evidenced, DeletedIsClean
  <1>2. QED
    BY <1>1, CleanupInvariant, PTL

(* Whatever calls the backend next does it for a step without receipt, on    *)
(* the recorded resources, for a request nobody answered yet                 *)
(* (deletion-cleanup.ts:178-194).                                            *)
THEOREM CleanupCallsAreCurrent == Spec => CallsAreCurrent
  <1> DEFINE CallCurrent(a) ==
               flight'[a] # None /\ flight'[a] # flight[a]
               => /\ flight'[a] \notin receipts'
                  /\ config' = identity'
                  /\ \A c \in Caller : calls'[c].attempt = a => ~calls'[c].late
  <1>1. ASSUME IInv, IInv', NEW c \in Caller, NEW e \in Attempt, NEW late \in BOOLEAN, NEW id,
               NEW done \in SUBSET Step, Continue(c, e, late, id, done),
               receipts' = done, identity' = id, config' = config, NEW a \in Attempt
        PROVE  CallCurrent(a)
    <2>1. CASE GoesOn(c, e, id, done)
      <3>1. PICK s \in Step \ done :
              /\ config = id
              /\ flight' = [flight EXCEPT ![e] = s]
              /\ calls' = [calls EXCEPT ![c] = [at |-> "calling", attempt |-> e, late |-> FALSE]]
        BY <2>1 DEF GoesOn
      <3>2. flight'[a] = IF a = e THEN s ELSE flight[a]
        BY <3>1, <1>1 DEF IInv, TypeOK
      <3>3. calls'[c].late = FALSE /\ calls'[c].at = "calling"
        BY <3>1, <1>1 DEF IInv, TypeOK
      <3>4. \A d \in Caller : ~calls'[d].late
        BY <1>1, <3>3 DEF IInv, Owned, Calling
      <3>5. QED
        BY <1>1, <3>1, <3>2, <3>4
    <2>2. CASE Ends(c, e)
      <3>1. flight' = [flight EXCEPT ![e] = None]
        BY <2>2 DEF Ends
      <3>2. flight'[a] = IF a = e THEN None ELSE flight[a]
        BY <3>1, <1>1 DEF IInv, TypeOK
      <3>3. QED
        BY <3>2
    <2>3. QED
      BY <1>1, <2>1, <2>2, ContinueCases
  <1>2. ASSUME IInv, IInv', [Next]_cleanupVars, NEW a \in Attempt
        PROVE  CallCurrent(a)
    <2>1. ASSUME NEW c \in Caller, Delete(c) PROVE CallCurrent(a)
      <3>1. PICK e \in Attempt : Continue(c, e, FALSE, config, receipts)
        BY <2>1 DEF Delete
      <3>2. receipts' = receipts /\ identity' = config /\ config' = config
            /\ receipts \in SUBSET Step
        BY <1>2, <2>1 DEF Delete, IInv, TypeOK
      <3>3. QED
        BY <1>1, <1>2, <3>1, <3>2
    <2>2. ASSUME NEW c \in Caller, StepReturns(c) PROVE CallCurrent(a)
      <3>1. calls[c].attempt \in Attempt /\ calls[c].late \in BOOLEAN
            /\ flight[calls[c].attempt] \in Step
        BY <1>2, <2>2 DEF StepReturns, IInv, TypeOK, Owned, Calling, InFlight
      <3>2. PICK late \in {calls[c].late, TRUE} :
              Continue(c, calls[c].attempt, late, identity, receipts')
        BY <2>2 DEF StepReturns
      <3>3. receipts' \in SUBSET Step /\ identity' = identity /\ config' = config
        BY <1>2, <2>2 DEF StepReturns, IInv, TypeOK
      <3>4. late \in BOOLEAN
        BY <3>1, <3>2
      <3>5. QED
        BY <1>1, <1>2, <3>1, <3>2, <3>3, <3>4
    <2>3. ASSUME \/ \E c \in Caller : StepFails(c) \/ Timeout(c) \/ Finish(c)
                 \/ \E b \in Attempt : OrphanEnds(b)
                 \/ EditConfig \/ BeginRun \/ FinishRun \/ Crash
                 \/ UNCHANGED cleanupVars
          PROVE  flight'[a] \in {None, flight[a]}
      BY <1>2, <2>3 DEF StepFails, Timeout, Finish, OrphanEnds, EditConfig, BeginRun, FinishRun,
                        Crash, cleanupVars, IInv, TypeOK
    <2>4. QED
      BY <1>2, <2>1, <2>2, <2>3 DEF Next
  <1>3. IInv /\ IInv' /\ [Next]_cleanupVars => [\A a \in Attempt : CallCurrent(a)]_cleanupVars
    BY <1>2
  <1>4. QED
    BY <1>3, CleanupInvariant, PTL DEF Spec, CallsAreCurrent

(* What the loop does leaves no attempt unsettled but the one its request    *)
(* is calling for.                                                           *)
LEMMA ContinueOwns ==
  ASSUME NEW c \in Caller, NEW a \in Attempt, NEW late \in BOOLEAN, NEW id,
         NEW done \in SUBSET Step, Continue(c, a, late, id, done), TypeOK,
         \A b \in Unsettled : b = a
  PROVE  \A b \in Unsettled' : Calling(c)' /\ calls'[c].attempt = b
  <1>1. calls \in [Caller -> CallRecord] /\ attempts \in [Attempt -> {"unused", "open", "settled"}]
    BY DEF TypeOK, CallRecord
  <1>2. CASE GoesOn(c, a, id, done)
    <2>1. /\ calls' = [calls EXCEPT ![c] = [at |-> "calling", attempt |-> a, late |-> FALSE]]
          /\ attempts' = [attempts EXCEPT ![a] = "open"]
      BY <1>2 DEF GoesOn
    <2>2. QED
      BY <1>1, <2>1 DEF Unsettled, Calling
  <1>3. CASE Ends(c, a)
    <2>1. attempts' = [attempts EXCEPT ![a] = "settled"]
      BY <1>3 DEF Ends
    <2>2. QED
      BY <1>1, <2>1 DEF Unsettled
  <1>4. QED
    BY <1>2, <1>3, ContinueCases

(* Every step but a crash leaves an unsettled attempt with its request.      *)
LEMMA OwnerKept ==
  ASSUME IInv, IInv', UnsettledHasOwner, [Next]_cleanupVars
  PROVE  UnsettledHasOwner'
  <1> SUFFICES ASSUME crashes' = 0, NEW b \in Unsettled'
               PROVE  \E d \in Caller : Calling(d)' /\ calls'[d].attempt = b
    BY DEF UnsettledHasOwner, Calling
  <1> DEFINE Held == \E d \in Caller : Calling(d) /\ calls[d].attempt = b
  <1>1. crashes = 0 /\ b \in Unsettled => Held
    BY DEF UnsettledHasOwner, Calling
  <1>2. ASSUME NEW c \in Caller, Delete(c)
        PROVE  Calling(c)' /\ calls'[c].attempt = b
    <2>1. PICK a \in Attempt : Continue(c, a, FALSE, config, receipts)
      BY <1>2 DEF Delete
    <2>2. Unsettled = {} /\ receipts \in SUBSET Step
      BY <1>2 DEF Delete, IInv, TypeOK
    <2>3. QED
      BY <2>1, <2>2, ContinueOwns DEF IInv
  <1>3. ASSUME NEW c \in Caller, StepReturns(c)
        PROVE  Calling(c)' /\ calls'[c].attempt = b
    <2> DEFINE a == calls[c].attempt
    <2>1. a \in Attempt /\ a \in Unsettled /\ calls[c].late \in BOOLEAN
      BY <1>3 DEF StepReturns, IInv, TypeOK, Owned, Fenced, Calling, InFlight
    <2>2. PICK late \in {calls[c].late, TRUE} : Continue(c, a, late, identity, receipts')
      BY <1>3 DEF StepReturns
    <2>3. receipts' \in SUBSET Step /\ late \in BOOLEAN /\ \A e \in Unsettled : e = a
      BY <2>1, <2>2 DEF IInv, TypeOK, Fenced
    <2> HIDE DEF a
    <2>4. QED
      BY <2>1, <2>2, <2>3, ContinueOwns DEF IInv
  <1>4. ASSUME NEW c \in Caller, StepFails(c) PROVE FALSE
    <2>1. calls[c].attempt \in Unsettled /\ attempts' = [attempts EXCEPT ![calls[c].attempt] = "settled"]
      BY <1>4 DEF StepFails, IInv, Owned, Fenced, Calling
    <2>2. QED
      BY <2>1 DEF IInv, TypeOK, Fenced, Unsettled
  <1>5. ASSUME NEW c \in Caller, Timeout(c) \/ Finish(c)
        PROVE  \E d \in Caller : Calling(d)' /\ calls'[d].attempt = b
    <2>1. crashes = 0 /\ b \in Unsettled
      BY <1>5 DEF Timeout, Finish, Unsettled
    <2>2. PICK d \in Caller : Calling(d) /\ calls[d].attempt = b
      BY <1>1, <2>1
    <2>3. CASE Timeout(c)
      <3>1. calls' = [calls EXCEPT ![c].late = TRUE]
        BY <2>3 DEF Timeout
      <3>2. calls'[d].at = calls[d].at /\ calls'[d].attempt = calls[d].attempt
        BY <2>2, <3>1 DEF IInv, TypeOK
      <3>3. QED
        BY <2>2, <3>2 DEF Calling
    <2>4. CASE Finish(c)
      <3>1. calls' = [calls EXCEPT ![c] = Idle] /\ d # c
        BY <2>2, <2>4 DEF Finish, Calling
      <3>2. calls'[d] = calls[d]
        BY <2>2, <3>1 DEF IInv, TypeOK
      <3>3. QED
        BY <2>2, <3>2 DEF Calling
    <2>5. QED
      BY <1>5, <2>3, <2>4
  <1>6. ASSUME \/ \E a \in Attempt : OrphanEnds(a)
               \/ EditConfig \/ BeginRun \/ FinishRun \/ UNCHANGED cleanupVars
        PROVE  \E d \in Caller : Calling(d)' /\ calls'[d].attempt = b
    <2>1. UNCHANGED <<calls, attempts, crashes>>
      BY <1>6 DEF OrphanEnds, EditConfig, BeginRun, FinishRun, cleanupVars
    <2>2. QED
      BY <1>1, <2>1 DEF Unsettled, Calling
  <1>7. ~Crash
    BY DEF Crash, IInv, TypeOK
  <1>8. QED
    BY <1>2, <1>3, <1>4, <1>5, <1>6, <1>7 DEF Next

(* Until the daemon crashes, an unsettled attempt is held by a request that  *)
(* is still calling the backend (deletion-ownership.ts:97-116), so no        *)
(* timeout, failure or edit leaves a deletion that a retry cannot resume.    *)
THEOREM CleanupUnsettledHasOwner == Spec => []UnsettledHasOwner
  <1>1. Init => UnsettledHasOwner
    BY DEF Init, UnsettledHasOwner, Unsettled
  <1>2. IInv /\ IInv' /\ UnsettledHasOwner /\ [Next]_cleanupVars => UnsettledHasOwner'
    BY OwnerKept
  <1>3. QED
    BY <1>1, <1>2, CleanupInvariant, PTL DEF Spec
=============================================================================
