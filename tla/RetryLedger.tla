---------------------------- MODULE RetryLedger ----------------------------
(* Validations of the pods of one task on sandboxes: the task's retry ledger   *)
(* (pods/task-retry-ledger.ts, stage "validation"), the calls that use it      *)
(* (pods/validation-execution.ts) and the dispatches that record who executes  *)
(* (pods/validation-execution-ledger.ts).  A transaction is an action; a call  *)
(* awaits its inputs, its cooldown and the engine in between.                  *)
EXTENDS Naturals, Sequences, FiniteSets

CONSTANTS Pod, Input,
          Key,              \* request keys of the operators' authorizations
          Budget,           \* length of the task's backoffs
          MaxGen, MaxAttempts   \* bounds

ASSUME RetryAssumption ==
  /\ Pod # {} /\ Input # {}
  /\ Budget \in Nat /\ MaxGen \in Nat /\ MaxAttempts \in Nat

Call == Pod \X (0..MaxGen)   \* a pod's validation calls, by the generation they captured
Result == {"pass", "transient", "nonretryable", "cancelled", "unverified"}

VARIABLES gen, asked, input,   \* the generation and an unanswered decision of a pod; the inputs
          attempts,            \* task_retry_attempts with their validation_dispatches
          grant,               \* task_retry_authorizations and their uses, by request key
          call,                \* the validation calls in the daemon
          running              \* world: attempts whose execution is running

podVars == <<gen, asked, input>>
retryVars == <<podVars, attempts, grant, call, running>>

None == "none"
Idle == [at |-> "idle", attempt |-> 0, left |-> 0, input |-> None]
NoGrant == [pod |-> None, failure |-> 0, use |-> 0]

Init ==
  /\ gen = [p \in Pod |-> 0] /\ asked = [p \in Pod |-> FALSE]
  /\ input \in Input
  /\ attempts = <<>>
  /\ grant = [k \in Key |-> NoGrant]
  /\ call = [c \in Call |-> Idle]
  /\ running = {}
----------------------------------------------------------------------------
(* The evaluation of an admission.                                            *)

\* Mutant: a dispatch whose engine threw counts as settled once it is recorded.
SettledOnceRecorded == \A i \in DOMAIN attempts : attempts[i].box # "dispatched"

\* unsettledDispatches: every dispatch is published and its termination verified.
TaskSettled == \A i \in DOMAIN attempts : attempts[i].box \in {None, "published"}

\* ownership.assertCurrent
IsCurrent(c) == gen[c[1]] = c[2] /\ ~asked[c[1]]

LatestEnded == attempts # <<>> => attempts[Len(attempts)].outcome # None
LatestFailure ==
  IF attempts = <<>> \/ attempts[Len(attempts)].outcome = "pass" THEN 0 ELSE Len(attempts)

\* Mutant: the automatic retries are counted for the pod, not for its task.
RetriesOfPod(p) ==
  Cardinality({i \in DOMAIN attempts : attempts[i].kind = "transient" /\ attempts[i].pod = p})

Retries(p) == Cardinality({i \in DOMAIN attempts : attempts[i].kind = "transient"})

\* The unused authorizations for the latest failure.
Grants(p) ==
  {k \in Key : /\ grant[k].failure = LatestFailure /\ LatestFailure # 0
               /\ grant[k].pod = p /\ grant[k].use = 0}
----------------------------------------------------------------------------
(* A validation call.                                                         *)

\* validateWithInfrastructureRetries, runValidation to the await of the inputs.
Begin(c) ==
  /\ call[c] = Idle
  /\ IsCurrent(c) /\ TaskSettled
  /\ call' = [call EXCEPT ![c] = [Idle EXCEPT !.at = "captured", !.left = Budget,
                                              !.input = input]]
  /\ UNCHANGED <<podVars, attempts, grant, running>>

\* admit: the attempt, with its backoff pending when the retry is automatic.
Admit(c, kind) ==
  /\ call[c].at = "captured" /\ IsCurrent(c)
  /\ TaskSettled /\ LatestEnded
  /\ Len(attempts) < MaxAttempts
  /\ attempts' = Append(attempts,
       [pod |-> c[1], input |-> call[c].input, kind |-> kind,
        failure |-> LatestFailure, due |-> kind # "transient", started |-> FALSE,
        outcome |-> None, box |-> None])
  /\ call' = [call EXCEPT ![c].at = "waiting", ![c].attempt = Len(attempts) + 1]
  /\ UNCHANGED <<podVars, running>>

AdmitFirst(c) == LatestFailure = 0 /\ Admit(c, None) /\ UNCHANGED grant

AdmitGranted(c, k) ==
  /\ k \in Grants(c[1])
  /\ Admit(c, "override")
  /\ grant' = [grant EXCEPT ![k].use = Len(attempts) + 1]

AdmitRetry(c) ==
  /\ LatestFailure # 0 /\ Grants(c[1]) = {}
  /\ attempts[LatestFailure].outcome = "transient" /\ Retries(c[1]) < Budget
  /\ Admit(c, "transient")
  /\ UNCHANGED grant

AdmitChanged(c) ==
  /\ LatestFailure # 0 /\ Grants(c[1]) = {}
  /\ attempts[LatestFailure].outcome # "transient"
  /\ attempts[LatestFailure].input # call[c].input
  /\ Admit(c, "changed_conditions")
  /\ UNCHANGED grant

\* The admission is refused, or an await before it throws: the call ends.
Refused(c) ==
  /\ call[c].at = "captured"
  /\ call' = [call EXCEPT ![c] = Idle]
  /\ UNCHANGED <<podVars, attempts, grant, running>>

\* The clock passes not_before.
Elapse(i) ==
  /\ i \in DOMAIN attempts /\ ~attempts[i].due
  /\ attempts' = [attempts EXCEPT ![i].due = TRUE]
  /\ UNCHANGED <<podVars, grant, call, running>>

\* start and dispatch, one transaction.
Start(c) ==
  /\ call[c].at = "waiting" /\ attempts[call[c].attempt].due /\ IsCurrent(c)
  /\ attempts' = [attempts EXCEPT ![call[c].attempt].started = TRUE,
                                  ![call[c].attempt].box = "dispatched"]
  /\ running' = running \cup {call[c].attempt}
  /\ call' = [call EXCEPT ![c].at = "running"]
  /\ UNCHANGED <<podVars, grant>>

\* Superseded, asked, aborted or refused before it started: finish 'cancelled'.
CancelWait(c) ==
  /\ call[c].at = "waiting"
  /\ attempts' = [attempts EXCEPT ![call[c].attempt].outcome = "cancelled"]
  /\ call' = [call EXCEPT ![c] = Idle]
  /\ UNCHANGED <<podVars, grant, running>>

\* An engine that threw gives no evidence that its execution ended.
BoxOf(r) == IF r = "unverified" THEN "unverified" ELSE "recorded"

\* The engine returns: recordOutcome and finish, one transaction.
Return(c, r) ==
  LET i == call[c].attempt IN
  /\ call[c].at = "running"
  /\ attempts' = [attempts EXCEPT
       ![i].outcome = IF r = "unverified" THEN "nonretryable" ELSE r,
       ![i].box = BoxOf(r)]
  /\ running' = IF r = "unverified" THEN running ELSE running \ {i}
  /\ call' = [call EXCEPT ![c].at = "returned"]
  /\ UNCHANGED <<podVars, grant>>

\* The loop over infrastructureBackoffs.
MayRetry(c) ==
  attempts[call[c].attempt].outcome = "transient" /\ IsCurrent(c) /\ call[c].left > 0

\* publishValidationResult, then the end of runValidation: only a restart comes
\* between it and the return.  Another round follows when the loop retries.
Publish(c) ==
  LET i == call[c].attempt IN
  /\ call[c].at = "returned"
  /\ attempts' = IF attempts[i].box = "recorded"
                 THEN [attempts EXCEPT ![i].box = "published"] ELSE attempts
  /\ \/ call' = [call EXCEPT ![c] = Idle]
     \/ /\ MayRetry(c)
        /\ call' = [call EXCEPT ![c].at = "captured", ![c].left = @ - 1, ![c].attempt = 0,
                                ![c].input = input]
  /\ UNCHANGED <<podVars, grant, running>>
----------------------------------------------------------------------------
(* The world: operators, agents, the sandboxes and the daemon's restarts.     *)

\* A rework or kill: the checks at its entry were read before its awaits.
NewGeneration(p) ==
  /\ gen[p] < MaxGen
  /\ gen' = [gen EXCEPT ![p] = @ + 1]
  /\ UNCHANGED <<asked, input, attempts, grant, call, running>>

\* A decision is asked of a human, or answered.
Decision(p) ==
  /\ asked' = [asked EXCEPT ![p] = ~@]
  /\ UNCHANGED <<gen, input, attempts, grant, call, running>>

\* The source, the commands or the environment of the task change.
Edit(i) ==
  /\ i # input
  /\ input' = i
  /\ UNCHANGED <<gen, asked, attempts, grant, call, running>>

\* authorize: one more admission after the latest settled failure.
Authorize(p, k) ==
  /\ grant[k].failure = 0
  /\ LatestFailure # 0 /\ LatestEnded
  /\ grant' = [grant EXCEPT ![k] = [pod |-> p, failure |-> LatestFailure, use |-> 0]]
  /\ UNCHANGED <<podVars, attempts, call, running>>

\* An execution nobody waits for ends in its sandbox.
OrphanEnds(i) ==
  /\ i \in running /\ \A c \in Call : call[c].at = "running" => call[c].attempt # i
  /\ running' = running \ {i}
  /\ UNCHANGED <<podVars, attempts, grant, call>>

\* Mutant: a restart leaves the open attempts for their calls to settle.
InterruptedNever == attempts

\* recoverInterrupted
Interrupted ==
  [i \in DOMAIN attempts |->
    IF attempts[i].outcome = None THEN [attempts[i] EXCEPT !.outcome = "unknown"]
    ELSE attempts[i]]

\* The daemon ends and starts again; executions in sandboxes go on.
Restart ==
  /\ attempts' = Interrupted
  /\ call' = [c \in Call |-> Idle]
  /\ UNCHANGED <<podVars, grant, running>>

CallStep(c) ==
  \/ Begin(c) \/ AdmitFirst(c) \/ AdmitRetry(c) \/ AdmitChanged(c) \/ Refused(c)
  \/ Start(c) \/ CancelWait(c)
  \/ \E k \in Key : AdmitGranted(c, k)
  \/ \E r \in Result : Return(c, r)

WorldStep ==
  \/ \E i \in 1..MaxAttempts : Elapse(i) \/ OrphanEnds(i)
  \/ \E p \in Pod : NewGeneration(p) \/ Decision(p)
  \/ \E i \in Input : Edit(i)
  \/ \E p \in Pod : \E k \in Key : Authorize(p, k)

Publishing == \E c \in Call : call[c].at = "returned"

Next ==
  \/ \E c \in Call : Publish(c)
  \/ ~Publishing /\ ((\E c \in Call : CallStep(c)) \/ WorldStep)
  \/ Restart

Spec == Init /\ [][Next]_retryVars
----------------------------------------------------------------------------
(* Properties.                                                                *)

TypeOK ==
  /\ gen \in [Pod -> 0..MaxGen] /\ asked \in [Pod -> BOOLEAN] /\ input \in Input
  /\ attempts \in Seq([pod : Pod, input : Input,
       kind : {None, "transient", "changed_conditions", "override"}, failure : Nat,
       due : BOOLEAN, started : BOOLEAN,
       outcome : {None, "pass", "transient", "nonretryable", "cancelled", "unknown"},
       box : {None, "dispatched", "recorded", "published", "unverified"}])
  /\ Len(attempts) <= MaxAttempts
  /\ grant \in [Key -> [pod : Pod \cup {None}, failure : 0..MaxAttempts, use : 0..MaxAttempts]]
  /\ call \in [Call -> [at : {"idle", "captured", "waiting", "running", "returned"},
                        attempt : 0..MaxAttempts, left : 0..Budget, input : Input \cup {None}]]
  /\ running \subseteq 1..MaxAttempts

\* One validation of a task executes at a time, whatever its pods, generations and
\* the daemon's restarts: also an execution that outlived its daemon, or whose
\* engine threw, is not joined by another.
OneExecution == Cardinality(running) <= 1

\* An execution that may still be running is held by its dispatch: the ledger never
\* shows it as settled, so no recovery, merge or deletion takes its sandbox away.
RunningIsHeld == \A i \in running : attempts[i].box \in {"dispatched", "unverified"}

GrantOf(i) == {k \in Key : grant[k].use = i}

\* Unchanged inputs that failed are executed again without a human at most Budget
\* times in the life of a task, over all its pods, generations and restarts.
BlindRetries ==
  {i \in DOMAIN attempts : /\ attempts[i].started /\ attempts[i].failure # 0
                           /\ attempts[attempts[i].failure].input = attempts[i].input
                           /\ GrantOf(i) = {}}
BudgetHolds == Cardinality(BlindRetries) <= Budget

\* Every open admission has a call that will settle it: an attempt left open by a
\* restart, a rework or a decision would block the validations of the task for good.
OpenIsOwned ==
  \A i \in DOMAIN attempts : attempts[i].outcome = None =>
    \E c \in Call : call[c].at \in {"waiting", "running"} /\ call[c].attempt = i
=============================================================================
