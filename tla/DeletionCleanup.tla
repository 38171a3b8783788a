--------------------------- MODULE DeletionCleanup ---------------------------
(* The deletion of one pod, step by step (workspace-deletion.ts,             *)
(* deletion-cleanup.ts, deletion-ownership.ts): requests that may overlap,   *)
(* backend calls that outlive the request's timeout and the daemon itself,   *)
(* and the durable receipts that keep all of them apart.  TaskExecution has  *)
(* the task around it, and sees only the intent and the box of this module.  *)
EXTENDS Naturals, FiniteSetsExt

CONSTANTS Caller,       \* delete requests that can be in progress at once
          NSteps,       \* cleanup steps (seven in the code)
          MaxAttempts,  \* bound: cleanup attempts ever acquired
          MaxConfig,    \* bound: configurations of the test pipeline, from 0
          MaxWorkers,   \* bound: worker runs of the pod's task
          MaxCrashes    \* bound: daemon crashes

ASSUME CleanupAssumption ==
  /\ NSteps \in Nat \ {0}
  /\ MaxAttempts \in Nat /\ MaxConfig \in Nat /\ MaxWorkers \in Nat /\ MaxCrashes \in Nat

Step == 1..NSteps
Attempt == 1..MaxAttempts
None == 0

VARIABLES
  \* deletion_cleanup_intents, _attempts and _steps
  intent,     \* of the pod: none, open or done (done: the pod row is removed)
  identity,   \* configuration the intent recorded
  attempts,   \* per attempt: unused, open or settled
  receipts,   \* steps with a receipt
  \* the daemon's memory
  calls,      \* per request: where it is, its attempt, whether it was answered
  \* the world
  flight,     \* per attempt: the step whose backend calls are in progress
  cleaned,    \* steps whose resource is really gone
  config,     \* the current configuration
  workers,    \* worker runs of the task: how many so far, is one unsettled
  crashes

cleanupVars == <<intent, identity, attempts, receipts, calls, flight, cleaned, config,
                 workers, crashes>>

Idle == [at |-> "idle", attempt |-> None, late |-> FALSE]

Init ==
  /\ intent = "none" /\ identity = 0
  /\ attempts = [a \in Attempt |-> "unused"]
  /\ receipts = {}
  /\ calls = [c \in Caller |-> Idle]
  /\ flight = [a \in Attempt |-> None]
  /\ cleaned = {}
  /\ config = 0
  /\ workers = [count |-> 0, open |-> FALSE]
  /\ crashes = 0
----------------------------------------------------------------------------
\* Mutant: the deadline is looked at by the timer only, not between the steps.
CurrentIgnoringDeadline(late, id) == config = id /\ ~workers.open

\* assertCurrent: in time, the same resources, the task still without a run.
Current(late, id) == ~late /\ config = id /\ ~workers.open

\* The loop runs in order and skips what has a receipt.
NextStep(done) == IF done = Step THEN None ELSE Min(Step \ done)

\* The loop of request c, attempt a, goes on with the receipts it now has: it
\* calls the backend for the next step, or it is over and its attempt settled.
Continue(c, a, late, id, done) ==
  IF Current(late, id) /\ NextStep(done) # None
  THEN /\ flight' = [flight EXCEPT ![a] = NextStep(done)]
       /\ calls' = [calls EXCEPT ![c] = [at |-> "calling", attempt |-> a, late |-> late]]
       /\ attempts' = [attempts EXCEPT ![a] = "open"]
  ELSE /\ flight' = [flight EXCEPT ![a] = None]
       /\ calls' = [calls EXCEPT ![c] =
            IF Current(late, id) THEN [at |-> "cleaned", attempt |-> a, late |-> FALSE] ELSE Idle]
       /\ attempts' = [attempts EXCEPT ![a] = "settled"]

Unsettled == {a \in Attempt : attempts[a] = "open"}
----------------------------------------------------------------------------
\* A delete request acquires an attempt and starts, without yielding between.
Delete(c) ==
  /\ calls[c].at = "idle"
  /\ intent # "done" /\ ~workers.open
  /\ intent = "open" => identity = config
  /\ Unsettled = {}
  /\ intent' = "open" /\ identity' = config
  /\ \E a \in Attempt :
       /\ attempts[a] = "unused"
       /\ Continue(c, a, FALSE, config, receipts)
  /\ UNCHANGED <<receipts, cleaned, config, workers, crashes>>

\* The awaited calls of a step resolve; its receipt is written if the attempt
\* still holds the resources it claimed, in time or not, and the loop goes on.
StepReturns(c) ==
  /\ calls[c].at = "calling"
  /\ LET a == calls[c].attempt
         done == IF config = identity THEN receipts \cup {flight[a]} ELSE receipts
     IN /\ receipts' = done
        /\ cleaned' = cleaned \cup {flight[a]}
        /\ \E late \in {calls[c].late, TRUE} : Continue(c, a, late, identity, done)
  /\ UNCHANGED <<intent, identity, config, workers, crashes>>

\* Mutant: a step whose backend call failed is logged and passed over.
StepFailsSilently(c) ==
  /\ calls[c].at = "calling"
  /\ LET a == calls[c].attempt
     IN /\ receipts' = receipts \cup {flight[a]}
        /\ Continue(c, a, calls[c].late, identity, receipts \cup {flight[a]})
  /\ UNCHANGED <<intent, identity, cleaned, config, workers, crashes>>

\* Mutant: a step that fails leaves its attempt unsettled.
StepFailsUnsettled(c) ==
  /\ calls[c].at = "calling"
  /\ flight' = [flight EXCEPT ![calls[c].attempt] = None]
  /\ calls' = [calls EXCEPT ![c] = Idle]
  /\ UNCHANGED <<intent, identity, attempts, receipts, cleaned, config, workers, crashes>>

\* The awaited calls of a step reject, some of them perhaps after their effect.
StepFails(c) ==
  /\ calls[c].at = "calling"
  /\ LET a == calls[c].attempt
     IN /\ attempts' = [attempts EXCEPT ![a] = "settled"]
        /\ flight' = [flight EXCEPT ![a] = None]
        /\ cleaned' \in {cleaned, cleaned \cup {flight[a]}}
  /\ calls' = [calls EXCEPT ![c] = Idle]
  /\ UNCHANGED <<intent, identity, receipts, config, workers, crashes>>

\* Mutant: the timeout settles the attempt so that a retry can take over.
TimeoutSettling(c) ==
  /\ calls[c].at = "calling" /\ ~calls[c].late
  /\ calls' = [calls EXCEPT ![c].late = TRUE]
  /\ attempts' = [attempts EXCEPT ![calls[c].attempt] = "settled"]
  /\ UNCHANGED <<intent, identity, receipts, flight, cleaned, config, workers, crashes>>

\* Mutant: the request waits for the cleanup without a deadline.
TimeoutNever(c) ==
  /\ calls[c].at = "calling" /\ calls[c].late
  /\ UNCHANGED cleanupVars

\* The request is answered after 25 s; its calls stay in flight, owned by it.
Timeout(c) ==
  /\ calls[c].at = "calling" /\ ~calls[c].late
  /\ calls' = [calls EXCEPT ![c].late = TRUE]
  /\ UNCHANGED <<intent, identity, attempts, receipts, flight, cleaned, config, workers, crashes>>

\* After the last step: ownership is asserted again, then the completion of the
\* intent and the removal of the row are one transaction; or the request fails.
Finish(c) ==
  /\ calls[c].at = "cleaned"
  /\ calls' = [calls EXCEPT ![c] = Idle]
  /\ intent' = IF intent = "open" /\ Current(FALSE, identity) /\ receipts = Step /\ Unsettled = {}
               THEN "done" ELSE intent
  /\ UNCHANGED <<identity, attempts, receipts, flight, cleaned, config, workers, crashes>>
----------------------------------------------------------------------------
\* Calls of a request that a crash forgot come to their end in the backend.
OrphanEnds(a) ==
  /\ flight[a] # None
  /\ \A c \in Caller : calls[c].at = "calling" => calls[c].attempt # a
  /\ flight' = [flight EXCEPT ![a] = None]
  /\ cleaned' \in {cleaned, cleaned \cup {flight[a]}}
  /\ UNCHANGED <<intent, identity, attempts, receipts, calls, config, workers, crashes>>

\* A profile edit changes the test pipeline of the pod, or changes it back.
EditConfig ==
  /\ \E e \in 0..MaxConfig : e # config /\ config' = e
  /\ UNCHANGED <<intent, identity, attempts, receipts, calls, flight, cleaned, workers, crashes>>

\* Mutant: the fence of beginRun ends with the request that was answered.
BeginRunOnceAnswered ==
  /\ ~workers.open /\ workers.count < MaxWorkers
  /\ intent = "open" => \A c \in Caller : calls[c].at # "idle" => calls[c].late
  /\ workers' = [count |-> workers.count + 1, open |-> TRUE]
  /\ UNCHANGED <<intent, identity, attempts, receipts, calls, flight, cleaned, config, crashes>>

\* beginRun of any pod of the task: fenced as long as the intent is open.
BeginRun ==
  /\ ~workers.open /\ workers.count < MaxWorkers
  /\ intent # "open"
  /\ workers' = [count |-> workers.count + 1, open |-> TRUE]
  /\ UNCHANGED <<intent, identity, attempts, receipts, calls, flight, cleaned, config, crashes>>

FinishRun ==
  /\ workers.open
  /\ workers' = [workers EXCEPT !.open = FALSE]
  /\ UNCHANGED <<intent, identity, attempts, receipts, calls, flight, cleaned, config, crashes>>

Crash ==
  /\ crashes < MaxCrashes
  /\ crashes' = crashes + 1
  /\ calls' = [c \in Caller |-> Idle]
  /\ UNCHANGED <<intent, identity, attempts, receipts, flight, cleaned, config, workers>>

Next ==
  \/ \E c \in Caller : Delete(c) \/ StepReturns(c) \/ StepFails(c) \/ Timeout(c) \/ Finish(c)
  \/ \E a \in Attempt : OrphanEnds(a)
  \/ EditConfig \/ BeginRun \/ FinishRun \/ Crash

Spec == Init /\ [][Next]_cleanupVars

\* Timers fire and continuations run; a backend call may stay in flight for ever.
FairSpec == Spec /\ \A c \in Caller : WF_cleanupVars(Timeout(c)) /\ WF_cleanupVars(Finish(c))
----------------------------------------------------------------------------
(* Type invariant of the deletion's rows and requests.                      *)
TypeOK ==
  /\ intent \in {"none", "open", "done"}
  /\ identity \in 0..MaxConfig /\ config \in 0..MaxConfig
  /\ attempts \in [Attempt -> {"unused", "open", "settled"}]
  /\ receipts \subseteq Step /\ cleaned \subseteq Step
  /\ calls \in [Caller -> [at : {"idle", "calling", "cleaned"}, attempt : Attempt \cup {None},
                           late : BOOLEAN]]
  /\ flight \in [Attempt -> Step \cup {None}]
  /\ workers \in [count : 0..MaxWorkers, open : BOOLEAN]
  /\ crashes \in 0..MaxCrashes

InFlight == {a \in Attempt : flight[a] # None}

(* At any moment at most one attempt has backend calls in progress, whatever *)
(* was retried, timed out or crashed ("An unresolved attempt never expires   *)
(* into authority", 182_deletion_cleanup_ownership.sql:2).                   *)
OneCleanupAtATime == \A a, b \in InFlight : a = b

(* While cleanup calls are in progress no worker run of the task is          *)
(* unsettled, even after the request was answered or the daemon crashed.     *)
NoRunDuringCleanup == InFlight # {} => ~workers.open

(* A removed pod has left nothing behind: every resource is gone and no call *)
(* on them is still on its way (workspace-deletion.ts:134-137).              *)
DeletedIsClean == intent = "done" => cleaned = Step /\ InFlight = {}

(* A backend call is only made for a step that has no receipt, on the        *)
(* resources the intent recorded, by a request nobody has answered yet.      *)
CallsAreCurrent ==
  [][\A a \in Attempt :
       flight'[a] # None /\ flight'[a] # flight[a]
       => /\ flight'[a] \notin receipts'
          /\ config' = identity'
          /\ \A c \in Caller : calls'[c].attempt = a => ~calls'[c].late]_cleanupVars

(* Every delete request is answered, however long its backend calls take.    *)
DeleteAnswered ==
  \A c \in Caller :
    (calls[c].at # "idle" /\ ~calls[c].late) ~> (calls[c].at = "idle" \/ calls[c].late)

(* An attempt whose request still runs is the only unsettled one, and it is  *)
(* settled with its calls; so only a crash can leave a deletion that no      *)
(* retry may resume.                                                         *)
UnsettledHasOwner ==
  crashes = 0 => \A a \in Unsettled :
    \E c \in Caller : calls[c].at = "calling" /\ calls[c].attempt = a
=============================================================================
