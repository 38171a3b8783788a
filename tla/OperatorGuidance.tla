-------------------------- MODULE OperatorGuidance --------------------------
(* The words that pass between a worker and its operators: the questions of    *)
(* ask_human, whose calls wait in memory (escalation-mcp/src/pending-requests.  *)
(* ts, tools/ask-human.ts), the replies (pods/operator-messages.ts) with their *)
(* journal (completion-journal.ts), the guidance a worker reads and            *)
(* acknowledges (operator-guidance-delivery.ts), and the completion that waits *)
(* for both (completion-human-gate.ts, completion-decision.ts).  One pod.      *)
EXTENDS Naturals, Sequences, FiniteSets

CONSTANTS Question,
          MaxBatch,             \* messages of one delivery (16 in the code)
          MaxMessages, MaxRuns, MaxRestarts  \* bounds

None == "none"

GuidanceAssumption ==
  /\ None \notin Question
  /\ {MaxBatch, MaxRuns} \subseteq Nat \ {0} /\ {MaxMessages, MaxRestarts} \subseteq Nat

VARIABLES status, question,   \* the pod, and its pending escalation
          waiter,             \* the ask_human call of each question
          response,           \* escalations: who answered
          decided,            \* completion_decisions
          messages,           \* nudge_messages: the question each answers, or None
          consumed,           \* those acknowledged
          deliveries,         \* operator_guidance_deliveries
          received,           \* the deliveries that reached the worker's conversation
          run, active,        \* the worker runs begun, and whether the last is open
          dispatching,        \* a continuation is on its way to begin a run
          completing,         \* where handleCompletion is
          restarts

askVars == <<question, waiter, response, decided>>
guidanceVars == <<consumed, deliveries, received>>
runVars == <<run, active, dispatching, completing, restarts>>
vars == <<status, askVars, messages, guidanceVars, runVars>>

Waiting == {"attached", "detached", "advising"}
Pending == DOMAIN messages \ consumed

Init ==
  /\ status = "running" /\ question = None
  /\ waiter = [q \in Question |-> None]
  /\ response = [q \in Question |-> None] /\ decided = {}
  /\ messages = <<>> /\ consumed = {} /\ deliveries = <<>> /\ received = {}
  /\ run = 1 /\ active = TRUE /\ dispatching = FALSE /\ completing = None /\ restarts = 0
----------------------------------------------------------------------------
(* Questions.                                                                 *)

\* createEscalation and waitForResponse: one question at a time, of a running pod.
Ask(q) ==
  /\ active /\ status = "running" /\ question = None /\ waiter[q] = None
  /\ question' = q /\ status' = "awaiting_input"
  /\ waiter' = [waiter EXCEPT ![q] = "attached"]
  /\ UNCHANGED <<response, decided, messages, guidanceVars, runVars>>

Detached == [q \in Question |-> IF waiter[q] = "attached" THEN "detached" ELSE waiter[q]]

\* markAllDetached: the response stream of one of the pod's calls closed.
StreamCloses ==
  /\ waiter' = Detached
  /\ UNCHANGED <<status, question, response, decided, messages, guidanceVars, runVars>>

\* The calls whose timer runs.
Timed == {"attached", "detached"}

\* The call times out: the question stays, and the profile may have an advisor answer.
Timeout(q) ==
  /\ waiter[q] \in Timed
  /\ waiter' = [waiter EXCEPT ![q] = "unanswered"] \/ waiter' = [waiter EXCEPT ![q] = "advising"]
  /\ UNCHANGED <<status, question, response, decided, messages, guidanceVars, runVars>>

\* The advisor answers: resolveEscalation refuses an answer after another one.
Advised(q) ==
  /\ waiter[q] = "advising"
  /\ IF response[q] = None
     THEN response' = [response EXCEPT ![q] = "advisor"] /\ waiter' = [waiter EXCEPT ![q] = "advised"]
     ELSE waiter' = [waiter EXCEPT ![q] = "conflict"] /\ UNCHANGED response
  /\ UNCHANGED <<status, question, decided, messages, guidanceVars, runVars>>

\* What the call returns once its promise is resolved: it records the answer as
\* a human's, and the recorded answer of an automation has another responder.
Returned(actor) == IF actor = "human" THEN "answered" ELSE "cancelled"

\* A reply is queued for check_messages whatever else delivers it.
Queued(q) == Append(messages, q)

\* The pending escalation after a reply.
AfterReply(q) == None

\* sendMessage: journal, status and queue in one transaction; then the call that
\* waits, or the open run, or a continuation.
Reply(actor) ==
  LET q == question IN
  /\ status = "awaiting_input" /\ Len(messages) < MaxMessages
  /\ decided' = decided \cup {q} /\ response' = [response EXCEPT ![q] = actor]
  /\ status' = "running" /\ question' = AfterReply(q)
  /\ messages' = Queued(q)
  /\ waiter' = [waiter EXCEPT ![q] = IF @ \in {"attached", "detached"} THEN Returned(actor) ELSE @]
  /\ dispatching' = (dispatching \/ (~active /\ waiter[q] # "attached"))
  /\ UNCHANGED <<guidanceVars, run, active, completing, restarts>>
----------------------------------------------------------------------------
(* Guidance.                                                                  *)

\* nudgeSession
Nudge ==
  /\ status = "running" /\ Len(messages) < MaxMessages
  /\ messages' = Append(messages, None)
  /\ UNCHANGED <<status, askVars, guidanceVars, runVars>>

\* The oldest messages that fit into a delivery.
Candidates == {m \in Pending : Cardinality({n \in Pending : n < m}) < MaxBatch}

\* Mutant: messages already in some delivery are not candidates again.
CandidatesOnce ==
  LET open == Pending \ UNION {deliveries[d].items : d \in DOMAIN deliveries}
  IN  {m \in open : Cardinality({n \in open : n < m}) < MaxBatch}

\* The deliveries of this run that it has not acknowledged.
OpenDeliveries == {d \in DOMAIN deliveries : deliveries[d].run = run /\ ~deliveries[d].acked}

\* Mutant: a new delivery has what no delivery had before.
BatchFresh == CandidatesOnce

\* The messages of a new delivery.
Batch == Candidates

\* read: the open delivery of this run again, or a new one; the answer may be lost.
Read ==
  /\ active /\ Pending # {}
  /\ LET again == OpenDeliveries # {}
         d == IF again THEN CHOOSE o \in OpenDeliveries : \A p \in OpenDeliveries : o <= p
                       ELSE Len(deliveries) + 1
     IN  /\ IF again THEN UNCHANGED deliveries
            ELSE /\ Batch # {}
                 /\ deliveries' = Append(deliveries, [run |-> run, items |-> Batch, acked |-> FALSE])
         /\ received' \in {received, received \cup {d}}
  /\ UNCHANGED <<status, askVars, messages, consumed, runVars>>

\* owner: the receipt is one of the run that is open.
MayAck(d) == active /\ deliveries[d].run = run

\* The messages a receipt is for.
Acked(d) == deliveries[d].items

\* acknowledge: the worker may repeat it, or send that of an earlier run.
Acknowledge(d) ==
  /\ active /\ d \in received /\ ~deliveries[d].acked
  /\ MayAck(d)
  /\ consumed' = consumed \cup Acked(d)
  /\ deliveries' = [deliveries EXCEPT ![d].acked = TRUE]
  /\ UNCHANGED <<status, askVars, messages, received, runVars>>
----------------------------------------------------------------------------
(* Runs and completion.                                                       *)

\* begin: no run while a decision is unanswered.
BeginRun ==
  /\ dispatching /\ dispatching' = FALSE
  /\ ~active /\ status = "running" /\ question = None /\ run < MaxRuns
  /\ run' = run + 1 /\ active' = TRUE
  /\ UNCHANGED <<status, askVars, messages, guidanceVars, completing, restarts>>

DispatchFails ==
  /\ dispatching /\ dispatching' = FALSE
  /\ status' = IF status \in {"running", "awaiting_input"} THEN "failed" ELSE status
  /\ question' = None
  /\ UNCHANGED <<waiter, response, decided, messages, guidanceVars, run, active, completing, restarts>>

\* The worker settles; holdCompletionForHumanWork decides before the first await.
EndRun ==
  /\ active /\ active' = FALSE
  /\ waiter' = Detached
  /\ completing' = IF question # None THEN None ELSE IF Pending # {} THEN "holding" ELSE "preparing"
  /\ UNCHANGED <<status, question, response, decided, messages, guidanceVars, run, dispatching, restarts>>

\* holdForQueuedGuidance, after the workspace is preserved.
Held ==
  /\ completing = "holding" /\ completing' = None
  /\ status' = "failed"
  /\ UNCHANGED <<askVars, messages, guidanceVars, run, active, dispatching, restarts>>

\* assertGuidanceCollected
Collected == Pending = {}

\* applyCompletionDecision, after the source is prepared: changed source is
\* validated; an unchanged pod completes, and without validation it is validated.
Decide ==
  /\ completing = "preparing" /\ completing' = None
  /\ \/ status' = IF Collected THEN "validating" ELSE "failed"
     \/ status' \in {"complete", "validated"}
  /\ UNCHANGED <<askVars, messages, guidanceVars, run, active, dispatching, restarts>>

\* The operator reworks a failed pod.
Rework ==
  /\ status = "failed" /\ ~dispatching /\ run < MaxRuns
  /\ status' = "running" /\ dispatching' = TRUE
  /\ UNCHANGED <<askVars, messages, guidanceVars, run, active, completing, restarts>>

\* The daemon restarts: the waiting calls are gone, and a running pod is dispatched again.
Restart ==
  /\ restarts < MaxRestarts /\ restarts' = restarts + 1
  /\ waiter' = [q \in Question |-> IF waiter[q] \in Waiting THEN "gone" ELSE waiter[q]]
  /\ active' = FALSE /\ completing' = None
  /\ dispatching' = (status = "running")
  /\ UNCHANGED <<status, question, response, decided, messages, guidanceVars, run>>

Next ==
  \/ \E q \in Question : Ask(q) \/ Timeout(q) \/ Advised(q)
  \/ StreamCloses
  \/ \E actor \in {"human", "automation"} : Reply(actor)
  \/ Nudge \/ Read \/ \E d \in DOMAIN deliveries : Acknowledge(d)
  \/ BeginRun \/ DispatchFails \/ EndRun \/ Held \/ Decide \/ Rework \/ Restart

Spec == Init /\ [][Next]_vars
----------------------------------------------------------------------------
Delivery == [run : 1..MaxRuns, items : SUBSET (1..MaxMessages), acked : BOOLEAN]

\* The type invariant: the pod waits for input exactly while it has a question.
TypeOK ==
  /\ status \in {"running", "awaiting_input", "validating", "validated", "complete", "failed"}
  /\ question \in Question \cup {None} /\ (question # None <=> status = "awaiting_input")
  /\ waiter \in [Question -> {None, "unanswered", "advised", "conflict", "answered", "cancelled", "gone"}
                               \cup Waiting]
  /\ response \in [Question -> {None, "advisor", "human", "automation"}] /\ decided \subseteq Question
  /\ messages \in Seq(Question \cup {None}) /\ consumed \subseteq DOMAIN messages
  /\ deliveries \in Seq(Delivery) /\ received \subseteq DOMAIN deliveries
  /\ run \in 1..MaxRuns /\ active \in BOOLEAN /\ dispatching \in BOOLEAN
  /\ completing \in {None, "holding", "preparing"} /\ restarts \in 0..MaxRestarts

\* Messages are consumed in the order they were sent, across lost answers,
\* repeated reads and changes of worker: a correction is never read before the
\* guidance it corrects.
ConsumedInOrder == \A m \in consumed, n \in DOMAIN messages : n < m => n \in consumed
=============================================================================
