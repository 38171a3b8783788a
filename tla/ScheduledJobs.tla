--------------------------- MODULE ScheduledJobs ---------------------------
(* Scheduled jobs (scheduled-jobs/scheduled-job-manager.ts with its           *)
(* repository, and the composable launch of configuration/components.ts).  A  *)
(* timer starts a pass over the due jobs every minute, whether or not the      *)
(* last pass has ended; operators trigger, catch up and edit jobs meanwhile.   *)
(* The launch of a composable job awaits the resolution of its configuration;  *)
(* that of a job bound to a profile creates its pod at once.  Between those    *)
(* awaits a pass or request is a chain of microtasks (Busy): nothing but the    *)
(* end of the process comes in between.                                        *)
EXTENDS Naturals, Sequences, FiniteSets

CONSTANTS Job, Composable,  \* jobs, and those that launch a resolved configuration
          Period,           \* cron expressions: every so many units of time
          Op,               \* slots for the passes and requests underway at once
          MaxTime, MaxPods, MaxRestarts, MaxEdits  \* bounds

JobsAssumption ==
  /\ Composable \subseteq Job /\ Period \subseteq Nat \ {0} /\ Period # {}
  /\ {MaxTime, MaxPods, MaxRestarts, MaxEdits} \subseteq Nat

VARIABLES now,       \* the clock
          row,       \* scheduled_jobs: the row of each job
          pods,      \* the pods created, with the run key they were created for
          op,        \* the passes and requests underway
          restarts, edits

jobVars == <<now, row, pods, op, restarts, edits>>

\* computeNextRunAt: the first time after t that the expression names.
NextRun(cron, t) == CHOOSE n \in t + 1..t + cron : n % cron = 0

FirstCron == CHOOSE p \in Period : TRUE
NewRow == [exists |-> TRUE, enabled |-> TRUE, cron |-> FirstCron, next |-> NextRun(FirstCron, 0),
           catchup |-> FALSE, launch |-> 1]
NoRow == [NewRow EXCEPT !.exists = FALSE]
Idle == [kind |-> "none", at |-> "idle", job |-> CHOOSE j \in Job : TRUE, occ |-> 0,
         read |-> [j \in Job |-> NoRow]]

Init ==
  /\ now = 0
  /\ row = [j \in Job |-> NewRow]
  /\ pods = <<>>
  /\ op = [o \in Op |-> Idle]
  /\ restarts = 0 /\ edits = 0

\* A chain of microtasks is being run.
Busy == \E o \in Op : op[o].at \in {"next", "launched"}

\* countActiveSessionsForJob
Active(j) == \E i \in DOMAIN pods : pods[i].job = j /\ pods[i].active

\* listDue
Due(j) == row[j].exists /\ row[j].enabled /\ ~row[j].catchup /\ row[j].next <= now
----------------------------------------------------------------------------
(* The launch.                                                                *)

\* Mutant: every admission is new.
FoundNever(j, kind, occ) == FALSE

\* findRequest: the pod admitted for a run key; a manual key is never repeated.
Found(j, kind, occ) == kind # "manual" /\
  \E i \in DOMAIN pods : pods[i].job = j /\ pods[i].kind = kind /\ pods[i].occ = occ

NewPod(j, kind, occ) ==
  /\ Len(pods) < MaxPods
  /\ pods' = Append(pods, [job |-> j, kind |-> kind, occ |-> occ, active |-> TRUE])

\* launchScheduled, createPod: the schedule has not changed during the resolution.
MayCreate(j, kind, read) ==
  row[j].exists /\ row[j].launch = read.launch /\ (kind = "scheduled" => row[j].enabled)

\* After the launch: a pass goes on with its other jobs, a request has been answered.
Remaining(o, j) == [Idle EXCEPT !.kind = op[o].kind, !.at = "next", !.read = [op[o].read EXCEPT ![j] = NoRow]]

Over(o, j) == op' = [op EXCEPT ![o] = IF op[o].kind = "scheduled" THEN Remaining(o, j) ELSE Idle]

\* The catch of a pass, per job; a request rejects.
Fails(o, j) == Over(o, j)

\* The update after a launch, with the expression the job had when it was read.
Recorded(j, kind, read) ==
  row' = [row EXCEPT ![j].next = NextRun(read.cron, now),
                     ![j].catchup = IF kind = "catchup" THEN FALSE ELSE @]

\* fireJob, up to its first await.
FireJob(o, j, kind, read) ==
  IF j \in Composable
  THEN /\ op' = [op EXCEPT ![o] = [@ EXCEPT !.kind = kind, !.job = j, !.occ = read.next, !.read[j] = read,
                   !.at = IF Found(j, kind, read.next) THEN "launched" ELSE "resolving"]]
       /\ UNCHANGED <<row, pods>>
  ELSE IF row[j].exists
  THEN /\ NewPod(j, kind, read.next) /\ Recorded(j, kind, read)
       /\ Over(o, j)
  ELSE Fails(o, j) /\ UNCHANGED <<row, pods>>

\* resolveLaunch has resolved: admission, in one transaction.
Admit(o) ==
  LET j == op[o].job  kind == op[o].kind IN
  /\ op[o].at = "resolving"
  /\ IF Found(j, kind, op[o].occ)
     THEN op' = [op EXCEPT ![o].at = "launched"] /\ UNCHANGED pods
     ELSE IF MayCreate(j, kind, op[o].read[j])
     THEN NewPod(j, kind, op[o].occ) /\ op' = [op EXCEPT ![o].at = "launched"]
     ELSE Fails(o, j) /\ UNCHANGED pods
  /\ UNCHANGED <<now, row, restarts, edits>>

\* resolveLaunch rejects.
Unresolved(o) ==
  /\ op[o].at = "resolving" /\ Fails(o, op[o].job)
  /\ UNCHANGED <<now, row, pods, restarts, edits>>

\* The launch returned its pod.
Launched(o) ==
  LET j == op[o].job IN
  /\ op[o].at = "launched"
  /\ IF row[j].exists THEN Recorded(j, op[o].kind, op[o].read[j]) ELSE UNCHANGED row
  /\ Over(o, j)
  /\ UNCHANGED <<now, pods, restarts, edits>>
----------------------------------------------------------------------------
(* The timer and the requests.                                                *)

\* tick: the due jobs are read once.
Tick(o) ==
  /\ op[o].at = "idle" /\ \E j \in Job : Due(j)
  /\ op' = [op EXCEPT ![o] = [Idle EXCEPT !.kind = "scheduled", !.at = "next",
              !.read = [j \in Job |-> IF Due(j) THEN row[j] ELSE NoRow]]]
  /\ UNCHANGED <<now, row, pods, restarts, edits>>

Listed(o) == {j \in Job : op[o].read[j].exists}

\* The next job of the pass, ordered by the time it was due.
TickNext(o) ==
  /\ op[o].at = "next"
  /\ IF Listed(o) = {} THEN op' = [op EXCEPT ![o] = Idle] /\ UNCHANGED <<row, pods>>
     ELSE \E j \in Listed(o) :
       /\ \A i \in Listed(o) : op[o].read[j].next <= op[o].read[i].next
       /\ IF Active(j) THEN Over(o, j) /\ UNCHANGED <<row, pods>>
          ELSE FireJob(o, j, "scheduled", op[o].read[j])
  /\ UNCHANGED <<now, restarts, edits>>

Trigger(o, j) ==
  /\ op[o].at = "idle" /\ row[j].exists /\ ~Active(j)
  /\ FireJob(o, j, "manual", row[j])
  /\ UNCHANGED <<now, restarts, edits>>

RunCatchup(o, j) ==
  /\ op[o].at = "idle" /\ row[j].exists /\ row[j].catchup /\ ~Active(j)
  /\ FireJob(o, j, "catchup", row[j])
  /\ UNCHANGED <<now, restarts, edits>>

SkipCatchup(j) ==
  /\ row[j].exists /\ row[j].catchup
  /\ row' = [row EXCEPT ![j].catchup = FALSE, ![j].next = NextRun(row[j].cron, now)]
  /\ UNCHANGED <<now, pods, op, restarts, edits>>

\* update: enabled, launch selection or expression.
Update(j) ==
  /\ row[j].exists /\ edits < MaxEdits /\ edits' = edits + 1
  /\ \/ row' = [row EXCEPT ![j].enabled = ~@]
     \/ row' = [row EXCEPT ![j].launch = @ + 1]
     \/ \E cron \in Period \ {row[j].cron} :
          row' = [row EXCEPT ![j].cron = cron, ![j].next = NextRun(cron, now)]
  /\ UNCHANGED <<now, pods, op, restarts>>

\* delete: its pods go on without it.
Delete(j) ==
  /\ row[j].exists /\ edits < MaxEdits /\ edits' = edits + 1
  /\ row' = [row EXCEPT ![j] = NoRow]
  /\ UNCHANGED <<now, pods, op, restarts>>

\* The pod reaches complete, failed or killed.
PodEnds(i) ==
  /\ pods[i].active
  /\ pods' = [pods EXCEPT ![i].active = FALSE]
  /\ UNCHANGED <<now, row, op, restarts, edits>>

Clock == now < MaxTime /\ now' = now + 1 /\ UNCHANGED <<row, pods, op, restarts, edits>>

\* The daemon ends, perhaps between a launch and its update, and starts: reconcileMissedJobs.
Restart ==
  /\ restarts < MaxRestarts /\ restarts' = restarts + 1
  /\ op' = [o \in Op |-> Idle]
  /\ row' = [j \in Job |-> [row[j] EXCEPT !.catchup =
       @ \/ (row[j].exists /\ row[j].enabled /\ row[j].next < now)]]
  /\ UNCHANGED <<now, pods, edits>>

Event ==
  \/ Clock
  \/ \E o \in Op : Tick(o) \/ Admit(o) \/ Unresolved(o)
  \/ \E o \in Op, j \in Job : Trigger(o, j) \/ RunCatchup(o, j)
  \/ \E j \in Job : SkipCatchup(j) \/ Update(j) \/ Delete(j)
  \/ \E i \in DOMAIN pods : PodEnds(i)

Next ==
  \/ ~Busy /\ Event
  \/ \E o \in Op : TickNext(o) \/ Launched(o)
  \/ Restart

Spec == Init /\ [][Next]_jobVars
----------------------------------------------------------------------------
Row == [exists : BOOLEAN, enabled : BOOLEAN, cron : Period, next : Nat, catchup : BOOLEAN, launch : 1..MaxEdits + 1]

\* Types of the rows, the pods and what is underway; only passes go on to another job.
TypeOK ==
  /\ now \in 0..MaxTime
  /\ row \in [Job -> Row]
  /\ \A i \in DOMAIN pods : pods[i].job \in Job /\ pods[i].kind \in {"scheduled", "manual", "catchup"}
  /\ \A o \in Op : /\ op[o].at \in {"idle", "next", "resolving", "launched"} /\ op[o].read \in [Job -> Row]
                    /\ op[o].at = "next" => op[o].kind = "scheduled"
  /\ restarts \in 0..MaxRestarts /\ edits \in 0..MaxEdits

\* An occurrence of a composable job gets at most one pod from the passes, and one from
\* catch-ups, although passes overlap and catch-ups are asked for twice.
OccurrenceOnce == \A i, k \in DOMAIN pods :
  pods[i].job \in Composable /\ pods[i].job = pods[k].job /\ pods[i].occ = pods[k].occ /\ pods[i].kind = pods[k].kind
    /\ pods[i].kind # "manual" => i = k
=============================================================================
