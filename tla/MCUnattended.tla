---------------------------- MODULE MCUnattended ---------------------------
(* What runs without an operator: the supervising agent over one pod with two   *)
(* attention states, the security scans of two jobs on one repository, and two   *)
(* scheduled jobs.  They share no state, so a behaviour of this instance is one  *)
(* of one of them, while the others rest in their initial states.                *)
EXTENDS Podsitter, Sequences, TLC

CONSTANTS j1, j2, r1, r2, Job, Report, Finding, JobOf, Bounded, Key, Launcher,
          Scheduled, Composable, Period, Op, MaxTime, MaxPods, MaxRestarts, MaxEdits

VARIABLES part,
          status, found, scoped, judgment, disposition, decision, covered, repairs, running,
          launch, crashes,
          now, row, jobPods, op, restarts, edits

scanVars == <<status, found, scoped, judgment, disposition, decision, covered, repairs,
              running, launch, crashes>>
jobVars == <<now, row, jobPods, op, restarts, edits>>

Scans == INSTANCE ScanReports
Jobs == INSTANCE ScheduledJobs WITH Job <- Scheduled, pods <- jobPods

ASSUME PartsAssumption == Scans!ScansAssumption /\ Jobs!JobsAssumption

Runs == (r1 :> j1) @@ (r2 :> j2)
Same == Permutations(Finding) \cup Permutations(Key) \cup Permutations(Op)

PartsInit == part \in {"sitter", "scans", "jobs"} /\ Init /\ Scans!Init /\ Jobs!Init

PartsNext ==
  /\ UNCHANGED part
  /\ \/ part = "sitter" /\ Next /\ UNCHANGED <<scanVars, jobVars>>
     \/ part = "scans" /\ Scans!Next /\ UNCHANGED <<sitterVars, jobVars>>
     \/ part = "jobs" /\ Jobs!Next /\ UNCHANGED <<sitterVars, scanVars>>

PartsSpec == PartsInit /\ [][PartsNext]_<<part, sitterVars, scanVars, jobVars>>

\* A finding a finished report names is in the operator's inbox, unless a human resolved it
\* after that report (scan-report-repository.ts).
FindingsNeverLost == Scans!FindingsNeverLost

\* An occurrence of a job with a resolved launch gets at most one pod from the passes, and
\* one from catch-ups (scheduled-job-manager.ts, launch-admission.ts).
OccurrenceOnce == Jobs!OccurrenceOnce
=============================================================================
