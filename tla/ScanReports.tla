---------------------------- MODULE ScanReports ----------------------------
(* Security scans of a schedule (scheduled-jobs/scan-coordinator.ts,           *)
(* scan-report-repository.ts, scan-operator-service.ts) and the launch of the  *)
(* repairs an operator selects (configuration/scan-launches.ts).  A report is  *)
(* named by its run key.  Every repository method is one transaction; the      *)
(* collection, the judgment and the launch of a repair await in between.       *)
EXTENDS Naturals, FiniteSets

CONSTANTS Job, Report, Finding,
          JobOf,            \* the job of each run key
          Bounded,          \* the jobs whose policy asks for a bounded judgment
          Key,              \* request keys of the operator's decisions
          Launcher,         \* repair requests underway
          MaxCrashes        \* bound

ScansAssumption ==
  JobOf \in [Report -> Job] /\ Bounded \subseteq Job /\ MaxCrashes \in Nat

None == "none"
Final == {"complete", "empty_delta", "incomplete"}

VARIABLES status, found, scoped, judgment,  \* scheduled_scan_reports: the status, the
                                            \* findings and repository of the collection
          disposition,  \* scheduled_scan_findings
          decision,     \* scheduled_scan_triage, by request key
          repairs,      \* scheduled_scan_repairs with the pods created, by selection
          running,      \* the coordinator's map: where the operation of each job is
          launch,       \* the selection whose launch each request awaits
          covered,      \* ghost: the reports finished when a finding was last resolved
          crashes

reportVars == <<status, found, scoped, judgment>>
triageVars == <<disposition, decision, covered>>
scanVars == <<reportVars, triageVars, repairs, running, launch, crashes>>

Idle == [report |-> None, at |-> "idle"]
Undecided == [report |-> None, action |-> None, findings |-> {}]

Init ==
  /\ status = [r \in Report |-> None] /\ found = [r \in Report |-> {}]
  /\ scoped = [r \in Report |-> FALSE] /\ judgment = [r \in Report |-> "not_requested"]
  /\ disposition = [f \in Finding |-> None] /\ covered = [f \in Finding |-> {}]
  /\ decision = [k \in Key |-> Undecided]
  /\ repairs = [k \in Key |-> 0]
  /\ running = [j \in Job |-> Idle]
  /\ launch = [l \in Launcher |-> None]
  /\ crashes = 0
----------------------------------------------------------------------------
(* Collection.                                                                *)

\* begin and claim: a run key has one report, and the report one collector.
MayCollect(j, r) == JobOf[r] = j /\ running[j] = Idle /\ status[r] = None

Collect(j, r) ==
  /\ MayCollect(j, r)
  /\ status' = [status EXCEPT ![r] = "collecting"]
  /\ judgment' = [judgment EXCEPT ![r] = IF j \in Bounded THEN "pending" ELSE "not_requested"]
  /\ running' = [running EXCEPT ![j] = [report |-> r, at |-> "collecting"]]
  /\ UNCHANGED <<found, scoped, triageVars, repairs, launch, crashes>>

\* Mutant: a finding that was resolved stays resolved when it is found again.
RefoundKept(d) == IF d = None THEN "unresolved" ELSE d

\* The upsert of finish.
Refound(d) == IF d \in {None, "resolved"} THEN "unresolved" ELSE d

\* finish: the receipt of a collection, with its findings.
Finish(j, s, fs, known, at) ==
  LET r == running[j].report IN
  /\ running[j].at = "collecting"
  /\ status' = [status EXCEPT ![r] = s]
  /\ found' = [found EXCEPT ![r] = fs]
  /\ scoped' = [scoped EXCEPT ![r] = known]
  /\ disposition' = [f \in Finding |-> IF f \in fs THEN Refound(disposition[f]) ELSE disposition[f]]
  /\ running' = [running EXCEPT ![j].at = at]
  /\ UNCHANGED <<judgment, decision, covered, repairs, launch, crashes>>

\* The status the catch of collect records: no commit, and a diagnostic.
VerdictOfFailure == "incomplete"

\* The collector returned.  Scanners or paths it could not cover leave the report incomplete.
Collected(j) ==
  \/ \E fs \in SUBSET Finding : Finish(j, "complete", fs, TRUE, "cleanup")
  \/ Finish(j, "empty_delta", {}, TRUE, "cleanup")
  \/ \E fs \in SUBSET Finding : Finish(j, "incomplete", fs, TRUE, "cleanup")

\* Preparation, a scanner or the first finish threw.
CollectFailed(j) ==
  \/ Finish(j, VerdictOfFailure, {}, TRUE, "cleanup")
  \/ Finish(j, VerdictOfFailure, {}, FALSE, "cleaned")

\* The worktree is removed, or its removal deferred.
Cleanup(j) ==
  /\ running[j].at = "cleanup"
  /\ running' = [running EXCEPT ![j].at = "cleaned"]
  /\ UNCHANGED <<reportVars, triageVars, repairs, launch, crashes>>

\* setJudgment: only a pending judgment is replaced.
Settled(r, v) == IF judgment[r] = "pending" THEN v ELSE judgment[r]

\* After the collection: an empty delta and a scope nobody knows need no judge.
AfterCleanup(j) ==
  LET r == running[j].report IN
  /\ running[j].at = "cleaned"
  /\ \/ /\ j \in Bounded /\ status[r] # "empty_delta" /\ scoped[r]
        /\ running' = [running EXCEPT ![j].at = "judging"]
        /\ UNCHANGED judgment
     \/ /\ judgment' = [judgment EXCEPT ![r] = IF j \notin Bounded THEN @ ELSE Settled(r,
             IF status[r] = "empty_delta" THEN "skipped_empty" ELSE "unavailable")]
        /\ running' = [running EXCEPT ![j] = Idle]
  /\ UNCHANGED <<status, found, scoped, triageVars, repairs, launch, crashes>>

\* The judge answered, or failed.
Judged(j) ==
  /\ running[j].at = "judging"
  /\ \E v \in {"complete", "unavailable"} :
       judgment' = [judgment EXCEPT ![running[j].report] = Settled(running[j].report, v)]
  /\ running' = [running EXCEPT ![j] = Idle]
  /\ UNCHANGED <<status, found, scoped, triageVars, repairs, launch, crashes>>
----------------------------------------------------------------------------
(* Decisions and repairs.                                                     *)

\* selectedUnresolved: those of a selection that are unresolved, and seen by the report's job.
Eligible(r, fs) ==
  {f \in fs : /\ disposition[f] \in {"unresolved", "deferred"}
              /\ \E q \in Report : JobOf[q] = JobOf[r] /\ f \in found[q]}

\* triage under a fresh request key; a known key answers what it recorded.
Triage(k, r, action, fs) ==
  /\ decision[k] = Undecided /\ fs # {} /\ scoped[r]
  /\ fs = Eligible(r, fs)
  /\ decision' = [decision EXCEPT ![k] = [report |-> r, action |-> action, findings |-> fs]]
  /\ disposition' = [f \in Finding |->
       IF f \notin fs \/ action = "select_repair" THEN disposition[f]
       ELSE IF action = "resolve" THEN "resolved" ELSE "deferred"]
  /\ covered' = [f \in Finding |-> IF f \in fs /\ action = "resolve"
                                   THEN {q \in Report : f \in found[q]} ELSE covered[f]]
  /\ UNCHANGED <<reportVars, repairs, running, launch, crashes>>

Selected(k) == decision[k].action = "select_repair"

\* launch and repair: no pod recorded, the findings still unresolved; then the
\* capabilities are checked.
LaunchStart(l, k) ==
  /\ launch[l] = None /\ Selected(k) /\ repairs[k] = 0
  /\ decision[k].findings = Eligible(decision[k].report, decision[k].findings)
  /\ launch' = [launch EXCEPT ![l] = k]
  /\ UNCHANGED <<reportVars, triageVars, repairs, running, crashes>>

\* launchRepair: both asked again in the transaction that creates the pod.
MayLaunch(k) ==
  /\ repairs[k] = 0
  /\ decision[k].findings = Eligible(decision[k].report, decision[k].findings)

LaunchEnd(l) ==
  /\ launch[l] # None
  /\ launch' = [launch EXCEPT ![l] = None]
  /\ \/ MayLaunch(launch[l]) /\ repairs' = [repairs EXCEPT ![launch[l]] = @ + 1]
     \/ UNCHANGED repairs  \* refused, or the capabilities are gone
  /\ UNCHANGED <<reportVars, triageVars, running, crashes>>
----------------------------------------------------------------------------
\* recoverInterrupted: the reports a stopped process was collecting.
Interrupted(r) == status[r] = "collecting"

\* The daemon stops and starts: the memory is lost and recoverInterrupted runs.
Restart ==
  /\ crashes < MaxCrashes /\ crashes' = crashes + 1
  /\ status' = [r \in Report |-> IF Interrupted(r) THEN "incomplete" ELSE status[r]]
  /\ judgment' = [r \in Report |-> IF Interrupted(r) \/ judgment[r] = "pending"
                                   THEN "unavailable" ELSE judgment[r]]
  /\ running' = [j \in Job |-> Idle]
  /\ launch' = [l \in Launcher |-> None]
  /\ UNCHANGED <<found, scoped, triageVars, repairs>>

Next ==
  \/ \E j \in Job : \/ \E r \in Report : Collect(j, r)
                    \/ Collected(j) \/ CollectFailed(j) \/ Cleanup(j) \/ AfterCleanup(j) \/ Judged(j)
  \/ \E k \in Key, r \in Report, a \in {"resolve", "defer", "select_repair"}, fs \in SUBSET Finding :
       Triage(k, r, a, fs)
  \/ \E l \in Launcher : LaunchEnd(l) \/ \E k \in Key : LaunchStart(l, k)
  \/ Restart

Spec == Init /\ [][Next]_scanVars
----------------------------------------------------------------------------
Judgment == {"not_requested", "pending", "complete", "unavailable", "skipped_empty"}
Decision == [report : Report, action : {"resolve", "defer", "select_repair"}, findings : SUBSET Finding]

\* The type invariant.  A report is being collected exactly when the operation of
\* its job collects it.
TypeOK ==
  /\ status \in [Report -> {None, "collecting"} \cup Final]
  /\ found \in [Report -> SUBSET Finding] /\ scoped \in [Report -> BOOLEAN]
  /\ judgment \in [Report -> Judgment]
  /\ disposition \in [Finding -> {None, "unresolved", "deferred", "resolved"}]
  /\ covered \in [Finding -> SUBSET Report]
  /\ decision \in [Key -> Decision \cup {Undecided}] /\ repairs \in [Key -> Nat]
  /\ running \in [Job -> {Idle} \cup [report : Report, at : {"collecting", "cleanup", "cleaned", "judging"}]]
  /\ launch \in [Launcher -> Key \cup {None}]
  /\ \A r \in Report : status[r] = "collecting" <=> running[JobOf[r]] = [report |-> r, at |-> "collecting"]

\* A finding a finished report names is in the operator's inbox, unless a human
\* resolved it after that report: a finding seen again is never lost behind an
\* earlier resolution, whichever collections overlapped it.
FindingsNeverLost ==
  \A r \in Report, f \in Finding :
    f \in found[r] => \/ disposition[f] \in {"unresolved", "deferred"}
                      \/ disposition[f] = "resolved" /\ r \in covered[f]
=============================================================================
