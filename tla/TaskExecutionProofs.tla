------------------------ MODULE TaskExecutionProofs ------------------------
(* One logical task, any number of pods, worker runs, containers, lifecycle  *)
(* generations and crashes: live workers are recorded, alone, and kept apart *)
(* from deletion.                                                            *)
EXTENDS TaskExecution, FiniteSetTheorems, TLAPS

RunRecord == [state : RunState, pod : Pod, gen : 0..MaxReworks + 1, box : Box \cup {None}]

\* Live workers have the only unsettled run of the ledger and a box that keeps
\* them: up, or a suspended sandbox.
WorkersRecorded ==
  /\ alive \subseteq Unsettled
  /\ \A r, q \in Unsettled : r = q
  /\ \A r \in Unsettled : runs[r].box \in Box
  /\ \A r \in alive : \/ boxes[runs[r].box] = "up"
                      \/ boxes[runs[r].box] = "stopped" /\ runs[r].pod \in Sandbox

\* A consumer works for the unsettled run and is the one its pod registered; one
\* that did not start its worker, or will settle its run, has no worker.
ConsumersOwn ==
  \A r \in Run : consumer[r] # "none" =>
    /\ r \in Unsettled /\ active[runs[r].pod] = r
    /\ consumer[r] = "admitted" => r \notin alive
    /\ consumer[r] = "settling" /\ runs[r].state = "open" => r \notin alive

\* An open deletion intent excludes unsettled runs, and a deleted pod is done with.
DeletionsExclude ==
  /\ OpenIntents # {} => Unsettled = {}
  /\ \A p \in Pod : status[p] = "deleted" =>
       /\ intent[p] = "done" /\ box[p] = None
       /\ \A r \in Run : runs[r].pod = p => r \notin Unsettled

\* Generations are counted by the bound.
GenerationsCounted == \A p \in Pod : gen[p] <= reworks + 1

\* The inductive invariant.
IInv == TypeOK /\ WorkersRecorded /\ ConsumersOwn /\ DeletionsExclude /\ GenerationsCounted
----------------------------------------------------------------------------
(* The invariant holds in the initial state.                                *)
LEMMA InitInv == Init => IInv
  <1> SUFFICES ASSUME Init PROVE IInv
    OBVIOUS
  <1>1. NoRun \in RunRecord /\ NoRun.state = "unused"
    BY TaskAssumption DEF NoRun, RunRecord, TaskAssumption, RunState, None
  <1>2. TypeOK
    <2>1. NoKill \in KillRecord /\ NoCall \in CallRecord
      BY TaskAssumption DEF KillRecord, NoKill, CallRecord, NoCall, None, TaskAssumption
    <2>2. QED
      BY <1>1, <2>1, TaskAssumption
      DEF Init, TypeOK, RunRecord, TaskAssumption, Status, BoxState, ConsumerState
  <1>3. Unsettled = {} /\ OpenIntents = {}
    BY <1>1 DEF Init, Unsettled, OpenIntents
  <1>4. QED
    BY <1>2, <1>3, TaskAssumption DEF Init, IInv, WorkersRecorded, ConsumersOwn,
       DeletionsExclude, GenerationsCounted, TaskAssumption

(* Launch only adds a box that no worker has.                               *)
LEMMA LaunchInv == ASSUME IInv, NEW p \in Pod, Launch(p) PROVE IInv'
  <1>1. PICK b \in Box : /\ boxes[b] = "absent" /\ boxes' = [boxes EXCEPT ![b] = "up"]
                         /\ box' = [box EXCEPT ![p] = b]
    BY DEF Launch
  <1>2. TypeOK'
    <2>1. [kind |-> "process", gen |-> gen[p]] \in CallRecord
      BY TaskAssumption DEF IInv, TypeOK, CallRecord, TaskAssumption
    <2>2. QED
      BY <1>1, <2>1 DEF Launch, IInv, TypeOK, Status, BoxState, recoveryVars, runVars,
                        requestVars
  <1>3. WorkersRecorded'
    BY <1>1 DEF Launch, IInv, TypeOK, WorkersRecorded, Unsettled, runVars
  <1>4. ConsumersOwn'
    BY DEF Launch, IInv, ConsumersOwn, Unsettled, runVars
  <1>5. DeletionsExclude'
    BY <1>1 DEF Launch, IInv, TypeOK, DeletionsExclude, Unsettled, OpenIntents, runVars
  <1>6. GenerationsCounted'
    BY DEF Launch, IInv, GenerationsCounted
  <1>7. QED
    BY <1>2, <1>3, <1>4, <1>5, <1>6 DEF IInv

(* Resume brings the retained box up.                                       *)
LEMMA ResumeInv == ASSUME IInv, NEW p \in Pod, Resume(p) PROVE IInv'
  <1>2. TypeOK'
    <2>1. [kind |-> "resume", gen |-> gen[p]] \in CallRecord
      BY TaskAssumption DEF IInv, TypeOK, CallRecord, TaskAssumption
    <2>2. QED
      BY <2>1 DEF Resume, IInv, TypeOK, Status, BoxState, recoveryVars, runVars, requestVars
  <1>3. WorkersRecorded'
    BY DEF Resume, IInv, TypeOK, WorkersRecorded, Unsettled, runVars
  <1>4. ConsumersOwn'
    BY DEF Resume, IInv, ConsumersOwn, Unsettled, runVars
  <1>5. DeletionsExclude'
    BY DEF Resume, IInv, TypeOK, DeletionsExclude, Unsettled, OpenIntents, runVars
  <1>6. GenerationsCounted'
    BY DEF Resume, IInv, GenerationsCounted
  <1>7. QED
    BY <1>2, <1>3, <1>4, <1>5, <1>6 DEF IInv

(* A run is admitted to a task without unsettled runs and intents.          *)
LEMMA AdmitInv == ASSUME IInv, NEW p \in Pod, Admit(p) PROVE IInv'
  <1>1. PICK r \in Run :
          /\ runs[r].state = "unused"
          /\ runs' = [runs EXCEPT
               ![r] = [state |-> "open", pod |-> p, gen |-> gen[p], box |-> box[p]]]
          /\ consumer' = [consumer EXCEPT ![r] = "admitted"]
          /\ active' = [active EXCEPT ![p] = r]
    BY DEF Admit
  <1>2. /\ Unsettled = {} /\ OpenIntents = {}
        /\ box[p] \in Box
        /\ UNCHANGED <<status, gen, box, intent, stall, stopSent, stopCalls, processing, rework,
                       reworks, recovering, visits, kills, alive, boxes, crashes>>
    BY DEF IInv, TypeOK, Admit, MayBegin, TaskAvailable, podVars, recoveryVars, controlVars,
           requestVars, worldVars
  <1>3. status[p] # "deleted"
    BY DEF IInv, DeletionsExclude, Admit
  <1>4. [state |-> "open", pod |-> p, gen |-> gen[p], box |-> box[p]] \in RunRecord
    BY TaskAssumption DEF IInv, TypeOK, RunRecord, RunState, TaskAssumption
  <1>5. TypeOK'
    BY <1>1, <1>2, <1>4 DEF IInv, TypeOK, RunRecord, ConsumerState
  <1>6. Unsettled' = {r} /\ OpenIntents' = {} /\ alive = {}
    BY <1>1, <1>2 DEF IInv, TypeOK, Unsettled, OpenIntents, WorkersRecorded
  <1>7. WorkersRecorded'
    BY <1>1, <1>2, <1>6 DEF IInv, TypeOK, WorkersRecorded
  <1>8. ConsumersOwn'
    BY <1>1, <1>2, <1>6 DEF IInv, TypeOK, ConsumersOwn
  <1>9. DeletionsExclude'
    BY <1>1, <1>2, <1>3, <1>6 DEF IInv, TypeOK, DeletionsExclude
  <1>10. GenerationsCounted'
    BY <1>2 DEF IInv, GenerationsCounted
  <1>11. QED
    BY <1>5, <1>7, <1>8, <1>9, <1>10 DEF IInv
----------------------------------------------------------------------------
(* The consumer of an event stream.                                         *)

(* A worker is started by the registered consumer of the unsettled run only, *)
(* in a box that is up.                                                      *)
LEMMA StartInv == ASSUME IInv, NEW r \in Run, Start(r) PROVE IInv'
  <1>1. /\ consumer[r] = "admitted" /\ r \in Unsettled
        /\ UNCHANGED <<status, gen, box, intent, stall, stopSent, stopCalls, runs, active,
                       processing, rework, reworks, recovering, visits, kills, boxes, crashes>>
        /\ \/ /\ boxes[runs[r].box] = "up"
              /\ consumer' = [consumer EXCEPT ![r] = "streaming"] /\ alive' = alive \cup {r}
           \/ /\ consumer' = [consumer EXCEPT ![r] = "settling"] /\ alive' = alive
    BY DEF Start, podVars, recoveryVars, controlVars, requestVars, IInv, ConsumersOwn
  <1>2. TypeOK'
    BY <1>1 DEF IInv, TypeOK, ConsumerState
  <1>3. Unsettled' = Unsettled /\ OpenIntents' = OpenIntents
    BY <1>1 DEF Unsettled, OpenIntents
  <1>4. WorkersRecorded'
    BY <1>1, <1>3 DEF IInv, WorkersRecorded
  <1>5. ConsumersOwn'
    BY <1>1, <1>3 DEF IInv, TypeOK, ConsumersOwn
  <1>6. DeletionsExclude' /\ GenerationsCounted'
    BY <1>1, <1>3 DEF IInv, DeletionsExclude, GenerationsCounted
  <1>7. QED
    BY <1>2, <1>4, <1>5, <1>6 DEF IInv

(* The event that ends the loop may move the pod, never a deleted one.      *)
LEMMA ReadInv == ASSUME IInv, NEW r \in Run, Read(r) PROVE IInv'
  <1>1. /\ consumer[r] = "streaming" /\ r \in Unsettled
        /\ consumer' = [consumer EXCEPT ![r] = "closing"]
        /\ UNCHANGED <<gen, box, intent, stall, stopSent, stopCalls, runs, active,
                       processing, rework, reworks, recovering, visits, kills,
                       alive, boxes, crashes>>
        /\ status' \in [Pod -> Status]
        /\ \A p \in Pod : status'[p] = "deleted" => status[p] = "deleted"
    BY DEF Read, Status, recoveryVars, controlVars, requestVars, worldVars, IInv, TypeOK,
           ConsumersOwn
  <1>2. TypeOK'
    BY <1>1 DEF IInv, TypeOK, ConsumerState
  <1>3. Unsettled' = Unsettled /\ OpenIntents' = OpenIntents
    BY <1>1 DEF Unsettled, OpenIntents
  <1>4. WorkersRecorded' /\ GenerationsCounted'
    BY <1>1, <1>3 DEF IInv, WorkersRecorded, GenerationsCounted
  <1>5. ConsumersOwn'
    BY <1>1, <1>3 DEF IInv, TypeOK, ConsumersOwn
  <1>6. DeletionsExclude'
    BY <1>1, <1>3 DEF IInv, DeletionsExclude
  <1>7. QED
    BY <1>2, <1>4, <1>5, <1>6 DEF IInv

(* Retaining a run as unverified keeps it unsettled.                        *)
LEMMA RetainedUnsettled ==
  ASSUME TypeOK, NEW r \in Run, r \in Unsettled
  PROVE  /\ Retained(r) \in [Run -> RunRecord]
         /\ Retained(r)[r].state = "unverified"
         /\ \A q \in Run : /\ q # r => Retained(r)[q] = runs[q]
                           /\ Retained(r)[q].pod = runs[q].pod
                           /\ Retained(r)[q].box = runs[q].box
  BY DEF TypeOK, RunRecord, Retained, RunState, Unsettled

(* The runtime's own report that the worker may live keeps the run.         *)
LEMMA ReportUnverifiedInv == ASSUME IInv, NEW r \in Run, ReportUnverified(r) PROVE IInv'
  <1>1. /\ consumer[r] = "streaming" /\ r \in Unsettled
        /\ consumer' = [consumer EXCEPT ![r] = "settling"]
        /\ runs' = Retained(r)
        /\ UNCHANGED <<gen, box, intent, stall, stopSent, stopCalls, active,
                       processing, rework, reworks, recovering, visits, kills,
                       alive, boxes, crashes>>
        /\ status' \in [Pod -> Status]
        /\ \A p \in Pod : status'[p] = "deleted" => status[p] = "deleted"
    BY DEF ReportUnverified, Status, recoveryVars, controlVars, requestVars, worldVars, IInv,
           TypeOK,
           ConsumersOwn
  <1>2. /\ runs' \in [Run -> RunRecord] /\ runs'[r].state = "unverified"
        /\ \A q \in Run : /\ q # r => runs'[q] = runs[q]
                          /\ runs'[q].pod = runs[q].pod /\ runs'[q].box = runs[q].box
    BY <1>1, RetainedUnsettled DEF IInv
  <1>3. TypeOK'
    BY <1>1, <1>2 DEF IInv, TypeOK, ConsumerState, RunRecord
  <1>4. Unsettled' = Unsettled /\ OpenIntents' = OpenIntents
    BY <1>1, <1>2 DEF Unsettled, OpenIntents
  <1>5. WorkersRecorded' /\ GenerationsCounted'
    BY <1>1, <1>2, <1>4 DEF IInv, TypeOK, WorkersRecorded, GenerationsCounted
  <1>6. ConsumersOwn'
    BY <1>1, <1>2, <1>4 DEF IInv, TypeOK, ConsumersOwn
  <1>7. DeletionsExclude'
    BY <1>1, <1>2, <1>4 DEF IInv, DeletionsExclude
  <1>8. QED
    BY <1>3, <1>5, <1>6, <1>7 DEF IInv

(* An observed exit is what allows the run to be finished.                  *)
LEMMA ExitObservedInv == ASSUME IInv, NEW r \in Run, ExitObserved(r) PROVE IInv'
  <1>1. /\ consumer[r] = "closing" /\ r \notin alive
        /\ consumer' = [consumer EXCEPT ![r] = "settling"]
        /\ UNCHANGED <<status, gen, box, intent, stall, stopSent, stopCalls, runs, active,
                       processing, rework, reworks, recovering, visits, kills,
                       alive, boxes, crashes>>
    BY DEF ExitObserved, podVars, recoveryVars, controlVars, requestVars, worldVars
  <1>2. TypeOK'
    BY <1>1 DEF IInv, TypeOK, ConsumerState
  <1>3. Unsettled' = Unsettled /\ OpenIntents' = OpenIntents
    BY <1>1 DEF Unsettled, OpenIntents
  <1>4. ConsumersOwn'
    BY <1>1, <1>3 DEF IInv, TypeOK, ConsumersOwn
  <1>5. WorkersRecorded' /\ DeletionsExclude' /\ GenerationsCounted'
    BY <1>1, <1>3 DEF IInv, WorkersRecorded, DeletionsExclude, GenerationsCounted
  <1>6. QED
    BY <1>2, <1>4, <1>5 DEF IInv

(* Without an observed exit the run is retained.                            *)
LEMMA ExitUnobservedInv == ASSUME IInv, NEW r \in Run, ExitUnobserved(r) PROVE IInv'
  <1>1. /\ consumer[r] = "closing" /\ r \in Unsettled
        /\ consumer' = [consumer EXCEPT ![r] = "settling"]
        /\ runs' = Retained(r)
        /\ UNCHANGED <<status, gen, box, intent, stall, stopSent, stopCalls, active,
                       processing, rework, reworks, recovering, visits, kills,
                       alive, boxes, crashes>>
    BY DEF ExitUnobserved, podVars, recoveryVars, controlVars, requestVars, worldVars, IInv,
           ConsumersOwn
  <1>2. /\ runs' \in [Run -> RunRecord] /\ runs'[r].state = "unverified"
        /\ \A q \in Run : /\ q # r => runs'[q] = runs[q]
                          /\ runs'[q].pod = runs[q].pod /\ runs'[q].box = runs[q].box
    BY <1>1, RetainedUnsettled DEF IInv
  <1>3. TypeOK'
    BY <1>1, <1>2 DEF IInv, TypeOK, ConsumerState, RunRecord
  <1>4. Unsettled' = Unsettled /\ OpenIntents' = OpenIntents
    BY <1>1, <1>2 DEF Unsettled, OpenIntents
  <1>5. WorkersRecorded' /\ GenerationsCounted'
    BY <1>1, <1>2, <1>4 DEF IInv, TypeOK, WorkersRecorded, GenerationsCounted
  <1>6. ConsumersOwn'
    BY <1>1, <1>2, <1>4 DEF IInv, TypeOK, ConsumersOwn
  <1>7. DeletionsExclude'
    BY <1>1, <1>2, <1>4 DEF IInv, DeletionsExclude
  <1>8. QED
    BY <1>3, <1>5, <1>6, <1>7 DEF IInv

(* The run that ends is one whose worker is over; a retained run stays.     *)
LEMMA SettleInv == ASSUME IInv, NEW r \in Run, Settle(r) PROVE IInv'
  <1>1. /\ consumer[r] = "settling" /\ r \in Unsettled
        /\ runs' = [runs EXCEPT ![r].state = IF runs[r].state = "open" THEN "ended"
                                              ELSE runs[r].state]
        /\ consumer' = [consumer EXCEPT ![r] = "none"]
        /\ active' = [p \in Pod |-> IF active[p] = r THEN None ELSE active[p]]
        /\ UNCHANGED <<status, gen, box, intent, stall, stopSent, stopCalls,
                       processing, rework, reworks, recovering, visits, kills,
                       alive, boxes, crashes>>
    BY DEF Settle, podVars, recoveryVars, controlVars, requestVars, worldVars, IInv,
           ConsumersOwn
  <1>2. /\ runs' \in [Run -> RunRecord]
        /\ runs'[r].state \in {"ended", runs[r].state}
        /\ runs'[r].state = "ended" => runs[r].state = "open"
        /\ \A q \in Run : /\ q # r => runs'[q] = runs[q]
                          /\ runs'[q].pod = runs[q].pod /\ runs'[q].box = runs[q].box
    BY <1>1 DEF IInv, TypeOK, RunRecord, RunState, Unsettled
  <1>3. TypeOK'
    BY <1>1, <1>2 DEF IInv, TypeOK, ConsumerState, RunRecord
  <1>4. Unsettled' \in {Unsettled, Unsettled \ {r}} /\ (r \notin Unsettled' => r \notin alive)
        /\ OpenIntents' = OpenIntents
    BY <1>1, <1>2 DEF IInv, ConsumersOwn, Unsettled, OpenIntents
  <1>5. WorkersRecorded' /\ GenerationsCounted'
    BY <1>1, <1>2, <1>4 DEF IInv, TypeOK, WorkersRecorded, GenerationsCounted
  <1>6. ConsumersOwn'
    BY <1>1, <1>2, <1>4 DEF IInv, TypeOK, ConsumersOwn, WorkersRecorded
  <1>7. DeletionsExclude'
    BY <1>1, <1>2, <1>4 DEF IInv, DeletionsExclude
  <1>8. QED
    BY <1>3, <1>5, <1>6, <1>7 DEF IInv
----------------------------------------------------------------------------
(* Operator controls, and the world around the daemon.                      *)

\* Every live worker still has a box that keeps it.
LiveBoxed == \A r \in alive : \/ boxes[runs[r].box] = "up"
                              \/ boxes[runs[r].box] = "stopped" /\ runs[r].pod \in Sandbox

(* A step that touches neither ledger nor consumers nor intents, starts no   *)
(* worker and revives no deleted pod keeps the invariant.                    *)
LEMMA FrameInv ==
  ASSUME IInv, TypeOK', UNCHANGED <<intent, runs, consumer, active>>, alive' \subseteq alive,
         LiveBoxed', \A p \in Pod : gen'[p] <= reworks' + 1,
         \A p \in Pod : status'[p] = "deleted" => status[p] = "deleted" /\ box'[p] = box[p]
  PROVE  IInv'
  <1>1. Unsettled' = Unsettled /\ OpenIntents' = OpenIntents
    BY DEF Unsettled, OpenIntents
  <1>2. WorkersRecorded'
    BY <1>1 DEF IInv, WorkersRecorded, LiveBoxed
  <1>3. ConsumersOwn'
    BY <1>1 DEF IInv, ConsumersOwn
  <1>4. DeletionsExclude'
    BY <1>1 DEF IInv, DeletionsExclude
  <1>5. QED
    BY <1>2, <1>3, <1>4 DEF IInv, GenerationsCounted

(* The boxes of live workers when neither workers nor boxes change.         *)
LEMMA SameBoxes ==
  ASSUME IInv, UNCHANGED <<runs, alive, boxes>>
  PROVE  LiveBoxed'
  BY DEF IInv, WorkersRecorded, LiveBoxed

(* The caller's last transition.                                            *)
LEMMA ConcludeInv == ASSUME IInv, NEW p \in Pod, Conclude(p) PROVE IInv'
  <1>1. /\ UNCHANGED <<gen, intent, stall, stopSent, stopCalls, runs, consumer, active,
                       rework, reworks, recovering, visits, kills, alive, boxes, crashes>>
        /\ status' \in [Pod -> Status] /\ box' \in [Pod -> Box \cup {None}]
        /\ \A q \in Pod : status'[q] = "deleted" => status[q] = "deleted" /\ box'[q] = box[q]
        /\ processing' = [processing EXCEPT ![p] = NoCall]
    BY DEF Conclude, WriteRow, recoveryVars, runVars, worldVars, requestVars, IInv, TypeOK,
           Status
  <1>2. TypeOK'
    <2>1. NoCall \in CallRecord
      BY TaskAssumption DEF CallRecord, NoCall, TaskAssumption
    <2>2. QED
      BY <1>1, <2>1 DEF IInv, TypeOK
  <1>3. QED
    BY <1>1, <1>2, SameBoxes, FrameInv DEF IInv, GenerationsCounted

(* A forced rework opens a new generation, within the bound.                *)
LEMMA ReworkBeginInv == ASSUME IInv, NEW p \in Pod, ReworkBegin(p) PROVE IInv'
  <1>1. /\ UNCHANGED <<status, box, intent, stall, stopSent, stopCalls, runs, consumer, active,
                       processing, recovering, visits, kills, alive, boxes, crashes>>
        /\ reworks < MaxReworks /\ reworks' = reworks + 1
        /\ gen' = [gen EXCEPT ![p] = gen[p] + 1]
        /\ rework' = rework \cup {p}
    BY DEF ReworkBegin, recoveryVars, runVars, worldVars, requestVars
  <1>2. \A q \in Pod : gen[q] \in Nat /\ gen[q] >= 1 /\ gen[q] <= reworks + 1
                      /\ gen'[q] \in {gen[q], gen[q] + 1}
    BY <1>1, TaskAssumption DEF IInv, TypeOK, GenerationsCounted, TaskAssumption
  <1>3. reworks \in Nat
    BY TaskAssumption DEF IInv, TypeOK, TaskAssumption
  <1>4. gen' \in [Pod -> 1..MaxReworks + 1] /\ \A q \in Pod : gen'[q] <= reworks' + 1
    BY <1>1, <1>2, <1>3, TaskAssumption DEF IInv, TypeOK, TaskAssumption
  <1>5. TypeOK'
    BY <1>1, <1>3, <1>4, TaskAssumption DEF IInv, TypeOK, TaskAssumption
  <1>6. QED
    BY <1>1, <1>4, <1>5, SameBoxes, FrameInv

(* The reworked pod drops its box, unless it was deleted meanwhile.         *)
LEMMA ReworkQueueInv == ASSUME IInv, NEW p \in Pod, ReworkQueue(p) PROVE IInv'
  <1>1. /\ UNCHANGED <<gen, intent, stall, stopSent, stopCalls, runs, consumer, active,
                       processing, reworks, recovering, visits, kills, alive, boxes, crashes>>
        /\ status' \in [Pod -> Status] /\ box' \in [Pod -> Box \cup {None}]
        /\ \A q \in Pod : status'[q] = "deleted" => status[q] = "deleted" /\ box'[q] = box[q]
        /\ rework' = rework \ {p}
    BY DEF ReworkQueue, recoveryVars, runVars, worldVars, requestVars, IInv, TypeOK, Status
  <1>2. TypeOK'
    BY <1>1 DEF IInv, TypeOK
  <1>3. QED
    BY <1>1, <1>2, SameBoxes, FrameInv DEF IInv, GenerationsCounted

(* The transitions of a kill.                                               *)
LEMMA KillMovesInv ==
  ASSUME IInv, NEW p \in Pod, KillBegin(p) \/ KillEnd(p) \/ RecoverKilling(p)
  PROVE  IInv'
  <1>1. /\ UNCHANGED <<gen, intent, stall, stopSent, stopCalls, runs, consumer, active,
                       processing, rework, reworks, recovering, visits, alive, boxes, crashes>>
        /\ status' \in [Pod -> Status] /\ box' \in [Pod -> Box \cup {None}]
        /\ \A q \in Pod : status'[q] = "deleted" => status[q] = "deleted" /\ box'[q] = box[q]
        /\ kills' \in [Pod -> KillRecord]
    <2>1. CASE KillBegin(p) \/ KillEnd(p)
      <3>1. [on |-> TRUE, gen |-> gen[p], box |-> box[p]] \in KillRecord /\ NoKill \in KillRecord
        BY TaskAssumption DEF IInv, TypeOK, KillRecord, NoKill, None, TaskAssumption
      <3>2. kills' \in [Pod -> KillRecord]
        BY <2>1, <3>1 DEF KillBegin, KillEnd, IInv, TypeOK
      <3>3. QED
        BY <2>1, <3>2 DEF KillBegin, KillEnd, recoveryVars, runVars, worldVars, IInv, TypeOK,
                          Status
    <2>2. CASE RecoverKilling(p)
      BY <2>2 DEF RecoverKilling, recoveryVars, runVars, controlVars, requestVars,
                  worldVars, IInv, TypeOK, Status
    <2>3. QED
      BY <2>1, <2>2
  <1>2. TypeOK'
    BY <1>1 DEF IInv, TypeOK
  <1>3. QED
    BY <1>1, <1>2, SameBoxes, FrameInv DEF IInv, GenerationsCounted

(* A written pod row is typed, and no deleted pod's.                        *)
LEMMA RowWritten ==
  ASSUME TypeOK, NEW p \in Pod, status[p] # "deleted",
         WriteRow(p, {"queued", "running", "paused", "failed", "killed"})
  PROVE  /\ status' \in [Pod -> Status] /\ box' \in [Pod -> Box \cup {None}]
         /\ \A q \in Pod : status'[q] = "deleted" => status[q] = "deleted" /\ box'[q] = box[q]
  BY DEF TypeOK, WriteRow, Status

(* A visit of reconciliation begins, and ends with a pod row it may write.   *)
LEMMA ReconcileVisitInv ==
  ASSUME IInv, NEW p \in Pod, RecoverBegin(p) \/ RecoverEnd(p)
  PROVE  IInv'
  <1>1. /\ UNCHANGED <<gen, intent, stall, stopSent, stopCalls, runs, consumer, active,
                       processing, rework, reworks, kills, alive, boxes, crashes>>
        /\ status' \in [Pod -> Status] /\ box' \in [Pod -> Box \cup {None}]
        /\ \A q \in Pod : status'[q] = "deleted" => status[q] = "deleted" /\ box'[q] = box[q]
        /\ recovering' \subseteq Pod /\ visits' \in 0..MaxVisits
    <2>1. CASE RecoverBegin(p)
      BY <2>1, TaskAssumption DEF RecoverBegin, podVars, recoveryVars, runVars, worldVars, IInv,
                                  TypeOK, TaskAssumption
    <2>2. CASE RecoverEnd(p)
      <3>1. CASE UNCHANGED <<status, box>>
        BY <2>2, <3>1 DEF RecoverEnd, recoveryVars, runVars, worldVars, IInv, TypeOK
      <3>2. CASE /\ status[p] # "deleted"
                 /\ WriteRow(p, {"queued", "running", "paused", "failed", "killed"})
        BY <2>2, <3>2, RowWritten DEF RecoverEnd, recoveryVars, runVars, worldVars, IInv, TypeOK
      <3>3. QED
        BY <2>2, <3>1, <3>2 DEF RecoverEnd
    <2>3. QED
      BY <2>1, <2>2
  <1>2. TypeOK'
    BY <1>1 DEF IInv, TypeOK
  <1>3. QED
    BY <1>1, <1>2, SameBoxes, FrameInv DEF IInv, GenerationsCounted

(* Removing or stopping a box ends the workers it does not keep.            *)
LEMMA BoxEndsInv ==
  ASSUME IInv, NEW b \in Box,
         \/ /\ boxes' = [boxes EXCEPT ![b] = "deleted"]
            /\ alive' = alive \ WorkersIn(b)
         \/ /\ boxes' = [boxes EXCEPT ![b] = "stopped"] /\ boxes[b] = "up"
            /\ alive' = alive \ {r \in WorkersIn(b) : runs[r].pod \notin Sandbox},
         runs' = runs
  PROVE  /\ LiveBoxed' /\ alive' \subseteq alive
         /\ boxes' \in [Box -> BoxState]
  <1>1. boxes' \in [Box -> BoxState] /\ alive' \subseteq alive
    BY DEF IInv, TypeOK, BoxState
  <1>2. ASSUME NEW r \in alive'
        PROVE  \/ boxes'[runs[r].box] = "up"
               \/ boxes'[runs[r].box] = "stopped" /\ runs[r].pod \in Sandbox
    <2>1. \/ boxes[runs[r].box] = "up"
          \/ boxes[runs[r].box] = "stopped" /\ runs[r].pod \in Sandbox
      BY <1>1 DEF IInv, WorkersRecorded
    <2>2. CASE runs[r].box # b
      <3>1. runs[r].box \in Box
        BY <1>1 DEF IInv, WorkersRecorded
      <3>2. boxes'[runs[r].box] = boxes[runs[r].box]
        BY <2>2, <3>1 DEF IInv, TypeOK
      <3>3. QED
        BY <2>1, <3>2
    <2>3. CASE runs[r].box = b
      <3>1. r \in WorkersIn(b) /\ alive' # alive \ WorkersIn(b)
        BY <1>1, <2>3 DEF WorkersIn
      <3>2. /\ boxes' = [boxes EXCEPT ![b] = "stopped"]
            /\ alive' = alive \ {q \in WorkersIn(b) : runs[q].pod \notin Sandbox}
        BY <3>1
      <3>3. runs[r].pod \in Sandbox
        BY <3>1, <3>2
      <3>4. boxes'[b] = "stopped"
        BY <3>2 DEF IInv, TypeOK
      <3>5. QED
        BY <2>3, <3>3, <3>4
    <2>4. QED
      BY <2>2, <2>3
  <1>3. QED
    BY <1>1, <1>2 DEF LiveBoxed

(* Deleting a box, by a kill, a deletion or from outside the daemon.        *)
LEMMA BoxInv ==
  ASSUME IInv, \/ \E p \in Pod : KillBox(p) \/ DeleteBox(p)
               \/ \E b \in Box : BoxStops(b) \/ BoxGone(b)
  PROVE  IInv'
  <1>1. /\ UNCHANGED <<status, gen, intent, stall, stopSent, stopCalls, runs, consumer, active,
                       processing, rework, reworks, recovering, visits, crashes>>
        /\ box' \in [Pod -> Box \cup {None}]
        /\ kills' \in [Pod -> KillRecord]
        /\ \A q \in Pod : status[q] = "deleted" => box'[q] = box[q]
        /\ \E b \in Box :
             \/ /\ boxes' = [boxes EXCEPT ![b] = "deleted"]
                /\ alive' = alive \ WorkersIn(b)
             \/ /\ boxes' = [boxes EXCEPT ![b] = "stopped"] /\ boxes[b] = "up"
                /\ alive' = alive \ {r \in WorkersIn(b) : runs[r].pod \notin Sandbox}
    <2>1. CASE \E p \in Pod : KillBox(p)
      <3>1. PICK p \in Pod : KillBox(p)
        BY <2>1
      <3>2. [kills[p] EXCEPT !.box = None] \in KillRecord
        BY DEF IInv, TypeOK, KillRecord
      <3>3. kills' \in [Pod -> KillRecord]
        BY <3>1, <3>2 DEF KillBox, IInv, TypeOK
      <3>4. box' \in [Pod -> Box \cup {None}] /\ box[p] \in Box
        BY <3>1 DEF KillBox, IInv, TypeOK
      <3>5. \A q \in Pod : status[q] = "deleted" => box'[q] = box[q]
        BY <3>1 DEF KillBox, IInv, TypeOK, DeletionsExclude
      <3>6. QED
        BY <3>1, <3>3, <3>4, <3>5 DEF KillBox, recoveryVars, runVars
    <2>2. CASE \E p \in Pod : DeleteBox(p)
      BY <2>2 DEF DeleteBox, podVars, recoveryVars, runVars, controlVars,
                  requestVars, IInv, TypeOK
    <2>3. CASE \E b \in Box : BoxStops(b) \/ BoxGone(b)
      BY <2>3 DEF BoxStops, BoxGone, podVars, recoveryVars, runVars, controlVars,
                  requestVars, IInv, TypeOK
    <2>4. QED
      BY <2>1, <2>2, <2>3
  <1>2. LiveBoxed' /\ alive' \subseteq alive /\ boxes' \in [Box -> BoxState]
    BY <1>1, BoxEndsInv
  <1>3. TypeOK'
    BY <1>1, <1>2 DEF IInv, TypeOK
  <1>4. QED
    BY <1>1, <1>2, <1>3, FrameInv DEF IInv, GenerationsCounted

(* A worker process that ends leaves its run as it is.                      *)
LEMMA WorkerExitsInv == ASSUME IInv, NEW r \in Run, WorkerExits(r) PROVE IInv'
  <1>1. /\ UNCHANGED <<status, gen, box, intent, stall, stopSent, stopCalls, runs, consumer,
                       active, processing, rework, reworks, recovering, visits, kills,
                       boxes, crashes>>
        /\ alive' \subseteq alive
    BY DEF WorkerExits, podVars, recoveryVars, runVars, controlVars, requestVars
  <1>2. TypeOK'
    BY <1>1 DEF IInv, TypeOK
  <1>3. LiveBoxed'
    BY <1>1 DEF IInv, WorkersRecorded, LiveBoxed
  <1>4. QED
    BY <1>1, <1>2, <1>3, FrameInv DEF IInv, GenerationsCounted

(* A crash forgets the consumers; their runs stay unsettled.                *)
LEMMA CrashInv == ASSUME IInv, Crash PROVE IInv'
  <1>1. /\ UNCHANGED <<status, gen, box, intent, stall, stopSent, stopCalls, runs, reworks, visits,
                       alive, boxes>>
        /\ crashes < MaxCrashes /\ crashes' = crashes + 1
        /\ processing' = [p \in Pod |-> NoCall]
        /\ active' = [p \in Pod |-> None]
        /\ consumer' = [r \in Run |-> "none"]
        /\ rework' = {} /\ recovering' = {} /\ kills' = [p \in Pod |-> NoKill]
    BY DEF Crash, podVars, recoveryVars, worldVars
  <1>2. TypeOK'
    <2>1. NoKill \in KillRecord /\ NoCall \in CallRecord
      BY TaskAssumption DEF KillRecord, NoKill, CallRecord, NoCall, None, TaskAssumption
    <2>2. QED
      BY <1>1, <2>1, TaskAssumption DEF IInv, TypeOK, ConsumerState, TaskAssumption
  <1>3. Unsettled' = Unsettled /\ OpenIntents' = OpenIntents
    BY <1>1 DEF Unsettled, OpenIntents
  <1>4. ConsumersOwn'
    BY <1>1 DEF ConsumersOwn
  <1>5. WorkersRecorded' /\ DeletionsExclude' /\ GenerationsCounted'
    BY <1>1, <1>3 DEF IInv, WorkersRecorded, DeletionsExclude, GenerationsCounted
  <1>6. QED
    BY <1>2, <1>4, <1>5 DEF IInv
----------------------------------------------------------------------------
(* Deletion, and settling a run nobody observes.                            *)

(* An intent is acquired only for a task without unsettled runs.            *)
LEMMA DeleteAcquireInv == ASSUME IInv, NEW p \in Pod, DeleteAcquire(p) PROVE IInv'
  <1>1. /\ Unsettled = {} /\ status[p] # "deleted"
        /\ intent' = [intent EXCEPT ![p] = "open"]
        /\ UNCHANGED <<status, gen, box, stall, stopSent, stopCalls, runs, consumer, active,
                       processing, rework, reworks, recovering, visits, kills,
                       alive, boxes, crashes>>
    BY DEF DeleteAcquire, podVars, recoveryVars, runVars, controlVars, requestVars, worldVars
  <1>2. TypeOK'
    BY <1>1 DEF IInv, TypeOK
  <1>3. Unsettled' = {}
    BY <1>1 DEF Unsettled
  <1>4. DeletionsExclude'
    BY <1>1, <1>3 DEF IInv, TypeOK, DeletionsExclude
  <1>5. WorkersRecorded' /\ ConsumersOwn' /\ GenerationsCounted'
    BY <1>1, <1>3 DEF IInv, WorkersRecorded, ConsumersOwn, GenerationsCounted
  <1>6. QED
    BY <1>2, <1>4, <1>5 DEF IInv

(* A deletion that finishes leaves a pod without box and without runs.      *)
LEMMA DeleteFinishInv == ASSUME IInv, NEW p \in Pod, DeleteFinish(p) PROVE IInv'
  <1>1. /\ Unsettled = {} /\ intent[p] = "open"
        /\ intent' = [intent EXCEPT ![p] = "done"]
        /\ status' = [status EXCEPT ![p] = "deleted"]
        /\ box' = [box EXCEPT ![p] = None]
        /\ UNCHANGED <<gen, stall, stopSent, stopCalls, runs, consumer, active,
                       processing, rework, reworks, recovering, visits, kills,
                       alive, boxes, crashes>>
    BY DEF DeleteFinish, recoveryVars, runVars, controlVars, requestVars, worldVars
  <1>2. TypeOK'
    BY <1>1 DEF IInv, TypeOK, Status
  <1>3. Unsettled' = {}
    BY <1>1 DEF Unsettled
  <1>4. DeletionsExclude'
    BY <1>1, <1>3 DEF IInv, TypeOK, DeletionsExclude, OpenIntents
  <1>5. WorkersRecorded' /\ ConsumersOwn' /\ GenerationsCounted'
    BY <1>1, <1>3 DEF IInv, WorkersRecorded, ConsumersOwn, GenerationsCounted
  <1>6. QED
    BY <1>2, <1>4, <1>5 DEF IInv

(* Admitting a stop-and-retain request and stopping the worker's box.       *)
LEMMA StallInv == ASSUME IInv, NEW r \in Run, StallAdmit(r) \/ StallStop(r) PROVE IInv'
  <1>1. /\ UNCHANGED <<status, gen, box, intent, runs, consumer, active,
                       processing, rework, reworks, recovering, visits, kills,
                       alive, boxes, crashes>>
        /\ stall' \in [Run -> {"none", "pending", "settled"}]
        /\ stopSent' \subseteq Run
        /\ stopCalls' \in [Run -> Nat]
    <2>1. CASE StallAdmit(r)
      BY <2>1 DEF StallAdmit, podVars, runVars, controlVars, requestVars, worldVars, IInv,
             TypeOK
    <2>2. CASE StallStop(r)
      BY <2>2 DEF StallStop, podVars, runVars, controlVars, requestVars, worldVars, IInv, TypeOK
    <2>3. QED
      BY <2>1, <2>2
  <1>2. TypeOK'
    BY <1>1 DEF IInv, TypeOK
  <1>3. QED
    BY <1>1, <1>2, SameBoxes, FrameInv DEF IInv, GenerationsCounted

(* Ending a run that has no live worker and no consumer.                    *)
LEMMA EndedInv ==
  ASSUME IInv, TypeOK', NEW r \in Run, r \notin alive, consumer[r] = "none",
         runs' = [runs EXCEPT ![r].state = "ended"],
         UNCHANGED <<intent, consumer, active, alive, boxes, gen, reworks>>,
         \A p \in Pod :
           status'[p] = "deleted" => status[p] = "deleted" /\ box'[p] \in {None, box[p]}
  PROVE  IInv'
  <1>1. /\ runs'[r].state = "ended"
        /\ \A q \in Run : /\ q # r => runs'[q] = runs[q]
                          /\ runs'[q].pod = runs[q].pod /\ runs'[q].box = runs[q].box
    BY DEF IInv, TypeOK
  <1>2. Unsettled' = Unsettled \ {r} /\ OpenIntents' = OpenIntents
    BY <1>1 DEF Unsettled, OpenIntents
  <1>3. WorkersRecorded'
    BY <1>1, <1>2 DEF IInv, TypeOK, WorkersRecorded
  <1>4. ConsumersOwn'
    BY <1>1, <1>2 DEF IInv, ConsumersOwn
  <1>5. DeletionsExclude'
    BY <1>1, <1>2 DEF IInv, DeletionsExclude
  <1>6. QED
    BY <1>3, <1>4, <1>5 DEF IInv, GenerationsCounted

(* A stalled run ends in a stopped local box, which ended its worker.       *)
LEMMA StallSettleInv == ASSUME IInv, NEW r \in Run, StallSettle(r) PROVE IInv'
  <1>1. /\ boxes[runs[r].box] = "stopped" /\ runs[r].pod \notin Sandbox
        /\ \A q \in Pod : active[q] = None
        /\ status[runs[r].pod] # "deleted" /\ r \in Unsettled
        /\ runs' = [runs EXCEPT ![r].state = "ended"]
        /\ stall' = [stall EXCEPT ![r] = "settled"]
        /\ status' = [status EXCEPT ![runs[r].pod] = "failed"]
        /\ UNCHANGED <<gen, box, intent, stopSent, stopCalls, consumer, active, processing,
                       rework, reworks, recovering, visits, kills, alive, boxes, crashes>>
    BY DEF StallSettle, StallPolicy, controlVars, requestVars, worldVars
  <1>2. r \notin alive
    BY <1>1 DEF IInv, WorkersRecorded
  <1>3. consumer[r] = "none"
    BY <1>1 DEF IInv, TypeOK, ConsumersOwn, Run, None
  <1>4. TypeOK'
    <2>1. runs' \in [Run -> RunRecord]
      <3>1. runs \in [Run -> RunRecord] /\ runs' = [runs EXCEPT ![r].state = "ended"]
        BY <1>1 DEF IInv, TypeOK, RunRecord
      <3>2. [runs[r] EXCEPT !.state = "ended"] \in RunRecord
        BY <3>1 DEF RunRecord, RunState
      <3>3. QED
        BY <3>1, <3>2
    <2>2. stall' \in [Run -> {"none", "pending", "settled"}] /\ status' \in [Pod -> Status]
      BY <1>1 DEF IInv, TypeOK, Status
    <2>3. QED
      BY <1>1, <2>1, <2>2 DEF IInv, TypeOK, RunRecord
  <1>5. \A p \in Pod : status'[p] = "deleted" => status[p] = "deleted"
    BY <1>1 DEF IInv, TypeOK
  <1>6. QED
    BY <1>1, <1>2, <1>3, <1>4, <1>5, EndedInv

(* An unverified run ends when its sandbox is confirmed deleted.            *)
LEMMA ReconcileInv == ASSUME IInv, NEW r \in Run, ReconcileTermination(r) PROVE IInv'
  <1>1. /\ boxes[runs[r].box] = "deleted" /\ active[runs[r].pod] = None
        /\ runs[r].state = "unverified"
        /\ runs' = [runs EXCEPT ![r].state = "ended"]
        /\ box' = [box EXCEPT ![runs[r].pod] = None]
        /\ UNCHANGED <<status, gen, intent, stall, stopSent, stopCalls, consumer, active,
                       processing, rework, reworks, recovering, visits, kills,
                       alive, boxes, crashes>>
    BY DEF ReconcileTermination, Reconcilable, recoveryVars, controlVars, requestVars, worldVars
  <1>2. r \notin alive
    BY <1>1 DEF IInv, WorkersRecorded
  <1>3. consumer[r] = "none"
    BY <1>1 DEF IInv, TypeOK, ConsumersOwn, Run, None
  <1>4. TypeOK'
    <2>1. runs' \in [Run -> RunRecord] /\ box' \in [Pod -> Box \cup {None}]
      BY <1>1 DEF IInv, TypeOK, RunRecord, RunState
    <2>2. QED
      BY <1>1, <2>1 DEF IInv, TypeOK, RunRecord
  <1>5. \A p \in Pod : box'[p] \in {None, box[p]}
    BY <1>1 DEF IInv, TypeOK
  <1>6. QED
    BY <1>1, <1>2, <1>3, <1>4, <1>5, EndedInv
----------------------------------------------------------------------------
(* The invariant holds in every reachable state of the task.                *)
THEOREM TaskInvariant == Spec => []IInv
  <1>1. IInv /\ [Next]_taskVars => IInv'
    <2> SUFFICES ASSUME IInv, [Next]_taskVars PROVE IInv'
      OBVIOUS
    <2>1. ASSUME NEW p \in Pod,
                 \/ Launch(p) \/ Resume(p) \/ Admit(p) \/ Conclude(p)
                 \/ ReworkBegin(p) \/ ReworkQueue(p)
                 \/ KillBegin(p) \/ KillBox(p) \/ KillEnd(p)
                 \/ RecoverKilling(p) \/ RecoverBegin(p) \/ RecoverEnd(p)
                 \/ DeleteAcquire(p) \/ DeleteBox(p) \/ DeleteFinish(p)
          PROVE  IInv'
      BY <2>1, LaunchInv, ResumeInv, AdmitInv, ConcludeInv, ReworkBeginInv, ReworkQueueInv,
         KillMovesInv, ReconcileVisitInv, BoxInv, DeleteAcquireInv, DeleteFinishInv
    <2>2. ASSUME NEW r \in Run,
                 \/ ConsumerStep(r) \/ ReportUnverified(r)
                 \/ StallAdmit(r) \/ StallStop(r) \/ StallSettle(r)
                 \/ ReconcileTermination(r) \/ WorkerExits(r)
          PROVE  IInv'
      BY <2>2, StartInv, ReadInv, ReportUnverifiedInv, ExitObservedInv, ExitUnobservedInv,
         SettleInv, StallInv, StallSettleInv, ReconcileInv, WorkerExitsInv DEF ConsumerStep
    <2>3. ASSUME NEW b \in Box, BoxStops(b) \/ BoxGone(b)
          PROVE  IInv'
      BY <2>3, BoxInv
    <2>4. CASE UNCHANGED taskVars
      <3>1. /\ UNCHANGED <<status, gen, box, intent, stall, stopSent, stopCalls, runs, consumer>>
            /\ UNCHANGED <<active, processing, rework, reworks, recovering, visits, kills,
                           alive, boxes,
                           crashes>>
        BY <2>4 DEF taskVars, podVars, recoveryVars, runVars, controlVars, requestVars,
               worldVars
      <3>2. TypeOK'
        BY <3>1 DEF IInv, TypeOK
      <3>3. QED
        BY <3>1, <3>2, SameBoxes, FrameInv DEF IInv, GenerationsCounted
    <2>5. QED
      BY <2>1, <2>2, <2>3, <2>4, CrashInv DEF Next
  <1>2. QED
    BY <1>1, InitInv, PTL DEF Spec

(* The types of the tables and of the daemon's memory.                      *)
THEOREM TaskTypeOK == Spec => []TypeOK
  BY TaskInvariant, PTL DEF IInv

(* A live worker is always recorded in the ledger, and the task never has    *)
(* two unsettled runs (task-execution-ledger.ts:663-674,                     *)
(* observed-runtime-exit.ts:17-25).                                          *)
THEOREM TaskLiveWorkerIsRecorded == Spec => []LiveWorkerIsRecorded
  <1>1. IInv => LiveWorkerIsRecorded
    <2> SUFFICES ASSUME IInv PROVE LiveWorkerIsRecorded
      OBVIOUS
    <2>1. Unsettled = {} \/ \E r \in Run : Unsettled = {r}
      BY DEF IInv, WorkersRecorded, Unsettled
    <2>2. Cardinality(Unsettled) \in {0, 1}
      BY <2>1, FS_EmptySet, FS_Singleton
    <2>3. QED
      BY <2>2 DEF IInv, WorkersRecorded, LiveWorkerIsRecorded
  <1>2. QED
    BY <1>1, TaskInvariant, PTL

(* A deletion works on a task nobody uses, and a deleted pod left nothing in *)
(* use behind (deletion-ownership.ts:62-116).                                *)
THEOREM TaskDeletionIsAlone == Spec => []DeletionIsAlone
  <1>1. IInv => DeletionIsAlone
    BY DEF IInv, TypeOK, WorkersRecorded, ConsumersOwn, DeletionsExclude, DeletionIsAlone,
           Unsettled, RunState
  <1>2. QED
    BY <1>1, TaskInvariant, PTL
----------------------------------------------------------------------------
(* What a step can do to the ledger and to the intents.                     *)

Takes(r) ==
  /\ Unsettled = {} /\ OpenIntents = {}
  /\ runs[r].state = "unused" /\ runs'[r].state = "open"
  /\ \A q \in Run : q # r => runs'[q] = runs[q]
  /\ intent' = intent

GivesBack(r) ==
  /\ r \in Unsettled /\ r \notin alive /\ runs'[r].state = "ended"
  /\ \A q \in Run : q # r => runs'[q] = runs[q]
  /\ intent' = intent

Keeps(r) ==
  /\ r \in Unsettled /\ runs'[r].state = "unverified"
  /\ \A q \in Run : q # r => runs'[q] = runs[q]
  /\ intent' = intent

BeginsDelete(p) ==
  /\ Unsettled = {} /\ runs' = runs
  /\ intent' = [intent EXCEPT ![p] = "open"]

EndsDelete(p) ==
  /\ intent[p] = "open" /\ runs' = runs
  /\ intent' = [intent EXCEPT ![p] = "done"]

(* A step gives the task to a run, takes it back from a run whose worker is  *)
(* over, retains a run, begins or ends a deletion, or does none of it.       *)
LEMMA LedgerSteps ==
  ASSUME IInv, [Next]_taskVars
  PROVE  \/ \E r \in Run : Takes(r) \/ GivesBack(r) \/ Keeps(r)
         \/ \E p \in Pod : BeginsDelete(p) \/ EndsDelete(p)
         \/ runs' = runs /\ intent' = intent
  <1>1. ASSUME NEW p \in Pod, Admit(p)
        PROVE  \E r \in Run : Takes(r)
    <2>1. PICK r \in Run :
            /\ runs[r].state = "unused"
            /\ runs' = [runs EXCEPT ![r] = [state |-> "open", pod |-> p, gen |-> gen[p],
                                            box |-> box[p]]]
      BY <1>1 DEF Admit
    <2>2. runs'[r].state = "open" /\ \A q \in Run : q # r => runs'[q] = runs[q]
      BY <2>1 DEF IInv, TypeOK
    <2>3. QED
      BY <1>1, <2>1, <2>2 DEF Admit, MayBegin, TaskAvailable, Takes
  <1>2. ASSUME NEW r \in Run, ReportUnverified(r) \/ ExitUnobserved(r)
        PROVE  Keeps(r)
    <2>1. r \in Unsettled /\ runs' = Retained(r) /\ intent' = intent
      BY <1>2 DEF ReportUnverified, ExitUnobserved, IInv, ConsumersOwn
    <2>2. QED
      BY <2>1, RetainedUnsettled DEF IInv, Keeps
  <1>3. ASSUME NEW r \in Run, Settle(r)
        PROVE  GivesBack(r) \/ Keeps(r)
    <2>1. /\ r \in Unsettled /\ intent' = intent
          /\ runs[r].state = "open" => r \notin alive
          /\ runs' = [runs EXCEPT ![r].state = IF runs[r].state = "open" THEN "ended"
                                                ELSE runs[r].state]
      BY <1>3 DEF Settle, IInv, ConsumersOwn
    <2>2. /\ runs'[r].state = IF runs[r].state = "open" THEN "ended" ELSE runs[r].state
          /\ \A q \in Run : q # r => runs'[q] = runs[q]
      BY <2>1 DEF IInv, TypeOK
    <2>3. QED
      BY <2>1, <2>2 DEF GivesBack, Keeps, Unsettled
  <1>4. ASSUME NEW r \in Run, StallSettle(r) \/ ReconcileTermination(r)
        PROVE  GivesBack(r)
    <2>1. /\ r \in Unsettled /\ r \notin alive /\ intent' = intent
          /\ runs' = [runs EXCEPT ![r].state = "ended"]
      BY <1>4 DEF StallSettle, StallPolicy, ReconcileTermination, Reconcilable, IInv,
                  WorkersRecorded, Unsettled
    <2>2. runs'[r].state = "ended" /\ \A q \in Run : q # r => runs'[q] = runs[q]
      BY <2>1 DEF IInv, TypeOK
    <2>3. QED
      BY <2>1, <2>2 DEF GivesBack
  <1>5. ASSUME NEW p \in Pod, DeleteAcquire(p) \/ DeleteFinish(p)
        PROVE  BeginsDelete(p) \/ EndsDelete(p)
    BY <1>5 DEF DeleteAcquire, DeleteFinish, BeginsDelete, EndsDelete, runVars
  <1>6. ASSUME NEW p \in Pod,
               \/ Launch(p) \/ Resume(p) \/ Conclude(p) \/ ReworkBegin(p) \/ ReworkQueue(p)
               \/ KillBegin(p) \/ KillBox(p) \/ KillEnd(p) \/ DeleteBox(p)
               \/ RecoverKilling(p) \/ RecoverBegin(p) \/ RecoverEnd(p)
        PROVE  runs' = runs /\ intent' = intent
    BY <1>6 DEF Launch, Resume, Conclude, ReworkBegin, ReworkQueue, KillBegin, KillBox, KillEnd,
                RecoverKilling, RecoverBegin, RecoverEnd, DeleteBox, runVars
  <1>7. ASSUME NEW r \in Run,
               \/ Start(r) \/ Read(r) \/ ExitObserved(r) \/ StallAdmit(r) \/ StallStop(r)
               \/ WorkerExits(r)
        PROVE  runs' = runs /\ intent' = intent
    BY <1>7 DEF Start, Read, ExitObserved, StallAdmit, StallStop, WorkerExits, runVars
  <1>8. ASSUME \/ \E b \in Box : BoxStops(b) \/ BoxGone(b)
               \/ Crash
               \/ UNCHANGED taskVars
        PROVE  runs' = runs /\ intent' = intent
    BY <1>8 DEF BoxStops, BoxGone, Crash, taskVars, runVars
  <1>9. QED
    BY <1>1, <1>2, <1>3, <1>4, <1>5, <1>6, <1>7, <1>8 DEF Next, ConsumerStep

(* A run leaves the open set of the ledger only when its worker is over, and *)
(* never comes back (165_task_executions.sql, observed-runtime-exit.ts).     *)
THEOREM TaskSettledOnEvidence == Spec => SettledOnEvidence
  <1>1. ASSUME IInv, [Next]_taskVars
        PROVE  \A r \in Run :
                 /\ runs[r].state # "ended" /\ runs'[r].state = "ended" => r \notin alive
                 /\ runs[r].state = "ended" => runs'[r] = runs[r]
    BY <1>1, LedgerSteps DEF Takes, GivesBack, Keeps, BeginsDelete, EndsDelete, Unsettled
  <1>2. IInv /\ [Next]_taskVars
          => [\A r \in Run :
                /\ runs[r].state # "ended" /\ runs'[r].state = "ended" => r \notin alive
                /\ runs[r].state = "ended" => runs'[r] = runs[r]]_taskVars
    BY <1>1
  <1>3. QED
    BY <1>2, TaskInvariant, PTL DEF Spec, SettledOnEvidence

Released == {r \in Run : runs[r].state = "ended"}

(* The ledger and the deletion intents implement the readers-writer custody  *)
(* of the task.                                                              *)
THEOREM TaskImplementsCustody == Spec => ImplementsCustody
  <1>1. Init => Custody!Init
    BY DEF Init, NoRun, Custody!Init, Unsettled, OpenIntents
  <1>2. ASSUME IInv, [Next]_taskVars
        PROVE  [Custody!Next]_(Custody!custodyVars)
    <2>1. ASSUME NEW r \in Run, Takes(r) PROVE Custody!Take(r)
      <3>1. Unsettled' = {r} /\ OpenIntents' = OpenIntents /\ Released' = Released
            /\ r \notin Released
        BY <2>1 DEF Takes, Unsettled, OpenIntents, Released
      <3>2. QED
        BY <2>1, <3>1 DEF Takes, Custody!Take, Released
    <2>2. ASSUME NEW r \in Run, GivesBack(r) PROVE Custody!GiveBack(r)
      <3>1. Unsettled = {r}
        BY <1>2, <2>2 DEF GivesBack, IInv, WorkersRecorded
      <3>2. Unsettled' = {} /\ OpenIntents' = OpenIntents /\ Released' = Released \cup {r}
        BY <2>2, <3>1 DEF GivesBack, Unsettled, OpenIntents, Released
      <3>3. QED
        BY <3>1, <3>2 DEF Custody!GiveBack, Released
    <2>3. ASSUME NEW r \in Run, Keeps(r) PROVE UNCHANGED Custody!custodyVars
      <3>1. Unsettled' = Unsettled /\ OpenIntents' = OpenIntents /\ Released' = Released
        BY <2>3 DEF Keeps, Unsettled, OpenIntents, Released
      <3>2. QED
        BY <3>1 DEF Custody!custodyVars, Released
    <2>4. ASSUME NEW p \in Pod, BeginsDelete(p) PROVE Custody!BeginDelete(p)
      <3>1. Unsettled' = Unsettled /\ OpenIntents' = OpenIntents \cup {p} /\ Released' = Released
        BY <1>2, <2>4 DEF BeginsDelete, Unsettled, OpenIntents, Released, IInv, TypeOK
      <3>2. QED
        BY <2>4, <3>1 DEF BeginsDelete, Custody!BeginDelete, Released
    <2>5. ASSUME NEW p \in Pod, EndsDelete(p) PROVE Custody!EndDelete(p)
      <3>1. /\ Unsettled' = Unsettled /\ OpenIntents' = OpenIntents \ {p} /\ Released' = Released
            /\ p \in OpenIntents
        BY <1>2, <2>5 DEF EndsDelete, Unsettled, OpenIntents, Released, IInv, TypeOK
      <3>2. QED
        BY <3>1 DEF Custody!EndDelete, Released
    <2>6. ASSUME runs' = runs, intent' = intent PROVE UNCHANGED Custody!custodyVars
      BY <2>6 DEF Custody!custodyVars, Unsettled, OpenIntents
    <2>7. QED
      BY <1>2, <2>1, <2>2, <2>3, <2>4, <2>5, <2>6, LedgerSteps DEF Custody!Next
  <1>3. QED
    BY <1>1, <1>2, TaskInvariant, PTL DEF Spec, ImplementsCustody, Custody!Spec
----------------------------------------------------------------------------
(* The stop-and-retain recovery.  Its two invariants are inductive beside    *)
(* IInv: a pending request excludes consumers, whose steps would otherwise   *)
(* settle its run.                                                           *)

\* A stop that was not sent was not issued, and one that was, at most once.
StopsFollowFlags == \A r \in Run : stopCalls[r] <= 1 /\ (r \notin stopSent => stopCalls[r] = 0)

\* The inductive invariant of the recovery.
StallInvariant == IInv /\ PendingRecoveryHolds /\ StopsFollowFlags

(* A step that leaves the tables alone and registers no consumer keeps the   *)
(* policy of the pending request.                                            *)
LEMMA PolicyKept ==
  ASSUME IInv, PendingRecoveryHolds,
         UNCHANGED <<status, gen, box, runs, intent, stall>>,
         \A p \in Pod : active'[p] = active[p] \/ active'[p] = None
  PROVE  PendingRecoveryHolds'
  BY DEF PendingRecoveryHolds, PendingStalls, StallPolicy, Unsettled, TaskAvailable,
         OpenIntents, OwnsLifecycle

(* Under a pending request no row is written, no run admitted and no consumer *)
(* registered.                                                               *)
LEMMA PendingExcludes ==
  ASSUME IInv, PendingRecoveryHolds, PendingStalls # {}
  PROVE  /\ ~MayUpdate /\ ~MayBegin
         /\ Unsettled # {} /\ \A p \in Pod : active[p] = None
         /\ \A r \in Run : consumer[r] = "none"
         /\ \A r \in PendingStalls : Unsettled = {r} /\ runs[r].pod \notin Sandbox
  <1>1. PICK r \in PendingStalls : StallPolicy(r)
    BY DEF PendingRecoveryHolds
  <1>2. \A p \in Pod : active[p] = None
    BY <1>1 DEF StallPolicy
  <1>3. ASSUME NEW q \in Run, consumer[q] # "none" PROVE FALSE
    <2>1. runs[q].pod \in Pod /\ active[runs[q].pod] = q
      BY <1>3 DEF IInv, TypeOK, ConsumersOwn
    <2> QED BY <1>2, <2>1 DEF Run, None
  <1>4. Unsettled = {r} /\ \A q \in PendingStalls : Unsettled = {q} /\ runs[q].pod \notin Sandbox
    BY <1>1 DEF StallPolicy, PendingRecoveryHolds
  <1> QED BY <1>1, <1>2, <1>3, <1>4 DEF MayUpdate, MayBegin

(* The steps of pods: under a pending request none of them writes a row.     *)
LEMMA PodKeepsStall ==
  ASSUME IInv, PendingRecoveryHolds, NEW p \in Pod,
         \/ Launch(p) \/ Resume(p) \/ Admit(p) \/ Conclude(p)
         \/ ReworkBegin(p) \/ ReworkQueue(p)
         \/ KillBegin(p) \/ KillBox(p) \/ KillEnd(p)
         \/ RecoverKilling(p) \/ RecoverBegin(p) \/ RecoverEnd(p)
         \/ DeleteAcquire(p) \/ DeleteBox(p) \/ DeleteFinish(p)
  PROVE  PendingRecoveryHolds' /\ UNCHANGED recoveryVars
  <1>1. UNCHANGED recoveryVars
    BY DEF Launch, Resume, Admit, Conclude, ReworkBegin, ReworkQueue, KillBegin, KillBox,
           KillEnd, RecoverKilling, RecoverBegin, RecoverEnd, DeleteAcquire, DeleteBox,
           DeleteFinish, controlVars, requestVars
  <1>2. CASE PendingStalls = {}
    BY <1>1, <1>2 DEF PendingRecoveryHolds, PendingStalls, recoveryVars
  <1>3. CASE PendingStalls # {}
    <2>1. ~MayUpdate /\ ~MayBegin /\ Unsettled # {}
      BY <1>3, PendingExcludes
    <2>2. \/ Conclude(p) \/ ReworkQueue(p) \/ KillBox(p) \/ KillEnd(p) \/ RecoverEnd(p)
          \/ DeleteBox(p)
      BY <2>1 DEF Launch, Resume, Admit, ReworkBegin, KillBegin, RecoverKilling, RecoverBegin,
                  DeleteAcquire, DeleteFinish
    <2>3. UNCHANGED <<status, gen, box, runs, intent, stall, active>>
      BY <2>1, <2>2, <1>1 DEF Conclude, ReworkQueue, KillBox, KillEnd, RecoverEnd, DeleteBox,
             podVars, runVars, recoveryVars
    <2> QED BY <1>1, <2>3, PolicyKept
  <1> QED BY <1>1, <1>2, <1>3

(* The steps of runs: a consumer and a pending request exclude each other.   *)
LEMMA RunKeepsStall ==
  ASSUME IInv, PendingRecoveryHolds, NEW r \in Run,
         \/ ConsumerStep(r) \/ ReportUnverified(r) \/ ReconcileTermination(r) \/ WorkerExits(r)
  PROVE  PendingRecoveryHolds' /\ UNCHANGED recoveryVars
  <1>1. UNCHANGED recoveryVars
    BY DEF ConsumerStep, Start, Read, ExitObserved, ExitUnobserved, Settle, ReportUnverified,
           ReconcileTermination, WorkerExits
  <1>2. CASE PendingStalls = {}
    BY <1>1, <1>2 DEF PendingRecoveryHolds, PendingStalls, recoveryVars
  <1>3. CASE PendingStalls # {}
    <2>1. consumer[r] = "none"
      BY <1>3, PendingExcludes
    <2>2. ~ReconcileTermination(r)
      <3>1. ASSUME runs[r].state = "unverified" PROVE runs[r].pod \notin Sandbox
        BY <1>3, <3>1, PendingExcludes DEF Unsettled
      <3> QED BY <3>1 DEF ReconcileTermination, Reconcilable
    <2>3. WorkerExits(r)
      BY <2>1, <2>2 DEF ConsumerStep, Start, Read, ExitObserved, ExitUnobserved, Settle,
                        ReportUnverified
    <2>4. UNCHANGED <<status, gen, box, runs, intent, stall, active>>
      BY <2>3, <1>1 DEF WorkerExits, podVars, runVars, recoveryVars
    <2> QED BY <1>1, <2>4, PolicyKept
  <1> QED BY <1>1, <1>2, <1>3

(* The recovery's own steps.                                                 *)
LEMMA RecoveryKeepsStall ==
  ASSUME StallInvariant, NEW r \in Run, StallAdmit(r) \/ StallStop(r) \/ StallSettle(r)
  PROVE  PendingRecoveryHolds' /\ StopsFollowFlags'
  <1>0. /\ stall \in [Run -> {"none", "pending", "settled"}] /\ stopSent \subseteq Run
        /\ stopCalls \in [Run -> Nat]
    BY DEF StallInvariant, IInv, TypeOK
  <1>1. CASE StallAdmit(r)
    <2>1. /\ UNCHANGED <<status, gen, box, runs, intent, active, stopSent, stopCalls>>
          /\ StallPolicy(r) /\ PendingStalls' = {r}
      BY <1>0, <1>1 DEF StallAdmit, PendingStalls, podVars, runVars
    <2>2. StallPolicy(r)'
      BY <2>1 DEF StallPolicy, Unsettled, TaskAvailable, OpenIntents, OwnsLifecycle
    <2> QED BY <2>1, <2>2 DEF PendingRecoveryHolds, StallInvariant, StopsFollowFlags
  <1>2. CASE StallStop(r)
    <2>1. UNCHANGED <<status, gen, box, runs, intent, stall, active>>
      BY <1>2 DEF StallStop, podVars, runVars
    <2>2. stopCalls[r] = 0
      BY <1>2 DEF StallStop, StallInvariant, StopsFollowFlags
    <2>3. \A q \in Run : stopCalls'[q] = stopCalls[q] \/ (q = r /\ stopCalls'[q] = 1)
      <3>1. CASE UNCHANGED stopCalls
        BY <3>1
      <3>2. CASE stopCalls' = [stopCalls EXCEPT ![r] = @ + 1]
        BY <1>0, <2>2, <3>2
      <3> QED BY <1>2, <3>1, <3>2 DEF StallStop
    <2>4. stopSent' = stopSent \cup {r}
      BY <1>2 DEF StallStop
    <2> QED BY <2>1, <2>3, <2>4, PolicyKept DEF StallInvariant, StopsFollowFlags
  <1>3. CASE StallSettle(r)
    <2>1. r \in PendingStalls
      BY <1>3 DEF StallSettle, PendingStalls
    <2>2. PendingStalls = {r}
      BY <2>1, PendingExcludes DEF StallInvariant
    <2>3. PendingStalls' = {}
      BY <1>0, <1>3, <2>2 DEF StallSettle, PendingStalls
    <2> QED BY <1>3, <2>3 DEF StallSettle, PendingRecoveryHolds, StallInvariant, StopsFollowFlags
  <1> QED BY <1>1, <1>2, <1>3

(* StallInvariant holds in every reachable state of the task.               *)
LEMMA StallInvariantHolds == Spec => []StallInvariant
  <1>1. Init => PendingRecoveryHolds /\ StopsFollowFlags
    BY DEF Init, PendingRecoveryHolds, PendingStalls, StopsFollowFlags
  <1>2. StallInvariant /\ [Next]_taskVars => PendingRecoveryHolds' /\ StopsFollowFlags'
    <2> SUFFICES ASSUME StallInvariant, [Next]_taskVars
                 PROVE  PendingRecoveryHolds' /\ StopsFollowFlags'
      OBVIOUS
    <2>1. ASSUME UNCHANGED recoveryVars PROVE StopsFollowFlags'
      BY <2>1 DEF recoveryVars, StallInvariant, StopsFollowFlags
    <2>2. ASSUME NEW b \in Box, BoxStops(b) \/ BoxGone(b)
          PROVE  PendingRecoveryHolds' /\ UNCHANGED recoveryVars
      <3>1. UNCHANGED <<status, gen, box, runs, intent, stall, active, recoveryVars>>
        BY <2>2 DEF BoxStops, BoxGone, podVars, runVars, recoveryVars
      <3> QED BY <3>1, PolicyKept DEF StallInvariant
    <2>3. CASE Crash
      <3>1. /\ UNCHANGED <<status, gen, box, runs, intent, stall, recoveryVars>>
            /\ \A p \in Pod : active'[p] = None
        BY <2>3 DEF Crash, podVars, recoveryVars
      <3> QED BY <2>1, <3>1, PolicyKept DEF StallInvariant
    <2>4. CASE UNCHANGED taskVars
      <3>1. UNCHANGED <<status, gen, box, runs, intent, stall, active, recoveryVars>>
        BY <2>4 DEF taskVars, podVars, recoveryVars, runVars
      <3> QED BY <2>1, <3>1, PolicyKept DEF StallInvariant
    <2>5. CASE Next
      BY <2>1, <2>2, <2>3, <2>5, PodKeepsStall, RunKeepsStall, RecoveryKeepsStall
         DEF Next, StallInvariant
    <2> QED BY <2>4, <2>5
  <1> QED BY <1>1, <1>2, TaskInvariant, PTL DEF Spec, StallInvariant

(* A pending stop-and-retain request stays able to settle, whatever reworks,  *)
(* kills, recoveries and crashes come in between                             *)
(* (stalled-worker-recovery-repository.ts).                                  *)
THEOREM TaskPendingRecoveryHolds == Spec => []PendingRecoveryHolds
  BY StallInvariantHolds, PTL DEF StallInvariant

(* The stop of a stalled worker is issued at most once, for any number of    *)
(* requests and crashes (stalled-worker-recovery.ts).                        *)
THEOREM TaskStopsOnce == Spec => []StopsOnce
  <1>1. StallInvariant => StopsOnce
    BY DEF StallInvariant, StopsFollowFlags, StopsOnce
  <1> QED BY <1>1, StallInvariantHolds, PTL
=============================================================================
