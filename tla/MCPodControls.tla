--------------------------- MODULE MCPodControls ---------------------------
(* What operators do to a pod and what they say to its worker.  PodLifecycle    *)
(* takes the guidance of a worker for granted and OperatorGuidance its          *)
(* lifecycle, so a behaviour is one of either while the other rests.            *)
EXTENDS PodLifecycle, TLC

CONSTANTS Question, MaxBatch, MaxMessages, MaxRuns, MaxRestarts

VARIABLES part, podStatus, question, waiter, response, decided, messages, consumed,
          deliveries, received, run, active, dispatching, completing, restarts

guidanceVars == <<podStatus, question, waiter, response, decided, messages, consumed,
                  deliveries, received, run, active, dispatching, completing, restarts>>

Guidance == INSTANCE OperatorGuidance WITH status <- podStatus

ASSUME GuidanceAssumption == Guidance!GuidanceAssumption

Symmetry == Permutations(Killer) \cup Permutations(Question)

\* Bound: kills of a local pod come one at a time, those of a sandbox may overlap.
LocalKillsBound == local => \A k, l \in Killer : k = l \/ Idle \in {kill[k], kill[l]}

ControlsInit == part \in {"controls", "guidance"} /\ Init /\ Guidance!Init

ControlsNext ==
  /\ UNCHANGED part
  /\ \/ part = "controls" /\ Next /\ LocalKillsBound' /\ UNCHANGED guidanceVars
     \/ part = "guidance" /\ Guidance!Next /\ UNCHANGED vars

ControlsSpec == ControlsInit /\ [][ControlsNext]_<<part, vars, guidanceVars>>

\* Messages are consumed in the order they were sent, across lost answers, repeated reads and
\* changes of worker (operator-guidance-delivery.ts).
ConsumedInOrder == Guidance!ConsumedInOrder
=============================================================================
