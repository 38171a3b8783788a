---------------------------- MODULE TaskCustody ----------------------------
(* What the daemon promises about one logical task: its source and resources *)
(* are held either by one worker run or by deletions, never by both, like a  *)
(* readers-writer lock.  A run that gave the task back never holds it again. *)
(* How a run is known to be over is left to the implementation               *)
(* (TaskExecution).                                                          *)

CONSTANTS Pod,   \* pods of the task
          Run    \* identities of worker runs

VARIABLES owner,     \* the run holding the task, as a set
          deleting,  \* pods whose deletion holds the task
          released   \* runs that held the task and gave it back

custodyVars == <<owner, deleting, released>>

Init == owner = {} /\ deleting = {} /\ released = {}

Take(r) ==
  /\ owner = {} /\ deleting = {}
  /\ r \notin released
  /\ owner' = {r}
  /\ UNCHANGED <<deleting, released>>

GiveBack(r) ==
  /\ owner = {r}
  /\ owner' = {}
  /\ released' = released \cup {r}
  /\ UNCHANGED deleting

BeginDelete(p) ==
  /\ owner = {}
  /\ deleting' = deleting \cup {p}
  /\ UNCHANGED <<owner, released>>

EndDelete(p) ==
  /\ p \in deleting
  /\ deleting' = deleting \ {p}
  /\ UNCHANGED <<owner, released>>

Next ==
  \/ \E r \in Run : Take(r) \/ GiveBack(r)
  \/ \E p \in Pod : BeginDelete(p) \/ EndDelete(p)

Spec == Init /\ [][Next]_custodyVars
=============================================================================
