---------------------------- MODULE PodDispatch ----------------------------
(* What the pod queue promises its callers: a dispatcher of named jobs with *)
(* a fixed number of slots.  A pod is waiting, running or neither, a slot is *)
(* never idle while a pod waits, and a rerun asked for while the pod runs is *)
(* owed until the run is released.  Waiting order and bookkeeping counters   *)
(* are left to the implementation (PodQueue).                                *)
EXTENDS Integers, FiniteSets

CONSTANTS Pod,       \* pod identifiers
          Capacity   \* number of slots

VARIABLES waiting,   \* pods accepted and not yet started
          running,   \* pods holding a slot
          owed       \* pods to be accepted again when their run is released

dispatchVars == <<waiting, running, owed>>

Init == waiting = {} /\ running = {} /\ owed = {}

\* The slots after at most one waiting pod was moved into a free one.
Fill(w, r) ==
  \/ /\ Cardinality(r) >= Capacity \/ w = {}
     /\ waiting' = w /\ running' = r
  \/ /\ Cardinality(r) < Capacity
     /\ \E p \in w : waiting' = w \ {p} /\ running' = r \cup {p}

Request(p) ==
  /\ Fill(IF p \in running THEN waiting ELSE waiting \cup {p}, running)
  /\ UNCHANGED owed

RequestAgain(p) ==
  /\ p \in running
  /\ owed' = owed \cup {p}
  /\ Fill(waiting, running)

Release(p) ==
  /\ p \in running
  /\ owed' = owed \ {p}
  /\ Fill(IF p \in owed THEN waiting \cup {p} ELSE waiting, running \ {p})

\* A slot is taken back from a run that will never release it.
Evict(p) ==
  /\ p \in running
  /\ Fill(waiting, running \ {p})
  /\ UNCHANGED owed

Next == \E p \in Pod : Request(p) \/ RequestAgain(p) \/ Release(p) \/ Evict(p)

Spec == Init /\ [][Next]_dispatchVars
=============================================================================
