----------------------------- MODULE KeyedQueue -----------------------------
(* The promise queue of util/keyed-promise-queue.ts, which serializes merges   *)
(* per repository and base and git commands per bare repository.  A call       *)
(* chains its function to the promise its key's slot holds and puts its own    *)
(* there; its finally block, a microtask after the function has settled,       *)
(* removes the slot if it is still its own.                                    *)
EXTENDS Naturals

CONSTANTS Key,      \* keys: what sections are serialized by
          NoKey,    \* the key of a call that was not made
          MaxCalls  \* bound: calls of run()

ASSUME QueueAssumption == MaxCalls \in Nat /\ NoKey \notin Key

Call == 1..MaxCalls   \* calls in the order they are made
None == 0

VARIABLES key,    \* the key of each call
          after,  \* the call whose promise each call is chained to, or None
          phase,  \* not made; chained; in its function; settled either way; returned
          locks   \* per key: the call whose promise is in the map, or None

queueVars == <<key, after, phase, locks>>

Init ==
  /\ key = [c \in Call |-> NoKey]
  /\ after = [c \in Call |-> None]
  /\ phase = [c \in Call |-> "unmade"]
  /\ locks = [k \in Key |-> None]

Made == {c \in Call : phase[c] # "unmade"}
Settled(c) == phase[c] \in {"resolved", "rejected", "returned"}
----------------------------------------------------------------------------
\* run(k, fn), up to its await.
Run(c, k) ==
  /\ phase[c] = "unmade" /\ \A d \in Call : d < c => d \in Made
  /\ key' = [key EXCEPT ![c] = k]
  /\ after' = [after EXCEPT ![c] = locks[k]]
  /\ phase' = [phase EXCEPT ![c] = "chained"]
  /\ locks' = [locks EXCEPT ![k] = c]

\* Mutant: existing.then(fn) alone: a rejected predecessor rejects the call.
BeginIfResolved(c) ==
  /\ phase[c] = "chained"
  /\ after[c] # None => Settled(after[c])
  /\ phase' = [phase EXCEPT ![c] =
       IF after[c] # None /\ phase[after[c]] = "rejected" THEN "rejected" ELSE "running"]
  /\ UNCHANGED <<key, after, locks>>

\* existing.then(fn, fn): the function begins once the predecessor has settled.
Begin(c) ==
  /\ phase[c] = "chained"
  /\ after[c] # None => Settled(after[c])
  /\ phase' = [phase EXCEPT ![c] = "running"]
  /\ UNCHANGED <<key, after, locks>>

\* The function resolves or throws.
Settle(c) ==
  /\ phase[c] = "running"
  /\ \E result \in {"resolved", "rejected"} : phase' = [phase EXCEPT ![c] = result]
  /\ UNCHANGED <<key, after, locks>>

\* The finally block.
Return(c) ==
  /\ phase[c] \in {"resolved", "rejected"}
  /\ phase' = [phase EXCEPT ![c] = "returned"]
  /\ locks' = [locks EXCEPT ![key[c]] = IF @ = c THEN None ELSE @]
  /\ UNCHANGED <<key, after>>

Next == \E c \in Call : Begin(c) \/ Settle(c) \/ Return(c) \/ \E k \in Key : Run(c, k)

Spec == Init /\ [][Next]_queueVars

\* Microtasks run; sections end.
Fairness == \A c \in Call : WF_queueVars(Begin(c)) /\ WF_queueVars(Settle(c)) /\ WF_queueVars(Return(c))

FairSpec == Spec /\ Fairness
----------------------------------------------------------------------------
\* Types of the queue and of its calls; a call is chained to an earlier one.
TypeOK ==
  /\ key \in [Call -> Key \cup {NoKey}]
  /\ after \in [Call -> Call \cup {None}] /\ \A c \in Call : after[c] < c
  /\ phase \in [Call -> {"unmade", "chained", "running", "resolved", "rejected", "returned"}]
  /\ locks \in [Key -> Call \cup {None}]

Running(k) == {c \in Call : key[c] = k /\ phase[c] = "running"}

\* Two sections of one key never overlap, although a slot is removed after its section has
\* ended and while later calls may already be chained to it.
Exclusive == \A k \in Key : \A c, d \in Running(k) : c = d

\* "The Map size tracks currently active": a slot belongs to a call that has not returned,
\* whatever becomes of its function.
SlotsAreActive == \A k \in Key : locks[k] # None => phase[locks[k]] # "returned"

\* "A failure on one task must never block subsequent tasks on the same key": every call's
\* function runs.
EveryCallRuns == \A c \in Call : (phase[c] = "chained") ~> (phase[c] = "running")
=============================================================================
