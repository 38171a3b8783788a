----------------------------- MODULE EffectOnce -----------------------------
(* What a durable intent promises about one remote effect: it is requested at *)
(* most once, never after its outcome is known, and a known outcome is final. *)
(* The outcome may become known without a request, when others produced it.   *)
EXTENDS Naturals

CONSTANTS Outcome,  \* outcomes the remote may report
          Unknown   \* no outcome is known

VARIABLES requests,  \* requests sent to the remote
          outcome    \* the outcome on record

effectVars == <<requests, outcome>>

Init == requests = 0 /\ outcome = Unknown

Request ==
  /\ requests = 0 /\ outcome = Unknown
  /\ requests' = 1
  /\ UNCHANGED outcome

Learn ==
  /\ outcome = Unknown
  /\ outcome' \in Outcome
  /\ UNCHANGED requests

Next == Request \/ Learn

Spec == Init /\ [][Next]_effectVars
=============================================================================
