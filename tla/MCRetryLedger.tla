--------------------------- MODULE MCRetryLedger ---------------------------
(* A task with two inputs, a policy of one automatic retry, three attempts and *)
(* one authorization: two pods in one generation, or one pod in two.           *)
EXTENDS RetryLedger, TLC

Same == Permutations(Pod)

Untouched(p) ==
  /\ ~asked[p] /\ gen[p] = 0 /\ \A g \in 0..MaxGen : call[<<p, g>>] = Idle
  /\ \A i \in DOMAIN attempts : attempts[i].pod # p
  /\ \A k \in Key : grant[k].pod # p

\* A pod is reworked only where it is alone.
ReworkedAlone == \A p, q \in Pod : p # q /\ gen[p] > 0 => Untouched(q)
=============================================================================
