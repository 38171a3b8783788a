----------------------------- MODULE PrDelivery -----------------------------
(* The delivery of one branch as a pull request: the ledger of intents and    *)
(* receipts (pods/delivery-ledger.ts), the manager that reconciles before it  *)
(* creates (worktrees/durable-pr-manager.ts), and a host whose listing lags,  *)
(* whose answers get lost and whose users create and close pull requests too. *)
(* Intents of different repository, branch and base never meet, so there is   *)
(* one; several pods may deliver the same branch.                             *)
EXTENDS Naturals, FiniteSets

CONSTANTS Pod,         \* pods that deliver the branch
          MaxGen,      \* bound: lifecycle generation of a pod, from 1
          MaxPrs,      \* bound: pull requests ever opened for the branch
          MaxLost,     \* bound: answers of the host that never arrive
          MaxCrashes   \* bound: daemon crashes

ASSUME DeliveryAssumption ==
  /\ MaxGen \in Nat \ {0} /\ MaxPrs \in Nat /\ MaxLost \in Nat /\ MaxCrashes \in Nat

Pr == 1..MaxPrs
None == 0

VARIABLES
  \* durable
  gen,      \* lifecycle_generation of each pod
  held,     \* pods with an unanswered decision or in 'killing' or 'killed'
  intent,   \* the row of delivery_intents
  receipt,  \* the pull request of the row of delivery_receipts, or None
  \* the daemon's memory
  op,       \* the operation in `pending`
  \* the host
  prs,      \* state of each pull request
  listed,   \* pull requests its listing shows
  posts,    \* creation requests sent, and how many of them may still take effect
  lost, crashes

hostVars == <<prs, listed>>
boundVars == <<lost, crashes>>
deliveryVars == <<gen, held, intent, receipt, op, hostVars, posts, boundVars>>

NoOp == [at |-> "idle", gen |-> 0, found |-> None]
NoIntent == [state |-> "none", pod |-> None, gen |-> 0]

Init ==
  /\ gen = [p \in Pod |-> 1]
  /\ held = {}
  /\ intent = NoIntent
  /\ receipt = None
  /\ op = NoOp
  /\ prs = [u \in Pr |-> "none"]
  /\ listed = {}
  /\ posts = [sent |-> 0, flying |-> 0]
  /\ lost = 0 /\ crashes = 0

Existing == {u \in Pr : prs[u] # "none"}
----------------------------------------------------------------------------
(* createPr: reserve, join an operation underway, or start one.              *)

Reserved(p) ==
  IF intent.state = "none" THEN [state |-> "reserved", pod |-> p, gen |-> gen[p]] ELSE intent

Call(p) ==
  /\ op.at = "idle" /\ receipt = None
  /\ intent' = Reserved(p)
  /\ op' = [NoOp EXCEPT !.at = "looking", !.gen = Reserved(p).gen]
  /\ UNCHANGED <<gen, held, receipt, hostVars, posts, boundVars>>

\* The operation ends without a result; its caller gets the error.
Ends == op' = NoOp

\* findPr: the listing is read; more than one match is an error.
Lookup ==
  /\ op.at = "looking"
  /\ \/ /\ Cardinality(listed) > 1
        /\ Ends
     \/ /\ listed = {}
        /\ op' = [op EXCEPT !.at = "absent"]
     \/ \E u \in listed :
        /\ listed = {u}
        /\ op' = IF prs[u] = "closed" THEN NoOp ELSE [op EXCEPT !.at = "found", !.found = u]
  /\ UNCHANGED <<gen, held, intent, receipt, hostVars, posts, boundVars>>

LookupFails ==
  /\ op.at = "looking" /\ lost < MaxLost
  /\ lost' = lost + 1
  /\ Ends
  /\ UNCHANGED <<gen, held, intent, receipt, hostVars, posts, crashes>>

\* record: the first receipt stays, and its intent is delivered.
Record(u) ==
  /\ receipt' = IF receipt = None THEN u ELSE receipt
  /\ intent' = IF receipt = None THEN [intent EXCEPT !.state = "delivered"] ELSE intent
  /\ Ends

RecordFound ==
  /\ op.at = "found"
  /\ Record(op.found)
  /\ UNCHANGED <<gen, held, hostVars, posts, boundVars>>

\* claim: only an intent that never created, of the generation that reserved it.
MayClaim(g) ==
  /\ intent.state = "reserved"
  /\ intent.gen = g /\ gen[intent.pod] = g
  /\ intent.pod \notin held

Claim ==
  /\ op.at = "absent"
  /\ IF MayClaim(op.gen)
     THEN /\ intent' = [intent EXCEPT !.state = "creating"]
          /\ op' = [op EXCEPT !.at = "drafting"]
     ELSE Ends /\ UNCHANGED intent
  /\ UNCHANGED <<gen, held, receipt, hostVars, posts, boundVars>>

\* The provider writes title and body, then sends its request.
Post ==
  /\ op.at = "drafting"
  /\ op' = [op EXCEPT !.at = "posted"]
  /\ posts' = [sent |-> posts.sent + 1, flying |-> posts.flying + 1]
  /\ UNCHANGED <<gen, held, intent, receipt, hostVars, boundVars>>

\* Mutant: a failed creation gives the intent back.
CreateFailsFreely ==
  /\ intent' = IF intent.state = "creating" THEN [intent EXCEPT !.state = "reserved"] ELSE intent
  /\ Ends
  /\ UNCHANGED receipt

\* The catch block: uncertain, if the intent is still creating.
CreateFails ==
  /\ intent' = IF intent.state = "creating" THEN [intent EXCEPT !.state = "uncertain"] ELSE intent
  /\ Ends
  /\ UNCHANGED receipt

\* Drafting or the request fails locally, or no answer comes in time.
GiveUp ==
  /\ op.at \in {"drafting", "posted"} /\ lost < MaxLost
  /\ lost' = lost + 1
  /\ CreateFails
  /\ UNCHANGED <<gen, held, hostVars, posts, crashes>>
----------------------------------------------------------------------------
(* The host.                                                                 *)

Open(u) == prs' = [prs EXCEPT ![u] = "open"]

NoneOpen == \A u \in Pr : prs[u] # "open"

\* The next pull request's number; the last one is left for the daemon's request.
NewPr == Cardinality(Existing) + 1

\* A creation request takes effect; its sender learns of it if it still waits.
\* The host has one open pull request per branch and base.
HostCreates ==
  /\ posts.flying > 0
  /\ posts' = [posts EXCEPT !.flying = @ - 1]
  /\ IF NoneOpen
     THEN /\ NewPr \in Pr /\ Open(NewPr)
          /\ IF op.at = "posted" THEN Record(NewPr) ELSE UNCHANGED <<intent, receipt, op>>
     ELSE /\ UNCHANGED prs
          /\ IF op.at = "posted" THEN CreateFails ELSE UNCHANGED <<intent, receipt, op>>
  /\ UNCHANGED <<gen, held, listed, boundVars>>

\* It never takes effect.
HostDrops ==
  /\ posts.flying > 0 /\ lost < MaxLost
  /\ posts' = [posts EXCEPT !.flying = @ - 1]
  /\ lost' = lost + 1
  /\ IF op.at = "posted" THEN CreateFails ELSE UNCHANGED <<intent, receipt, op>>
  /\ UNCHANGED <<gen, held, hostVars, crashes>>

\* The listing catches up.
HostLists(u) ==
  /\ u \in Existing \ listed
  /\ listed' = listed \cup {u}
  /\ UNCHANGED <<gen, held, intent, receipt, op, prs, posts, boundVars>>

\* Users of the host open, close, reopen and merge.
UserActs(u) ==
  /\ \/ u = NewPr /\ u < MaxPrs /\ NoneOpen /\ Open(u)
     \/ prs[u] = "open" /\ \E s \in {"closed", "merged"} : prs' = [prs EXCEPT ![u] = s]
     \/ prs[u] = "closed" /\ NoneOpen /\ Open(u)
  /\ UNCHANGED <<gen, held, intent, receipt, op, listed, posts, boundVars>>
----------------------------------------------------------------------------
(* The pods meanwhile: reworked, held by a decision or a kill, released.     *)

Rework(p) ==
  /\ gen[p] < MaxGen
  /\ gen' = [gen EXCEPT ![p] = @ + 1]
  /\ UNCHANGED <<held, intent, receipt, op, hostVars, posts, boundVars>>

Hold(p) ==
  /\ held' = IF p \in held THEN held \ {p} ELSE held \cup {p}
  /\ UNCHANGED <<gen, intent, receipt, op, hostVars, posts, boundVars>>

Crash ==
  /\ crashes < MaxCrashes
  /\ crashes' = crashes + 1
  /\ op' = NoOp
  /\ UNCHANGED <<gen, held, intent, receipt, hostVars, posts, lost>>

Next ==
  \/ \E p \in Pod : Call(p) \/ Rework(p) \/ Hold(p)
  \/ Lookup \/ LookupFails \/ RecordFound \/ Claim \/ Post \/ GiveUp
  \/ HostCreates \/ HostDrops \/ (\E u \in Pr : HostLists(u) \/ UserActs(u))
  \/ Crash

Spec == Init /\ [][Next]_deliveryVars
----------------------------------------------------------------------------
\* Types of the ledger, of the operation and of the host.
TypeOK ==
  /\ gen \in [Pod -> 1..MaxGen]
  /\ held \subseteq Pod
  /\ intent = NoIntent \/ intent \in [state : {"reserved", "creating", "uncertain", "delivered"},
                                       pod : Pod, gen : 1..MaxGen]
  /\ receipt \in Pr \cup {None}
  /\ op \in [at : {"idle", "looking", "absent", "found", "drafting", "posted"},
             gen : 0..MaxGen, found : Pr \cup {None}]
  /\ prs \in [Pr -> {"none", "open", "closed", "merged"}]
  /\ listed \subseteq Existing
  /\ posts \in [sent : 0..1, flying : 0..1]
  /\ lost \in 0..MaxLost /\ crashes \in 0..MaxCrashes

\* A receipt names a pull request of the branch that really exists, and goes with a
\* delivered intent: also when a late answer, a lookup and a crash compete to record it.
ReceiptIsReal ==
  /\ receipt # None => prs[receipt] # "none"
  /\ receipt # None <=> intent.state = "delivered"

\* While a request of the daemon may still open a pull request, the intent does not look
\* as if nothing had been sent: source adoption and stalled-worker recovery read it so.
FlyingIsMarked ==
  op.at \in {"drafting", "posted"} \/ posts.flying > 0 => intent.state \notin {"none", "reserved"}

Effect == INSTANCE EffectOnce WITH
  Outcome <- Pr, Unknown <- None, requests <- posts.sent, outcome <- receipt

\* The daemon asks the host at most once to open a pull request for the branch, never once
\* it knows of one, and its receipt is final; across retries, reworks, other pods with the
\* same branch, lost answers, a lagging listing and crashes.
CreatesOnce == Effect!Spec
=============================================================================
