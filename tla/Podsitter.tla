----------------------------- MODULE Podsitter -----------------------------
(* The supervising agent (podsitter/podsitter-service.ts with its repository  *)
(* and action executor).  One reconciliation at a time lists the pods that     *)
(* need attention, leases one attention after the other, has a model decide,   *)
(* and calls one operation of the pod manager.  The service runs one chain     *)
(* (serialize), so a lease is contested only by its own earlier life: the      *)
(* life number stands for owner and lease version.  Pods, the configuration,   *)
(* the activation window and the clock move at any time, and the daemon may    *)
(* crash.                                                                      *)
EXTENDS Naturals, FiniteSets

CONSTANTS Pod, Signature,   \* pods, and the signatures of their policy state
          Quiet,            \* the state of a pod that needs no attention
          Ready,            \* signatures of a deterministic approval
          Action, NoAction, Approve,
          OncePerWindow, OncePerPod,    \* action budgets
          MaxDecisions, MaxActions,     \* the configuration's ceilings per window
          MaxGen, MaxWindow, MaxCrashes, MaxChanges  \* bounds

ASSUME PodsitterAssumption ==
  /\ Quiet \notin Signature /\ Ready \subseteq Signature
  /\ Approve \in Action /\ NoAction \notin Action
  /\ OncePerWindow \cup OncePerPod \subseteq Action
  /\ {MaxDecisions, MaxActions, MaxCrashes, MaxChanges} \subseteq Nat
  /\ {MaxGen, MaxWindow} \subseteq Nat \ {0}

Attention == Pod \X Signature

VARIABLES config,    \* podsitter_config: generation and switch
          window,    \* the occurrence of the schedule, and whether it is open
          pods,      \* the policy state of each pod
          att,       \* podsitter_attention: state and lease
          dec,       \* podsitter_decisions
          audit,     \* podsitter_action_audit
          provider,  \* podsitter_provider_state
          svc,       \* the service: where its chain is, and what it has read
          life,      \* number of starts of the daemon
          calls,     \* operations begun for each attention
          took,      \* attentions whose operation has succeeded
          changes

durable == <<att, dec, audit, provider>>
world == <<config, window, pods, changes>>
history == <<calls, took>>
sitterVars == <<durable, world, history, svc, life>>

NoLease == [by |-> 0, expired |-> FALSE]
NoWindow == <<0, 0>>
Idle == [at |-> "idle", gen |-> 0, win |-> NoWindow, gen2 |-> 0, enabled |-> FALSE, todo |-> {},
         a |-> CHOOSE a \in Attention : TRUE, seen |-> [p \in Pod |-> Quiet], act |-> NoAction]

Init ==
  /\ config = [gen |-> 1, enabled |-> TRUE]
  /\ window = [n |-> 1, open |-> TRUE]
  /\ pods \in [Pod -> Signature \cup {Quiet}]
  /\ att = [a \in Attention |-> [state |-> "none", lease |-> NoLease]]
  /\ dec = [a \in Attention |-> [outcome |-> "none", win |-> NoWindow, act |-> NoAction]]
  /\ audit = [a \in Attention |-> [state |-> "none", result |-> "none"]]
  /\ provider = [ok |-> TRUE, due |-> FALSE, probe |-> NoLease]
  /\ svc = Idle /\ life = 1 /\ changes = 0
  /\ calls = [a \in Attention |-> 0] /\ took = {}

\* evaluatePodsitterActivation, of the row and of the configuration read earlier.
Active == config.enabled /\ window.open
WindowId == <<config.gen, window.n>>
StillActive == svc.enabled /\ window.open

\* Mutant: authority is checked against the generation only.
AuthorityOfGeneration(w) == config.gen = w[1]

\* hasCurrentAuthority, of a decision made in window w
Authority(w) == Active /\ w = WindowId

\* An unexpired lease of the running service; a lease that may be taken.
Mine(lease) == lease = [by |-> life, expired |-> FALSE]
Free(lease) == lease.by = 0 \/ lease.expired

Open == {"pending", "deferred", "deciding"}
Settled == {"acted", "failed", "superseded"}
----------------------------------------------------------------------------
(* Settlement of the attention in hand.  The daemon may die between any two    *)
(* writes to the store.                                                       *)

Go(at) == svc' = [svc EXCEPT !.at = at] /\ UNCHANGED life
Die == life <= MaxCrashes /\ life' = life + 1 /\ svc' = Idle

\* releaseAttentionLease: without effect once the lease has expired.
Settle(st) ==
  \/ /\ att' = IF Mine(att[svc.a].lease) THEN [att EXCEPT ![svc.a] = [state |-> st, lease |-> NoLease]] ELSE att
     /\ Go("loop")
  \/ Die /\ UNCHANGED att

\* The operation throws, and the loop goes on with the next attention.
Throw == Go("loop") /\ UNCHANGED <<durable, history>>
----------------------------------------------------------------------------
(* Action reservation and dispatch.                                           *)

\* Mutant: only completed actions count.
UsedOfCompleted(w) == {b \in Attention : audit[b].state = "completed" /\ dec[b].win = w}

\* The actions reserved in a window.
Used(w) == {b \in Attention : audit[b].state # "none" /\ dec[b].win = w}

\* reserveAction, for decision d of attention a
MayReserve(a, d) ==
  /\ audit[a].state = "none" /\ att[a].state = "deciding" /\ d.outcome = "completed"
  /\ d.win = svc.win /\ Authority(d.win)
  /\ Cardinality(Used(d.win)) < MaxActions
  /\ d.act \in OncePerWindow => \A b \in Used(d.win) : b[1] = a[1] => dec[b].act # d.act
  /\ d.act \in OncePerPod =>
       \A b \in Attention : b[1] = a[1] /\ audit[b].state # "none" => dec[b].act # d.act

\* beginActionDispatch
MayDispatch(a, d) == d.win = svc.win /\ Authority(d.win) /\ att[a].state = "deciding"

\* assertActionStatus: a pod that is done takes no action.
StatusAllows(a) == pods[a[1]] # Quiet

\* Mutant: an interrupted dispatch is begun again.
UnresolvedNever(a) == FALSE
\* completeAction, and the attention state that follows from it
Final(a, d, result) ==
  /\ audit' = [audit EXCEPT ![a] = [state |-> "completed", result |-> result]]
  /\ Settle(CASE result = "executed" -> "acted"
              [] result = "unknown" -> "failed"
              [] OTHER -> "superseded")

\* A dispatch of an earlier life has no outcome on record.
Unresolved(a) == audit[a].state = "dispatching"

\* executeCompletedDecision and execute, up to the await of the operation
Execute(d) ==
  LET a == svc.a IN
  /\ dec' = [dec EXCEPT ![a] = d]
  /\ UNCHANGED <<provider, took>>
  /\ \/ /\ d.act = NoAction \/ (audit[a].state = "none" /\ ~MayReserve(a, d))
        /\ Settle("superseded") /\ UNCHANGED <<audit, calls>>
     \/ /\ d.act # NoAction /\ audit[a].state = "completed"
        /\ Final(a, d, audit[a].result) /\ UNCHANGED calls
     \/ /\ d.act # NoAction /\ Unresolved(a)
        /\ Final(a, d, "unknown") /\ UNCHANGED calls
     \/ /\ d.act # NoAction /\ audit[a].state # "completed" /\ ~Unresolved(a)
        /\ MayReserve(a, d) \/ audit[a].state # "none"
        /\ \/ /\ ~MayDispatch(a, d)
              /\ Settle("superseded") /\ UNCHANGED <<audit, calls>>
           \/ /\ MayDispatch(a, d) /\ ~StatusAllows(a)
              /\ Final(a, d, "not_executed") /\ UNCHANGED calls
           \/ /\ MayDispatch(a, d) /\ StatusAllows(a)
              /\ audit' = [audit EXCEPT ![a] = [state |-> "dispatching", result |-> "none"]]
              /\ calls' = [calls EXCEPT ![a] = @ + 1]
              /\ Go("dispatching") /\ UNCHANGED att
           \/ /\ audit' \in {audit, [audit EXCEPT ![a].state = "reserved"]}
              /\ Die /\ UNCHANGED <<att, calls>>
           \/ /\ MayDispatch(a, d) /\ audit' = [audit EXCEPT ![a].state = "dispatching"]
              /\ Die /\ UNCHANGED <<att, calls>>

\* The operation resolves: it has been executed.
OperationDone ==
  /\ svc.at = "dispatching"
  /\ took' = took \cup {svc.a}
  /\ Final(svc.a, dec[svc.a], "executed")
  /\ UNCHANGED <<world, dec, provider, calls>>

\* The operation rejects.
OperationFails ==
  /\ svc.at = "dispatching"
  /\ Final(svc.a, dec[svc.a], "not_executed")
  /\ UNCHANGED <<world, history, dec, provider>>
----------------------------------------------------------------------------
(* Reconciliation.                                                            *)

\* reconcileInternal: the pods are read, and their diffs awaited.
Reconcile ==
  /\ svc.at = "idle" /\ Active
  /\ svc' = [Idle EXCEPT !.at = "listing", !.gen = config.gen, !.enabled = TRUE, !.seen = pods]
  /\ UNCHANGED <<durable, world, history, life>>

\* recordAttention, for every pod that was seen to need it; a due probe comes next.
Superseded(a) == \E s \in Signature : svc.seen[a[1]] = s /\ a[2] # s /\ att[<<a[1], s>>].state = "none"

Listed ==
  LET new == [a \in Attention |->
                IF svc.seen[a[1]] = a[2] /\ att[a].state = "none" THEN [att[a] EXCEPT !.state = "pending"]
                ELSE IF Superseded(a) /\ att[a].state \in Open
                THEN [state |-> "superseded", lease |-> NoLease]
                ELSE att[a]] IN
  /\ svc.at = "listing"
  /\ att' = new
  /\ dec' = [a \in Attention |->
               IF Superseded(a) /\ att[a].state \in Open /\ dec[a].outcome = "pending"
               THEN [dec[a] EXCEPT !.outcome = "superseded"] ELSE dec[a]]
  /\ IF ~provider.ok /\ provider.due /\ Free(provider.probe)
     THEN /\ provider' = [provider EXCEPT !.probe = [by |-> life, expired |-> FALSE]]
          /\ svc' = [svc EXCEPT !.at = "probing"]
     ELSE /\ svc' = [svc EXCEPT !.at = "loop", !.todo = {a \in Attention : new[a].state \in Open}]
          /\ UNCHANGED provider
  /\ UNCHANGED <<world, history, life, audit>>

\* limitProvider and setProviderState, or the mark of a recovered provider;
\* without the probe lease they throw, which ends the reconciliation.
ProbeReturns(ok) ==
  /\ svc.at = "probing"
  /\ IF Mine(provider.probe)
     THEN /\ provider' = [ok |-> ok, due |-> FALSE, probe |-> NoLease]
          /\ svc' = [svc EXCEPT !.at = "loop", !.todo = {a \in Attention : att[a].state \in Open}]
     ELSE svc' = Idle /\ UNCHANGED provider
  /\ UNCHANGED <<world, history, life, att, dec, audit>>

\* acquireAttentionLease
MayTake(lease) == Free(lease)

\* processAttention, up to the await of getCandidate, which reads the pod first
Take(a) ==
  /\ svc.at = "loop" /\ a \in svc.todo
  /\ IF StillActive /\ att[a].state \in Open /\ MayTake(att[a].lease)
     THEN /\ att' = [att EXCEPT ![a] = [state |-> "deciding", lease |-> [by |-> life, expired |-> FALSE]]]
          /\ svc' = [svc EXCEPT !.at = "candidate", !.a = a, !.win = <<svc.gen, window.n>>,
                       !.todo = @ \ {a}, !.seen = pods]
     ELSE svc' = [svc EXCEPT !.todo = @ \ {a}] /\ UNCHANGED att
  /\ UNCHANGED <<world, history, life, dec, audit, provider>>

LoopEnds ==
  /\ svc.at = "loop" /\ svc.todo = {}
  /\ svc' = Idle
  /\ UNCHANGED <<durable, world, history, life>>

\* The candidate shows the signature of the attention.
Current == svc.seen[svc.a[1]] = svc.a[2]

\* A limited provider leaves only the deterministic approval.
MustDefer == ~provider.ok /\ svc.a[2] \notin Ready

\* createDecision and refreshDecisionForRetry: under the present generation, with the lease
MayDecide(a) ==
  /\ Active /\ config.gen = svc.gen /\ Mine(att[a].lease)
  /\ dec[a].outcome = "none" =>
       Cardinality({b \in Attention : dec[b].outcome # "none" /\ dec[b].win = WindowId}) < MaxDecisions

\* The decision written before a model is asked; an interrupted or failed one is renewed.
Begun == [outcome |-> "pending", win |-> WindowId, act |-> NoAction]

\* completeDecision: an outcome without authority is not executed.
Completed(act) ==
  [dec[svc.a] EXCEPT !.act = act, !.outcome = IF Authority(dec[svc.a].win) THEN "completed" ELSE "not_executed"]

\* getCandidate resolves: the attention is dropped, deferred, executed as decided
\* before, or a decision is begun.
Candidate ==
  LET a == svc.a IN
  /\ svc.at = "candidate"
  /\ \/ /\ ~Current \/ dec[a].outcome \in {"superseded", "not_executed"}
        /\ Settle("superseded") /\ UNCHANGED <<dec, audit, provider, history>>
     \/ /\ Current /\ MustDefer
        /\ Settle("deferred") /\ UNCHANGED <<dec, audit, provider, history>>
     \/ /\ Current /\ ~MustDefer /\ dec[a].outcome = "completed"
        /\ Execute(dec[a])
     \/ /\ Current /\ ~MustDefer /\ dec[a].outcome \in {"none", "pending", "failed"}
        /\ \/ ~MayDecide(a) /\ Throw
           \/ /\ MayDecide(a) /\ ~provider.ok
              /\ Execute([Begun EXCEPT !.outcome = "completed", !.act = Approve])
           \/ /\ MayDecide(a) /\ provider.ok /\ Free(provider.probe)
              /\ dec' = [dec EXCEPT ![a] = Begun]
              /\ provider' = [provider EXCEPT !.probe = [by |-> life, expired |-> FALSE]]
              /\ Go("deciding") /\ UNCHANGED <<att, audit, history>>
           \/ /\ MayDecide(a) /\ provider.ok /\ ~Free(provider.probe)
              /\ dec' = [dec EXCEPT ![a] = [Begun EXCEPT !.outcome = "failed"]]
              /\ Settle("deferred") /\ UNCHANGED <<audit, provider, history>>
  /\ UNCHANGED world

\* The model or its sandbox fails: limitProvider, and the attention is deferred.
DecisionFails ==
  LET a == svc.a IN
  /\ svc.at = "deciding"
  /\ IF ~Mine(provider.probe) THEN Throw
     ELSE /\ provider' = [ok |-> FALSE, due |-> FALSE, probe |-> NoLease]
          /\ dec' = IF Mine(att[a].lease) THEN [dec EXCEPT ![a].outcome = "failed"] ELSE dec
          /\ Settle("deferred")
          /\ UNCHANGED <<audit, history>>
  /\ UNCHANGED world

\* The model decides: the configuration and then the pod are read again.
Decided(act) ==
  /\ svc.at = "deciding"
  /\ provider' = IF Mine(provider.probe) THEN [provider EXCEPT !.probe = NoLease] ELSE provider
  /\ svc' = [svc EXCEPT !.at = "refreshing", !.act = act, !.gen2 = config.gen,
               !.enabled = config.enabled, !.seen = pods]
  /\ UNCHANGED <<world, history, life, att, dec, audit>>

\* stillAuthorized
Confirmed == svc.gen2 = svc.gen /\ StillActive /\ Current

\* The second getCandidate resolves: the decision is completed and executed.
Refreshed ==
  LET a == svc.a IN
  /\ svc.at = "refreshing"
  /\ \/ ~Mine(att[a].lease) /\ Throw
     \/ /\ Mine(att[a].lease) /\ ~Confirmed
        /\ dec' = [dec EXCEPT ![a] = [Completed(svc.act) EXCEPT !.outcome = 
                     IF @ = "completed" THEN "superseded" ELSE @]]
        /\ Settle("superseded") /\ UNCHANGED <<audit, provider, history>>
     \/ /\ Mine(att[a].lease) /\ Confirmed
        /\ Execute(Completed(svc.act))
     \/ /\ Mine(att[a].lease) /\ Confirmed  \* unknown evidence reference
        /\ dec' = [dec EXCEPT ![a] = [Completed(svc.act) EXCEPT !.outcome =
                     IF @ = "completed" THEN "failed" ELSE @]]
        /\ Settle("failed") /\ UNCHANGED <<audit, provider, history>>
  /\ UNCHANGED world
----------------------------------------------------------------------------
(* The world.                                                                 *)

\* PUT /podsitter/config: every replacement has a new generation.
ReplaceConfig ==
  /\ config.gen < MaxGen
  /\ \E on \in BOOLEAN : config' = [gen |-> config.gen + 1, enabled |-> on]
  /\ UNCHANGED <<durable, window, pods, changes, history, svc, life>>

WindowMoves ==
  /\ window' \in {[window EXCEPT !.open = FALSE], [n |-> window.n + 1, open |-> TRUE]}
  /\ window' # window /\ window'.n <= MaxWindow
  /\ UNCHANGED <<durable, config, pods, changes, history, svc, life>>

PodChanges(p) ==
  /\ changes < MaxChanges /\ changes' = changes + 1
  /\ \E s \in (Signature \cup {Quiet}) \ {pods[p]} : pods' = [pods EXCEPT ![p] = s]
  /\ UNCHANGED <<durable, config, window, history, svc, life>>

LeaseExpires(a) ==
  /\ att[a].lease.by # 0 /\ ~att[a].lease.expired
  /\ att' = [att EXCEPT ![a].lease.expired = TRUE]
  /\ UNCHANGED <<dec, audit, provider, world, history, svc, life>>

ProbeLeaseExpires ==
  /\ provider.probe.by # 0 /\ ~provider.probe.expired
  /\ provider' = [provider EXCEPT !.probe.expired = TRUE]
  /\ UNCHANGED <<att, dec, audit, world, history, svc, life>>

RetryDue ==
  /\ ~provider.ok /\ ~provider.due
  /\ provider' = [provider EXCEPT !.due = TRUE]
  /\ UNCHANGED <<att, dec, audit, world, history, svc, life>>

Crash == Die /\ UNCHANGED <<durable, world, history>>
----------------------------------------------------------------------------
Step == \/ Listed \/ LoopEnds \/ Candidate \/ Refreshed
        \/ \E a \in Attention : Take(a)
        \/ \E ok \in BOOLEAN : ProbeReturns(ok)
        \/ DecisionFails \/ \E act \in Action \cup {NoAction} : Decided(act)
        \/ OperationDone \/ OperationFails

Next == \/ Step \/ Reconcile \/ ReplaceConfig \/ WindowMoves \/ Crash \/ ProbeLeaseExpires \/ RetryDue
        \/ \E p \in Pod : PodChanges(p)
        \/ \E a \in Attention : LeaseExpires(a)

Spec == Init /\ [][Next]_sitterVars
----------------------------------------------------------------------------
Lease == [by : 0..MaxCrashes + 1, expired : BOOLEAN]
TypeOK ==
  /\ config \in [gen : 1..MaxGen, enabled : BOOLEAN]
  /\ window \in [n : 1..MaxWindow, open : BOOLEAN]
  /\ pods \in [Pod -> Signature \cup {Quiet}]
  /\ \A a \in Attention :
       /\ att[a].state \in Open \cup Settled \cup {"none"} /\ att[a].lease \in Lease
       /\ att[a].lease.by # 0 => att[a].state = "deciding"
       /\ dec[a].act \in Action \cup {NoAction}
       /\ audit[a].state # "none" => dec[a].outcome = "completed"
       /\ audit[a].state = "completed" <=> audit[a].result # "none"
  /\ provider.probe \in Lease /\ took \subseteq Attention

\* Whatever crashes and retries come in between, an attention leads to at most
\* one operation, none after its outcome is on record, and the record stays
\* (idempotency key and dispatch state of podsitter_action_audit).
Effect(a) == INSTANCE EffectOnce WITH
  requests <- calls[a], outcome <- audit[a].result,
  Outcome <- {"executed", "not_executed", "unknown"}, Unknown <- "none"
ActsOnce ==
  /\ \A a \in Attention : Effect(a)!Init
  /\ [][\A a \in Attention : [Effect(a)!Next]_<<calls[a], audit[a].result>>]_sitterVars

\* No operation begins once Podsitter is disabled, reconfigured or out of its
\* window, however old the decision (specs/daemon-native-podsitter/design.md:193).
ActsUnderAuthority ==
  [][\A a \in Attention : calls'[a] > calls[a] => Active /\ dec'[a].win = WindowId]_sitterVars

\* The ceilings of a window hold for operations begun, and an action allowed once
\* per pod is called once for all its attentions.
CallsIn(w) == {a \in Attention : calls[a] > 0 /\ dec[a].win = w}
BudgetsHold ==
  /\ \A w \in (1..MaxGen) \X (1..MaxWindow) : Cardinality(CallsIn(w)) <= MaxActions
  /\ \A a, b \in Attention :
       a # b /\ a[1] = b[1] /\ calls[a] > 0 /\ calls[b] > 0 /\ dec[a].act = dec[b].act =>
         /\ dec[a].act \notin OncePerPod
         /\ dec[a].act \in OncePerWindow => dec[a].win # dec[b].win
=============================================================================
