-------------------------- MODULE UnattendedProofs --------------------------
(* Proofs about what runs without an operator, for every value of the           *)
(* constants.  An attention leads the supervising agent to one operation at     *)
(* most, under the authority of the moment it begins and within the budgets of  *)
(* its window; no scan loses a finding; no occurrence gets two pods.            *)
EXTENDS MCUnattended, FiniteSetTheorems, TLAPS

-----------------------------------------------------------------------------
(* The supervising agent.                                                      *)

Outcome == {"none", "pending", "completed", "failed", "not_executed", "superseded"}
Decision == [outcome : Outcome, win : Nat \X Nat, act : Action \cup {NoAction}]
AuditRecord == [state : {"none", "reserved", "dispatching", "completed"},
                result : {"none", "executed", "not_executed", "unknown"}]

Resting == {"idle", "listing", "probing", "loop"}
InHand == {"candidate", "deciding", "refreshing", "dispatching"}
Service == [at : Resting \cup InHand, gen : Nat, win : Nat \X Nat, gen2 : Nat, enabled : BOOLEAN,
            todo : SUBSET Attention, a : Attention \cup {Idle.a},
            seen : [Pod -> Signature \cup {Quiet}], act : Action \cup {NoAction}]

\* The types the argument needs; leases and the provider are not among them.
SitterTypes ==
  /\ config \in [gen : Nat, enabled : BOOLEAN] /\ window \in [n : Nat, open : BOOLEAN]
  /\ pods \in [Pod -> Signature \cup {Quiet}]
  /\ dec \in [Attention -> Decision] /\ audit \in [Attention -> AuditRecord]
  /\ calls \in [Attention -> Nat] /\ svc \in Service

Taken(b) == audit[b].state # "none"
Begins == {"dispatching", "completed"}

\* What the chain holds while it waits: a decision that is still pending, and so without a
\* reservation, or a dispatch on record.
ChainHolds ==
  /\ svc.at \in InHand => svc.a \in Attention
  /\ svc.at \in {"deciding", "refreshing"} => dec[svc.a].outcome = "pending"
  /\ svc.at = "dispatching" => audit[svc.a].state = "dispatching"

\* A reservation stands for a completed decision, an operation for a dispatch on record.
RecordsAgree == \A b \in Attention :
  /\ Taken(b) => dec[b].outcome = "completed"
  /\ audit[b].state = "completed" <=> audit[b].result # "none"
  /\ calls[b] <= 1 /\ (calls[b] > 0 => audit[b].state \in Begins)

\* The ceilings hold for reservations, which are made before operations.
Ceilings == \A w \in Nat \X Nat : IsFiniteSet(Used(w)) /\ Cardinality(Used(w)) <= MaxActions
Exclusions == \A a, b \in Attention :
  a # b /\ a[1] = b[1] /\ Taken(a) /\ Taken(b) /\ dec[a].act = dec[b].act =>
    /\ dec[a].act \notin OncePerPod
    /\ dec[a].act \in OncePerWindow => dec[a].win # dec[b].win

\* The inductive invariant.
SitterInv == SitterTypes /\ ChainHolds /\ RecordsAgree /\ Ceilings /\ Exclusions
-----------------------------------------------------------------------------
(* What any step may do to the records of one attention.                        *)

Dispatches(b) ==
  /\ calls'[b] = calls[b] + 1
  /\ audit[b].state \notin Begins /\ audit'[b].state = "dispatching" /\ audit'[b].result = "none"
  /\ Authority(dec'[b].win)

Progress(b) ==
  /\ Taken(b) => dec'[b] = dec[b] /\ audit'[b].state # "none"
  /\ audit'[b].state # "none" => dec'[b].outcome = "completed"
  /\ ~Taken(b) /\ audit'[b].state # "none" => b = svc.a /\ MayReserve(b, dec'[b])
  /\ calls'[b] = calls[b] \/ Dispatches(b)
  /\ audit'[b].state = "completed" <=> audit'[b].result # "none"
  /\ audit[b].result # "none" => audit'[b].result = audit[b].result
  /\ audit[b].state \in Begins => audit'[b].state \in Begins

Progresses ==
  /\ dec' \in [Attention -> Decision] /\ audit' \in [Attention -> AuditRecord]
  /\ calls' \in [Attention -> Nat]
  /\ \A b \in Attention : Progress(b)

\* The service rests, or goes on with an attention as ChainHolds says.
ServiceMoves == svc' \in Service /\ ChainHolds'

Rests == svc' \in Service /\ svc'.at \in Resting

\* A chain that rests holds nothing.
LEMMA RestsHolds == Rests => ServiceMoves
BY DEF Rests, ServiceMoves, ChainHolds, Resting, InHand

\* Types of the service when it goes to another step, or starts again.
LEMMA ServiceAt ==
  ASSUME NEW s \in Service, NEW x \in Resting \cup InHand
  PROVE  [s EXCEPT !.at = x] \in Service /\ [s EXCEPT !.at = x].at = x /\ [s EXCEPT !.at = x].a = s.a
BY DEF Service

\* The initial record of the service.
LEMMA IdleService == Quiet \notin Signature => Idle \in Service /\ Idle.at = "idle"
<1>1. Idle.a \in Attention \cup {Idle.a} /\ {} \in SUBSET Attention
  OBVIOUS
<1>2. [p \in Pod |-> Quiet] \in [Pod -> Signature \cup {Quiet}] /\ NoWindow \in Nat \X Nat
  BY DEF NoWindow
<1> QED BY <1>1, <1>2 DEF Idle, Service, Resting, InHand

\* A decision with another outcome.
LEMMA DecisionWith ==
  ASSUME NEW d \in Decision, NEW o \in Outcome
  PROVE  [d EXCEPT !.outcome = o] \in Decision /\ [d EXCEPT !.outcome = o].outcome = o
BY DEF Decision

\* The end of an attention, an exception and a crash leave the chain at rest.
LEMMA SettleRests ==
  ASSUME svc \in Service, (\E st \in {"acted", "failed", "superseded", "deferred"} : Settle(st))
    \/ Throw \/ Die
  PROVE  Rests
<1>1. svc' = [svc EXCEPT !.at = "loop"] \/ svc' = Idle
  BY DEF Settle, Throw, Go, Die
<1>2. "loop" \in Resting \cup InHand /\ {"loop", "idle"} \subseteq Resting
  BY DEF Resting
<1>3. [svc EXCEPT !.at = "loop"] \in Service /\ [svc EXCEPT !.at = "loop"].at = "loop"
  BY <1>2, ServiceAt
<1>4. Idle \in Service /\ Idle.at = "idle"
  BY IdleService, PodsitterAssumption
<1> QED BY <1>1, <1>2, <1>3, <1>4 DEF Rests

\* Without a reservation or an operation, a decision that is not yet taken may change.
LEMMA DecisionsProgress ==
  ASSUME SitterInv, UNCHANGED <<audit, calls>>, dec' \in [Attention -> Decision],
         \A b \in Attention : Taken(b) => dec'[b] = dec[b]
  PROVE  Progresses
BY DEF Progresses, Progress, SitterInv, SitterTypes, RecordsAgree, Taken, AuditRecord, Decision
-----------------------------------------------------------------------------
(* The dispatch of a decision.                                                  *)

LEMMA ExecuteProgress ==
  ASSUME SitterInv, svc.a \in Attention, NEW d \in Decision, Execute(d),
         Taken(svc.a) => d = dec[svc.a]
  PROVE  Progresses /\ ServiceMoves
<1> DEFINE a == svc.a
<1>0. /\ dec \in [Attention -> Decision] /\ audit \in [Attention -> AuditRecord]
      /\ calls \in [Attention -> Nat] /\ svc \in Service
      /\ dec' = [dec EXCEPT ![a] = d]
      /\ \A b \in Attention :
           /\ Taken(b) => dec[b].outcome = "completed"
           /\ audit[b].state = "completed" <=> audit[b].result # "none"
           /\ calls[b] > 0 => audit[b].state \in Begins
  BY DEF Execute, SitterInv, SitterTypes, RecordsAgree
<1>1. dec' \in [Attention -> Decision] /\ dec'[a] = d /\ \A b \in Attention : b # a => dec'[b] = dec[b]
  BY <1>0
<1>2. \A b \in Attention : Taken(b) => dec'[b] = dec[b]
  BY <1>1
<1>3. ASSUME UNCHANGED <<audit, calls>> PROVE Progresses
  BY <1>1, <1>2, <1>3, DecisionsProgress
<1>4. ASSUME NEW e \in AuditRecord, audit' = [audit EXCEPT ![a] = e], e.state # "none",
             d.outcome = "completed", Taken(a) \/ MayReserve(a, d),
             e.state = "completed" <=> e.result # "none",
             audit[a].result # "none" => e.result = audit[a].result,
             audit[a].state \in Begins => e.state \in Begins,
             \/ UNCHANGED calls
             \/ /\ calls' = [calls EXCEPT ![a] = @ + 1] /\ audit[a].state \notin Begins
                /\ e.state = "dispatching" /\ Authority(d.win)
      PROVE  Progresses
  <2>1. /\ audit' \in [Attention -> AuditRecord] /\ audit'[a] = e
        /\ \A b \in Attention : b # a => audit'[b] = audit[b]
    BY <1>0, <1>4
  <2>2. /\ calls' \in [Attention -> Nat]
        /\ \A b \in Attention : b # a => calls'[b] = calls[b]
        /\ \/ calls'[a] = calls[a]
           \/ /\ calls'[a] = calls[a] + 1 /\ audit[a].state \notin Begins
              /\ e.state = "dispatching" /\ Authority(d.win)
    BY <1>0, <1>4
  <2>3. ASSUME NEW b \in Attention, b # a PROVE Progress(b)
    BY <1>0, <1>1, <2>1, <2>2, <2>3 DEF Progress, Taken
  <2>4. Progress(a)
    <3>1. calls'[a] = calls[a] \/ Dispatches(a)
      BY <1>1, <1>4, <2>1, <2>2 DEF Dispatches
    <3> QED BY <1>1, <1>2, <1>4, <2>1, <3>1 DEF Progress, Taken
  <2> QED BY <1>1, <2>1, <2>2, <2>3, <2>4 DEF Progresses
<1>5. ASSUME NEW r \in {"executed", "not_executed", "unknown"}, Final(a, d, r), UNCHANGED calls,
             Taken(a) \/ MayReserve(a, d), audit[a].result \in {"none", r}, d.outcome = "completed"
      PROVE  Progresses /\ ServiceMoves
  <2> DEFINE e == [state |-> "completed", result |-> r]
  <2>1. e \in AuditRecord /\ e.state = "completed" /\ e.result = r /\ e.state # "none" /\ r # "none"
    BY DEF AuditRecord
  <2>2. audit' = [audit EXCEPT ![a] = e]
    BY <1>5 DEF Final
  <2>3. \E st \in {"acted", "failed", "superseded", "deferred"} : Settle(st)
    BY <1>5 DEF Final
  <2> HIDE DEF e
  <2>4. Progresses
    BY <1>4, <1>5, <2>1, <2>2 DEF Begins
  <2> QED BY <1>0, <2>3, <2>4, SettleRests, RestsHolds
<1>6. CASE \/ (d.act = NoAction \/ (audit[a].state = "none" /\ ~MayReserve(a, d)))
                /\ Settle("superseded") /\ UNCHANGED <<audit, calls>>
  BY <1>0, <1>3, <1>6, SettleRests, RestsHolds
<1>7. CASE d.act # NoAction /\ audit[a].state = "completed" /\ Final(a, d, audit[a].result) /\ UNCHANGED calls
  <2>1. audit[a].result \in {"executed", "not_executed", "unknown"} /\ Taken(a) /\ d.outcome = "completed"
    BY <1>0, <1>7 DEF AuditRecord, Taken
  <2> QED BY <1>5, <1>7, <2>1
<1>8. CASE d.act # NoAction /\ Unresolved(a) /\ Final(a, d, "unknown") /\ UNCHANGED calls
  <2>1. Taken(a) /\ d.outcome = "completed" /\ audit[a].result = "none"
    BY <1>0, <1>8 DEF Taken, Unresolved, AuditRecord
  <2> QED BY <1>5, <1>8, <2>1
<1>9. CASE /\ audit[a].state # "completed" /\ ~Unresolved(a)
           /\ MayReserve(a, d) \/ audit[a].state # "none"
           /\ \/ /\ ~MayDispatch(a, d)
                 /\ Settle("superseded") /\ UNCHANGED <<audit, calls>>
              \/ /\ MayDispatch(a, d) /\ ~StatusAllows(a)
                 /\ Final(a, d, "not_executed") /\ UNCHANGED calls
              \/ /\ MayDispatch(a, d) /\ StatusAllows(a)
                 /\ audit' = [audit EXCEPT ![a] = [state |-> "dispatching", result |-> "none"]]
                 /\ calls' = [calls EXCEPT ![a] = @ + 1]
                 /\ Go("dispatching")
              \/ /\ audit' \in {audit, [audit EXCEPT ![a].state = "reserved"]}
                 /\ Die /\ UNCHANGED calls
              \/ /\ MayDispatch(a, d) /\ audit' = [audit EXCEPT ![a].state = "dispatching"]
                 /\ Die /\ UNCHANGED calls
  <2>1. /\ audit[a].state \in {"none", "reserved"} /\ audit[a].result = "none"
        /\ Taken(a) \/ MayReserve(a, d)
        /\ d.outcome = "completed" /\ audit[a].state \notin Begins
    BY <1>0, <1>9 DEF Unresolved, Taken, AuditRecord, MayReserve, Begins
  <2>2. CASE Settle("superseded") /\ UNCHANGED <<audit, calls>>
    BY <1>0, <1>3, <2>2, SettleRests, RestsHolds
  <2>3. CASE Final(a, d, "not_executed") /\ UNCHANGED calls
    BY <1>5, <2>1, <2>3
  <2> DEFINE e == [state |-> "dispatching", result |-> "none"]
  <2>4. e \in AuditRecord /\ e.state = "dispatching" /\ e.result = "none" /\ e.state # "none"
    BY DEF AuditRecord
  <2>5. CASE /\ MayDispatch(a, d) /\ audit' = [audit EXCEPT ![a] = e]
             /\ calls' = [calls EXCEPT ![a] = @ + 1] /\ Go("dispatching")
    <3> HIDE DEF e
    <3>1. Authority(d.win)
      BY <2>5 DEF MayDispatch
    <3>2. Progresses
      BY <1>4, <2>1, <2>4, <2>5, <3>1 DEF Begins
    <3>3. svc' \in Service /\ svc'.at = "dispatching" /\ svc'.a = a
      BY <1>0, <2>5, ServiceAt DEF Go, InHand
    <3>4. audit'[a].state = "dispatching"
      BY <1>0, <2>4, <2>5
    <3>5. ChainHolds'
      BY <3>3, <3>4 DEF ChainHolds
    <3> QED BY <3>2, <3>3, <3>5 DEF ServiceMoves
  <2>6. ASSUME Die, UNCHANGED calls,
               NEW x \in {"reserved", "dispatching"}, audit' = [audit EXCEPT ![a].state = x]
        PROVE  Progresses /\ ServiceMoves
    <3> DEFINE f == [audit[a] EXCEPT !.state = x]
    <3>1. f \in AuditRecord /\ f.state = x /\ f.result = "none" /\ f.state # "none"
      BY <1>0, <2>1 DEF AuditRecord
    <3>2. audit' = [audit EXCEPT ![a] = f]
      BY <2>6
    <3> HIDE DEF f
    <3>3. Progresses
      BY <1>4, <2>1, <2>6, <3>1, <3>2
    <3> QED BY <1>0, <2>6, <3>3, SettleRests, RestsHolds
  <2>7. CASE Die /\ UNCHANGED <<audit, calls>>
    BY <1>0, <1>3, <2>7, SettleRests, RestsHolds
  <2> QED BY <1>9, <2>2, <2>3, <2>5, <2>6, <2>7
<1> QED BY <1>6, <1>7, <1>8, <1>9 DEF Execute
-----------------------------------------------------------------------------
(* The steps of a reconciliation.                                               *)

\* A step of the chain that changes no record and no decision.
LEMMA QuietProgress ==
  ASSUME SitterInv, UNCHANGED <<dec, audit, calls>>
  PROVE  Progresses
BY DecisionsProgress DEF SitterInv, SitterTypes

\* Reconcile, the listing, the probe and the loop: no decision that was taken changes.
LEMMA ListingProgress ==
  ASSUME SitterInv,
         \/ Reconcile \/ Listed \/ LoopEnds \/ \E ok \in BOOLEAN : ProbeReturns(ok)
  PROVE  Progresses /\ ServiceMoves
<1>0. /\ svc \in Service /\ pods \in [Pod -> Signature \cup {Quiet}]
         /\ config \in [gen : Nat, enabled : BOOLEAN]
      /\ dec \in [Attention -> Decision] /\ Idle \in Service /\ Idle.at = "idle"
      /\ \A b \in Attention : Taken(b) => dec[b].outcome = "completed"
  BY IdleService, PodsitterAssumption DEF SitterInv, SitterTypes, RecordsAgree
<1>1. CASE Reconcile
  <2>1. svc' \in Service /\ svc'.at = "listing"
    BY <1>0, <1>1 DEF Reconcile, Service, Resting
  <2>2. Progresses
    BY <1>1, QuietProgress DEF Reconcile, durable, history
  <2> QED BY <2>1, <2>2, RestsHolds DEF Rests, Resting
<1>2. CASE Listed
  <2>1. UNCHANGED <<audit, calls>>
    BY <1>2 DEF Listed, history
  <2>2. dec' \in [Attention -> Decision]
    <3>1. \A b \in Attention : dec[b] \in Decision /\ [dec[b] EXCEPT !.outcome = "superseded"] \in Decision
      BY <1>0, DecisionWith DEF Outcome
    <3> QED BY <1>2, <3>1 DEF Listed
  <2>3. \A b \in Attention : Taken(b) => dec'[b] = dec[b]
    BY <1>0, <1>2 DEF Listed
  <2>4. Rests
    <3> DEFINE todo(new) == {b \in Attention : new[b].state \in Open}
    <3>1. \/ svc' = [svc EXCEPT !.at = "probing"]
          \/ \E T \in SUBSET Attention : svc' = [svc EXCEPT !.at = "loop", !.todo = T]
      BY <1>2 DEF Listed
    <3>2. CASE svc' = [svc EXCEPT !.at = "probing"]
      BY <1>0, <3>2, ServiceAt DEF Rests, Resting
    <3>3. ASSUME NEW T \in SUBSET Attention, svc' = [svc EXCEPT !.at = "loop", !.todo = T]
          PROVE  Rests
      BY <1>0, <3>3 DEF Rests, Resting, Service
    <3> QED BY <3>1, <3>2, <3>3
  <2> QED BY <2>1, <2>2, <2>3, <2>4, DecisionsProgress, RestsHolds
<1>3. CASE LoopEnds
  BY <1>0, <1>3, QuietProgress, RestsHolds DEF LoopEnds, durable, history, Rests, Resting
<1>4. ASSUME NEW ok \in BOOLEAN, ProbeReturns(ok) PROVE Progresses /\ ServiceMoves
  <2>1. \/ svc' = Idle
        \/ \E T \in SUBSET Attention : svc' = [svc EXCEPT !.at = "loop", !.todo = T]
    BY <1>4 DEF ProbeReturns
  <2>2. ASSUME NEW T \in SUBSET Attention, svc' = [svc EXCEPT !.at = "loop", !.todo = T]
        PROVE  Rests
    BY <1>0, <2>2 DEF Rests, Resting, Service
  <2>3. ASSUME svc' = Idle PROVE Rests
    BY <1>0, <2>3 DEF Rests, Resting
  <2>4. Progresses
    BY <1>4, QuietProgress DEF ProbeReturns, history
  <2> QED BY <2>1, <2>2, <2>3, <2>4, RestsHolds
<1> QED BY <1>1, <1>2, <1>3, <1>4

\* An attention is leased, or a decision of the model comes back: the chain goes on.
LEMMA TakeProgress ==
  ASSUME SitterInv, (\E a \in Attention : Take(a)) \/ \E act \in Action \cup {NoAction} : Decided(act)
  PROVE  Progresses /\ ServiceMoves
<1>0. /\ svc \in Service /\ pods \in [Pod -> Signature \cup {Quiet}]
         /\ config \in [gen : Nat, enabled : BOOLEAN]
      /\ window \in [n : Nat, open : BOOLEAN] /\ ChainHolds
  BY DEF SitterInv, SitterTypes
<1>1. UNCHANGED <<dec, audit, calls>>
  BY DEF Take, Decided, history
<1>2. ASSUME NEW a \in Attention, Take(a) PROVE ServiceMoves
  <2>1. CASE svc' = [svc EXCEPT !.todo = @ \ {a}]
    <3>1. svc' \in Service /\ svc'.at = "loop"
      BY <1>0, <1>2, <2>1 DEF Take, Service
    <3> QED BY <3>1, RestsHolds DEF Rests, Resting
  <2>2. CASE svc' = [svc EXCEPT !.at = "candidate", !.a = a, !.win = <<svc.gen, window.n>>,
                       !.todo = @ \ {a}, !.seen = pods]
    <3>1. svc' \in Service /\ svc'.at = "candidate" /\ svc'.a = a
      BY <1>0, <2>2 DEF Service, InHand
    <3> QED BY <3>1 DEF ServiceMoves, ChainHolds
  <2> QED BY <1>2, <2>1, <2>2 DEF Take
<1>3. ASSUME NEW act \in Action \cup {NoAction}, Decided(act) PROVE ServiceMoves
  <2>1. /\ svc.at = "deciding"
        /\ svc' = [svc EXCEPT !.at = "refreshing", !.act = act, !.gen2 = config.gen,
                     !.enabled = config.enabled, !.seen = pods]
    BY <1>3 DEF Decided
  <2>2. svc' \in Service /\ svc'.at = "refreshing" /\ svc'.a = svc.a
    BY <1>0, <2>1 DEF Service, InHand
  <2>3. svc.a \in Attention /\ dec[svc.a].outcome = "pending"
    BY <1>0, <2>1 DEF ChainHolds, InHand
  <2>4. svc'.a \in Attention /\ dec'[svc'.a].outcome = "pending"
    BY <1>1, <2>2, <2>3
  <2> QED BY <2>2, <2>4 DEF ServiceMoves, ChainHolds
<1> QED BY <1>1, <1>2, <1>3, QuietProgress

\* The model fails: only a decision that is still pending changes.
LEMMA FailProgress == ASSUME SitterInv, DecisionFails PROVE Progresses /\ ServiceMoves
<1>0. /\ svc \in Service /\ dec \in [Attention -> Decision] /\ svc.a \in Attention
      /\ dec[svc.a].outcome = "pending" /\ ~Taken(svc.a)
  BY DEF SitterInv, SitterTypes, ChainHolds, RecordsAgree, DecisionFails, InHand, Taken
<1>1. Rests
  BY <1>0, SettleRests DEF DecisionFails
<1>2. UNCHANGED <<audit, calls>>
  BY DEF DecisionFails, Throw, durable, history
<1>3. [dec[svc.a] EXCEPT !.outcome = "failed"] \in Decision
  BY <1>0, DecisionWith DEF Outcome
<1>4. dec' = dec \/ dec' = [dec EXCEPT ![svc.a] = [dec[svc.a] EXCEPT !.outcome = "failed"]]
  BY DEF DecisionFails, Throw, durable
<1>5. dec' \in [Attention -> Decision] /\ \A b \in Attention : Taken(b) => dec'[b] = dec[b]
  BY <1>0, <1>3, <1>4
<1> QED BY <1>1, <1>2, <1>5, DecisionsProgress, RestsHolds

\* The candidate is read: dropped, deferred, executed, or a decision is begun.
LEMMA CandidateProgress == ASSUME SitterInv, Candidate PROVE Progresses /\ ServiceMoves
<1> DEFINE a == svc.a
<1>0. /\ svc \in Service /\ dec \in [Attention -> Decision] /\ a \in Attention /\ svc.at = "candidate"
      /\ (Taken(a) => dec[a].outcome = "completed")
      /\ config \in [gen : Nat, enabled : BOOLEAN] /\ window \in [n : Nat, open : BOOLEAN]
  BY DEF SitterInv, SitterTypes, ChainHolds, RecordsAgree, Candidate, InHand
<1>1. CASE (Settle("superseded") \/ Settle("deferred") \/ Throw) /\ UNCHANGED <<dec, audit, calls>>
  BY <1>0, <1>1, SettleRests, RestsHolds, QuietProgress
<1>2. CASE Execute(dec[a])
  BY <1>0, <1>2, ExecuteProgress
<1>3. WindowId \in Nat \X Nat /\ Begun \in Decision /\ Begun.outcome = "pending"
  BY <1>0 DEF WindowId, Begun, Decision, Outcome
<1>4. CASE dec[a].outcome # "completed" /\ Execute([Begun EXCEPT !.outcome = "completed", !.act = Approve])
  <2>1. [Begun EXCEPT !.outcome = "completed", !.act = Approve] \in Decision
    BY <1>3, PodsitterAssumption DEF Decision, Outcome
  <2> QED BY <1>0, <1>4, <2>1, ExecuteProgress
<1>5. ASSUME dec[a].outcome # "completed", NEW d \in Decision, dec' = [dec EXCEPT ![a] = d],
             UNCHANGED <<audit, calls>>
      PROVE  Progresses
  <2>1. dec' \in [Attention -> Decision] /\ \A b \in Attention : Taken(b) => dec'[b] = dec[b]
    BY <1>0, <1>5
  <2> QED BY <1>5, <2>1, DecisionsProgress
<1>6. CASE /\ dec[a].outcome # "completed" /\ dec' = [dec EXCEPT ![a] = Begun]
           /\ Go("deciding") /\ UNCHANGED <<audit, calls>>
  <2>1. Progresses
    BY <1>3, <1>5, <1>6
  <2>2. svc' \in Service /\ svc'.at = "deciding" /\ svc'.a = a
    BY <1>0, <1>6, ServiceAt DEF Go, InHand
  <2>3. dec'[a].outcome = "pending"
    BY <1>0, <1>3, <1>6
  <2>4. svc'.a \in Attention /\ dec'[svc'.a].outcome = "pending"
    BY <1>0, <2>2, <2>3
  <2> QED BY <2>1, <2>2, <2>4 DEF ServiceMoves, ChainHolds
<1>7. CASE /\ dec[a].outcome # "completed" /\ dec' = [dec EXCEPT ![a] = [Begun EXCEPT !.outcome = "failed"]]
           /\ Settle("deferred") /\ UNCHANGED <<audit, calls>>
  <2>1. [Begun EXCEPT !.outcome = "failed"] \in Decision
    BY <1>3, DecisionWith DEF Outcome
  <2>2. Progresses
    BY <1>5, <1>7, <2>1
  <2> QED BY <1>0, <1>7, <2>2, SettleRests, RestsHolds
<1>8. dec[a].outcome \in {"none", "pending", "failed"} => dec[a].outcome # "completed"
  OBVIOUS
<1> QED BY <1>1, <1>2, <1>4, <1>6, <1>7, <1>8 DEF Candidate, Throw, durable, history

\* The decision is completed: until then nothing was reserved for it.
LEMMA RefreshedProgress == ASSUME SitterInv, Refreshed PROVE Progresses /\ ServiceMoves
<1> DEFINE a == svc.a
<1>0. /\ svc \in Service /\ dec \in [Attention -> Decision] /\ a \in Attention
      /\ dec[a].outcome = "pending" /\ ~Taken(a) /\ svc.act \in Action \cup {NoAction}
  BY DEF SitterInv, SitterTypes, ChainHolds, RecordsAgree, Refreshed, InHand, Taken, Service
<1>1. Completed(svc.act) \in Decision /\ Completed(svc.act).outcome \in Outcome
  BY <1>0 DEF Completed, Decision, Outcome
<1>2. CASE Throw
  BY <1>0, <1>2, SettleRests, RestsHolds, QuietProgress DEF Throw, durable, history
<1>3. CASE Execute(Completed(svc.act))
  BY <1>0, <1>1, <1>3, ExecuteProgress
<1>4. ASSUME NEW o \in {"superseded", "failed"},
             dec' = [dec EXCEPT ![a] = [Completed(svc.act) EXCEPT !.outcome = IF @ = "completed" THEN o ELSE @]],
             Settle(o), UNCHANGED <<audit, calls>>
      PROVE  Progresses /\ ServiceMoves
  <2> DEFINE c == Completed(svc.act)
             d == [c EXCEPT !.outcome = IF @ = "completed" THEN o ELSE @]
  <2>1. d \in Decision
    <3>1. (IF c.outcome = "completed" THEN o ELSE c.outcome) \in Outcome
      BY <1>1 DEF Outcome
    <3>2. [c EXCEPT !.outcome = IF c.outcome = "completed" THEN o ELSE c.outcome] \in Decision
      BY <1>1, <3>1, DecisionWith
    <3> QED BY <3>2
  <2>2. dec' = [dec EXCEPT ![a] = d]
    BY <1>4
  <2> HIDE DEF d
  <2>3. dec' \in [Attention -> Decision] /\ \A b \in Attention : Taken(b) => dec'[b] = dec[b]
    BY <1>0, <2>1, <2>2
  <2> QED BY <1>0, <1>4, <2>3, DecisionsProgress, SettleRests, RestsHolds
<1> QED BY <1>2, <1>3, <1>4 DEF Refreshed, history

\* The operation ends, one way or the other; its dispatch was on record.
LEMMA OperationProgress ==
  ASSUME SitterInv, OperationDone \/ OperationFails
  PROVE  Progresses /\ ServiceMoves
<1> DEFINE a == svc.a
<1>0. /\ svc \in Service /\ a \in Attention /\ audit \in [Attention -> AuditRecord]
      /\ dec \in [Attention -> Decision] /\ calls \in [Attention -> Nat]
      /\ audit[a].state = "dispatching" /\ audit[a].result = "none"
      /\ \A b \in Attention :
           /\ Taken(b) => dec[b].outcome = "completed"
           /\ audit[b].state = "completed" <=> audit[b].result # "none"
      /\ UNCHANGED <<dec, calls>>
  BY DEF SitterInv, SitterTypes, ChainHolds, RecordsAgree, OperationDone, OperationFails, InHand, history,
     AuditRecord
<1>1. PICK r \in {"executed", "not_executed"} : Final(a, dec[a], r)
  BY DEF OperationDone, OperationFails
<1> DEFINE e == [state |-> "completed", result |-> r]
<1>2. e \in AuditRecord /\ e.state = "completed" /\ e.result = r /\ r # "none" /\ e.state # "none"
  BY DEF AuditRecord
<1>3. audit' = [audit EXCEPT ![a] = e] /\ Rests
  BY <1>0, <1>1, SettleRests DEF Final
<1> HIDE DEF e
<1>4. /\ audit' \in [Attention -> AuditRecord] /\ audit'[a] = e
      /\ \A b \in Attention : b # a => audit'[b] = audit[b]
  BY <1>0, <1>2, <1>3
<1>5. ASSUME NEW b \in Attention PROVE Progress(b)
  <2>1. CASE b = a
    BY <1>0, <1>2, <1>4, <2>1 DEF Progress, Taken, Begins
  <2>2. CASE b # a
    BY <1>0, <1>4, <2>2 DEF Progress, Taken
  <2> QED BY <2>1, <2>2
<1> QED BY <1>0, <1>3, <1>4, <1>5, RestsHolds DEF Progresses

\* Operators, pods, the clock and leases change no record; a crash ends the chain.
LEMMA WorldProgress ==
  ASSUME SitterInv,
         \/ ReplaceConfig \/ WindowMoves \/ Crash \/ ProbeLeaseExpires \/ RetryDue
         \/ \E p \in Pod : PodChanges(p)
         \/ \E a \in Attention : LeaseExpires(a)
         \/ UNCHANGED sitterVars
  PROVE  Progresses /\ ServiceMoves
<1>1. UNCHANGED <<dec, audit, calls>> /\ (UNCHANGED svc \/ Die)
  BY DEF ReplaceConfig, WindowMoves, Crash, ProbeLeaseExpires, RetryDue, PodChanges, LeaseExpires,
         sitterVars, durable, history
<1>2. svc \in Service /\ ChainHolds
  BY DEF SitterInv, SitterTypes
<1>3. CASE UNCHANGED svc
  BY <1>1, <1>2, <1>3, QuietProgress DEF ServiceMoves, ChainHolds
<1>4. CASE Die
  BY <1>1, <1>2, <1>4, QuietProgress, SettleRests, RestsHolds
<1> QED BY <1>1, <1>3, <1>4

\* The configuration, the window and the pods keep their types.
LEMMA WorldTypes ==
  ASSUME SitterInv, [Next]_sitterVars
  PROVE  /\ config' \in [gen : Nat, enabled : BOOLEAN] /\ window' \in [n : Nat, open : BOOLEAN]
         /\ pods' \in [Pod -> Signature \cup {Quiet}]
<1>0. /\ config \in [gen : Nat, enabled : BOOLEAN] /\ window \in [n : Nat, open : BOOLEAN]
      /\ pods \in [Pod -> Signature \cup {Quiet}]
  BY DEF SitterInv, SitterTypes
<1>1. CASE UNCHANGED <<config, window, pods>>
  BY <1>0, <1>1
<1>2. CASE ReplaceConfig
  BY <1>0, <1>2 DEF ReplaceConfig
<1>3. ASSUME WindowMoves
      PROVE  UNCHANGED <<config, pods>> /\ window' \in [n : Nat, open : BOOLEAN]
  <2>1. \/ window' = [window EXCEPT !.open = FALSE]
        \/ window' = [n |-> window.n + 1, open |-> TRUE]
    BY <1>3 DEF WindowMoves
  <2>2. [window EXCEPT !.open = FALSE] \in [n : Nat, open : BOOLEAN]
    BY <1>0
  <2>3. [n |-> window.n + 1, open |-> TRUE] \in [n : Nat, open : BOOLEAN]
    BY <1>0
  <2>4. UNCHANGED <<config, pods>>
    BY <1>3 DEF WindowMoves
  <2> QED BY <2>1, <2>2, <2>3, <2>4
<1>4. ASSUME NEW p \in Pod, PodChanges(p)
      PROVE  UNCHANGED <<config, window>> /\ pods' \in [Pod -> Signature \cup {Quiet}]
  BY <1>0, <1>4 DEF PodChanges
<1>5. UNCHANGED <<config, window, pods>> \/ ReplaceConfig \/ WindowMoves \/ \E p \in Pod : PodChanges(p)
  BY DEF Next, Step, Listed, LoopEnds, Candidate, Refreshed, Take, ProbeReturns, DecisionFails, Decided,
         OperationDone, OperationFails, Reconcile, Crash, ProbeLeaseExpires, RetryDue, LeaseExpires,
         world, sitterVars
<1> QED BY <1>0, <1>1, <1>2, <1>3, <1>4, <1>5

\* Every step is a progress of the records.
LEMMA StepProgress ==
  ASSUME SitterInv, [Next]_sitterVars
  PROVE  Progresses /\ ServiceMoves
BY ListingProgress, TakeProgress, FailProgress, CandidateProgress, RefreshedProgress, OperationProgress,
   WorldProgress DEF Next, Step
-----------------------------------------------------------------------------
(* The invariant.                                                               *)

\* Nothing is decided at first.
LEMMA InitSitter == Init => SitterInv
<1> SUFFICES ASSUME Init PROVE SitterInv
  OBVIOUS
<1>0. /\ \A b \in Attention : ~Taken(b) /\ calls[b] = 0 /\ audit[b].result = "none"
                               /\ audit[b].state = "none"
      /\ svc = Idle /\ Idle \in Service /\ Idle.at = "idle"
  BY IdleService, PodsitterAssumption DEF Init, Taken
<1>1. SitterTypes
  <2>1. [state |-> "none", result |-> "none"] \in AuditRecord
    BY DEF AuditRecord
  <2>2. [outcome |-> "none", win |-> NoWindow, act |-> NoAction] \in Decision
    BY DEF Decision, Outcome, NoWindow
  <2> QED BY <1>0, <2>1, <2>2 DEF Init, SitterTypes
<1>2. ChainHolds /\ RecordsAgree /\ Exclusions
  BY <1>0 DEF ChainHolds, RecordsAgree, Exclusions, InHand, Begins
<1>3. Ceilings
  <2>1. \A w \in Nat \X Nat : Used(w) = {}
    BY <1>0 DEF Used
  <2>2. MaxActions \in Nat
    BY PodsitterAssumption
  <2> QED BY <2>1, <2>2, FS_EmptySet DEF Ceilings
<1> QED BY <1>1, <1>2, <1>3 DEF SitterInv

\* At most the attention in hand is newly reserved, and its window had room.
LEMMA CeilingsKept == ASSUME SitterInv, Progresses PROVE Ceilings'
<1> SUFFICES ASSUME NEW w \in Nat \X Nat
             PROVE  IsFiniteSet(Used(w)') /\ Cardinality(Used(w)') <= MaxActions
  BY DEF Ceilings
<1>0. IsFiniteSet(Used(w)) /\ Cardinality(Used(w)) <= MaxActions /\ MaxActions \in Nat
  BY PodsitterAssumption DEF SitterInv, Ceilings
<1>1. \A b \in Attention : Taken(b) => dec'[b] = dec[b] /\ audit'[b].state # "none"
  BY DEF Progresses, Progress
<1>2. \A b \in Attention : ~Taken(b) /\ audit'[b].state # "none" => b = svc.a /\ MayReserve(b, dec'[b])
  BY DEF Progresses, Progress
<1>3. CASE svc.a \in Attention /\ ~Taken(svc.a) /\ audit'[svc.a].state # "none" /\ dec'[svc.a].win = w
  <2>1. Used(w)' = Used(w) \cup {svc.a} /\ svc.a \notin Used(w)
    BY <1>1, <1>2, <1>3 DEF Used, Taken
  <2>2. Cardinality(Used(w)) < MaxActions
    BY <1>2, <1>3 DEF MayReserve
  <2>3. IsFiniteSet(Used(w) \cup {svc.a}) /\ Cardinality(Used(w) \cup {svc.a}) = Cardinality(Used(w)) + 1
    BY <1>0, <2>1, FS_AddElement
  <2>4. Cardinality(Used(w)) \in Nat
    BY <1>0, FS_CardinalityType
  <2> QED BY <1>0, <2>1, <2>2, <2>3, <2>4
<1>4. CASE ~(svc.a \in Attention /\ ~Taken(svc.a) /\ audit'[svc.a].state # "none" /\ dec'[svc.a].win = w)
  <2>1. Used(w)' = Used(w)
    BY <1>1, <1>2, <1>4 DEF Used, Taken
  <2> QED BY <1>0, <2>1
<1> QED BY <1>3, <1>4

\* ... and its action was not excluded by another of its pod.
LEMMA ExclusionsKept == ASSUME SitterInv, Progresses PROVE Exclusions'
<1>1. \A b \in Attention : Taken(b) => dec'[b] = dec[b] /\ audit'[b].state # "none"
  BY DEF Progresses, Progress
<1>2. \A b \in Attention : ~Taken(b) /\ audit'[b].state # "none" => b = svc.a /\ MayReserve(b, dec'[b])
  BY DEF Progresses, Progress
<1>3. ASSUME NEW a \in Attention, NEW b \in Attention, a # b, a[1] = b[1],
             ~Taken(a), audit'[a].state # "none", audit'[b].state # "none", dec'[a].act = dec'[b].act
      PROVE  /\ dec'[a].act \notin OncePerPod
             /\ dec'[a].act \in OncePerWindow => dec'[a].win # dec'[b].win
  <2>1. MayReserve(a, dec'[a]) /\ Taken(b) /\ dec'[b] = dec[b]
    BY <1>1, <1>2, <1>3
  <2>2. audit[b].state # "none"
    BY <2>1 DEF Taken
  <2>3. dec[b].win = dec'[a].win => b \in Used(dec'[a].win)
    BY <2>2 DEF Used
  <2> QED BY <1>3, <2>1, <2>2, <2>3 DEF MayReserve
<1>4. ASSUME NEW a \in Attention, NEW b \in Attention, a # b, a[1] = b[1],
             audit'[a].state # "none", audit'[b].state # "none", dec'[a].act = dec'[b].act
      PROVE  /\ dec'[a].act \notin OncePerPod
             /\ dec'[a].act \in OncePerWindow => dec'[a].win # dec'[b].win
  <2>1. CASE ~Taken(a)
    BY <1>3, <1>4, <2>1
  <2>2. CASE ~Taken(b)
    <3>1. /\ dec'[b].act \notin OncePerPod
          /\ dec'[b].act \in OncePerWindow => dec'[b].win # dec'[a].win
      BY <1>3, <1>4, <2>2
    <3> QED BY <1>4, <3>1
  <2>3. CASE Taken(a) /\ Taken(b)
    BY <1>1, <1>4, <2>3 DEF SitterInv, Exclusions
  <2> QED BY <2>1, <2>2, <2>3
<1> QED BY <1>4 DEF Exclusions, Taken

\* The records keep agreeing.
LEMMA RecordsKept == ASSUME SitterInv, Progresses PROVE RecordsAgree'
<1> SUFFICES ASSUME NEW b \in Attention
             PROVE  /\ audit'[b].state # "none" => dec'[b].outcome = "completed"
                    /\ audit'[b].state = "completed" <=> audit'[b].result # "none"
                    /\ calls'[b] <= 1 /\ (calls'[b] > 0 => audit'[b].state \in Begins)
  BY DEF RecordsAgree, Taken
<1>1. /\ calls[b] \in Nat /\ calls[b] <= 1 /\ (calls[b] > 0 => audit[b].state \in Begins)
      /\ Progress(b)
  BY DEF SitterInv, SitterTypes, RecordsAgree, Progresses
<1>2. CASE calls'[b] = calls[b]
  BY <1>1, <1>2 DEF Progress
<1>3. CASE Dispatches(b)
  <2>1. calls[b] = 0
    BY <1>1, <1>3 DEF Dispatches
  <2> QED BY <1>1, <1>3, <2>1 DEF Progress, Dispatches, Begins
<1> QED BY <1>1, <1>2, <1>3 DEF Progress

\* Every step keeps the invariant.
LEMMA StepSitter == ASSUME SitterInv, [Next]_sitterVars PROVE SitterInv' /\ Progresses
<1>1. Progresses /\ ServiceMoves
  BY StepProgress
<1>2. SitterTypes'
  BY <1>1, WorldTypes DEF SitterTypes, Progresses, ServiceMoves
<1> QED BY <1>1, <1>2, CeilingsKept, ExclusionsKept, RecordsKept DEF SitterInv, ServiceMoves

\* SitterInv holds in every reachable state.
LEMMA SitterInvariant == Spec => []SitterInv
BY InitSitter, StepSitter, PTL DEF Spec
-----------------------------------------------------------------------------
\* The ceilings of a window hold for the operations begun, and an action allowed once is
\* called once (podsitter-repository.ts, reserveAction).
THEOREM SitterBudgetsHold == Spec => []BudgetsHold
<1>1. ASSUME SitterInv PROVE BudgetsHold
  <2>1. \A b \in Attention : calls[b] > 0 => audit[b].state # "none"
    BY <1>1 DEF SitterInv, RecordsAgree, Begins
  <2>2. ASSUME NEW w \in (1..MaxGen) \X (1..MaxWindow) PROVE Cardinality(CallsIn(w)) <= MaxActions
    <3>1. w \in Nat \X Nat /\ MaxActions \in Nat
      BY PodsitterAssumption
    <3>2. IsFiniteSet(Used(w)) /\ Cardinality(Used(w)) <= MaxActions
      BY <1>1, <3>1 DEF SitterInv, Ceilings
    <3>3. CallsIn(w) \subseteq Used(w)
      BY <2>1 DEF CallsIn, Used
    <3>4. /\ IsFiniteSet(CallsIn(w)) /\ Cardinality(CallsIn(w)) <= Cardinality(Used(w))
          /\ Cardinality(CallsIn(w)) \in Nat /\ Cardinality(Used(w)) \in Nat
      BY <3>2, <3>3, FS_Subset, FS_CardinalityType
    <3> QED BY <3>1, <3>2, <3>4
  <2>3. \A a, b \in Attention :
          a # b /\ a[1] = b[1] /\ calls[a] > 0 /\ calls[b] > 0 /\ dec[a].act = dec[b].act =>
            /\ dec[a].act \notin OncePerPod
            /\ dec[a].act \in OncePerWindow => dec[a].win # dec[b].win
    BY <1>1, <2>1 DEF SitterInv, Exclusions, Taken
  <2> QED BY <2>2, <2>3 DEF BudgetsHold
<1> QED BY <1>1, SitterInvariant, PTL

\* No operation begins without the authority of that moment (podsitter-repository.ts,
\* beginActionDispatch).
THEOREM SitterActsUnderAuthority == Spec => ActsUnderAuthority
<1>1. ASSUME SitterInv, [Next]_sitterVars
      PROVE  [\A a \in Attention : calls'[a] > calls[a] => Active /\ dec'[a].win = WindowId]_sitterVars
  <2>1. Progresses /\ \A a \in Attention : calls[a] \in Nat
    BY <1>1, StepSitter DEF SitterInv, SitterTypes
  <2>2. ASSUME NEW a \in Attention, calls'[a] > calls[a] PROVE Active /\ dec'[a].win = WindowId
    BY <2>1, <2>2 DEF Progresses, Progress, Dispatches, Authority
  <2> QED BY <2>2
<1> QED BY <1>1, SitterInvariant, PTL DEF Spec, ActsUnderAuthority

\* Each attention implements EffectOnce: one operation, none after its outcome, and a final
\* outcome (podsitter_action_audit).
THEOREM SitterActsOnce == Spec => ActsOnce
<1>1. Init => \A a \in Attention : Effect(a)!Init
  BY DEF Init, Effect!Init
<1>2. ASSUME SitterInv, [Next]_sitterVars
      PROVE  [\A a \in Attention : [Effect(a)!Next]_<<calls[a], audit[a].result>>]_sitterVars
  <2>1. ASSUME NEW a \in Attention PROVE [Effect(a)!Next]_<<calls[a], audit[a].result>>
    <3>1. /\ Progress(a) /\ audit'[a] \in AuditRecord /\ audit[a] \in AuditRecord
          /\ calls[a] \in Nat /\ (calls[a] > 0 => audit[a].state \in Begins)
          /\ audit[a].state = "completed" <=> audit[a].result # "none"
      BY <1>2, StepSitter DEF Progresses, SitterInv, SitterTypes, RecordsAgree
    <3>2. CASE Dispatches(a)
      <4>1. calls[a] = 0 /\ calls'[a] = 1 /\ audit[a].result = "none" /\ audit'[a].result = "none"
        BY <3>1, <3>2 DEF Dispatches, Begins
      <4> QED BY <4>1 DEF Effect!Next, Effect!Request
    <3>3. CASE calls'[a] = calls[a] /\ audit'[a].result = audit[a].result
      BY <3>3
    <3>4. CASE calls'[a] = calls[a] /\ audit'[a].result # audit[a].result
      <4>1. audit[a].result = "none" /\ audit'[a].result \in {"executed", "not_executed", "unknown"}
        BY <3>1, <3>4 DEF Progress, AuditRecord
      <4> QED BY <3>4, <4>1 DEF Effect!Next, Effect!Learn
    <3> QED BY <3>1, <3>2, <3>3, <3>4 DEF Progress
  <2> QED BY <2>1
<1> QED BY <1>1, <1>2, SitterInvariant, PTL DEF Spec, ActsOnce
-----------------------------------------------------------------------------
(* The leases and the bounds.                                                   *)

AttentionState == Open \cup Settled \cup {"none"}

\* A lease on an attention is held while it is decided.
AttentionRow == {r \in [state : AttentionState, lease : Lease] : r.lease.by # 0 => r.state = "deciding"}

SitterRows == att \in [Attention -> AttentionRow] /\ provider \in [ok : BOOLEAN, due : BOOLEAN, probe : Lease]

\* No generation, window or life is past its bound.
SitterBounds ==
  /\ config \in [gen : 1..MaxGen, enabled : BOOLEAN] /\ window \in [n : 1..MaxWindow, open : BOOLEAN]
  /\ life \in 1..MaxCrashes + 1 /\ took \subseteq Attention

Bounds == SitterRows /\ SitterBounds

\* No lease, and that of the running service.
LEMMA Leases ==
  ASSUME life \in 1..MaxCrashes + 1
  PROVE  NoLease \in Lease /\ NoLease.by = 0 /\ [by |-> life, expired |-> FALSE] \in Lease
BY PodsitterAssumption DEF NoLease, Lease

\* What steps do to one attention: settle it, take it, or let its lease expire.
LEMMA RowsKept ==
  ASSUME Bounds, NEW a,
         \/ UNCHANGED att
         \/ \E st \in AttentionState : att' = [att EXCEPT ![a] = [state |-> st, lease |-> NoLease]]
         \/ att' = [att EXCEPT ![a] = [state |-> "deciding", lease |-> [by |-> life, expired |-> FALSE]]]
         \/ a \in Attention /\ att[a].lease.by # 0 /\ att' = [att EXCEPT ![a].lease.expired = TRUE]
  PROVE  att' \in [Attention -> AttentionRow]
<1>1. att \in [Attention -> AttentionRow] /\ life \in 1..MaxCrashes + 1
  BY DEF Bounds, SitterRows, SitterBounds
<1>2. ASSUME NEW r \in AttentionRow, att' = [att EXCEPT ![a] = r] PROVE att' \in [Attention -> AttentionRow]
  BY <1>1, <1>2
<1>3. \A st \in AttentionState : [state |-> st, lease |-> NoLease] \in AttentionRow
  BY <1>1, Leases DEF AttentionRow
<1>4. [state |-> "deciding", lease |-> [by |-> life, expired |-> FALSE]] \in AttentionRow
  BY <1>1, Leases DEF AttentionRow, AttentionState, Open
<1>5. CASE a \in Attention /\ att[a].lease.by # 0 /\ att' = [att EXCEPT ![a].lease.expired = TRUE]
  <2>1. att[a] \in AttentionRow
    BY <1>1, <1>5
  <2>2. [att[a] EXCEPT !.lease.expired = TRUE] \in AttentionRow
    BY <2>1 DEF AttentionRow, Lease
  <2>3. att' = [att EXCEPT ![a] = [att[a] EXCEPT !.lease.expired = TRUE]]
    BY <1>5
  <2> HIDE DEF AttentionRow
  <2> QED BY <1>2, <2>2, <2>3
<1> QED BY <1>1, <1>2, <1>3, <1>4, <1>5

\* Whatever becomes of the attention in hand, it is settled or stays as it is.
LEMMA ExecuteSettles ==
  ASSUME NEW d, Execute(d)
  PROVE  UNCHANGED att \/ \E st \in AttentionState : Settle(st)
<1>1. {"acted", "failed", "superseded", "deferred"} \subseteq AttentionState
  BY DEF AttentionState, Settled, Open
<1>2. ASSUME NEW x, NEW y, Final(svc.a, x, y) PROVE \E st \in AttentionState : Settle(st)
  BY <1>1, <1>2 DEF Final
<1> QED BY <1>1, <1>2 DEF Execute

\* Every step keeps the rows of attentions.
LEMMA AttentionsKept == ASSUME Bounds, [Next]_sitterVars PROVE att' \in [Attention -> AttentionRow]
<1>0. {"acted", "failed", "superseded", "deferred"} \subseteq AttentionState
  BY DEF AttentionState, Settled, Open
<1>1. ASSUME UNCHANGED att \/ \E st \in AttentionState : Settle(st) PROVE att' \in [Attention -> AttentionRow]
  <2>1. UNCHANGED att \/ \E st \in AttentionState : att' = [att EXCEPT ![svc.a] = [state |-> st, lease |-> NoLease]]
    BY <1>1 DEF Settle
  <2> QED BY <2>1, RowsKept
<1>2. ASSUME NEW a \in Attention, Take(a) PROVE att' \in [Attention -> AttentionRow]
  BY <1>2, RowsKept DEF Take
<1>3. ASSUME NEW a \in Attention, LeaseExpires(a) PROVE att' \in [Attention -> AttentionRow]
  BY <1>3, RowsKept DEF LeaseExpires
<1>4. CASE Listed
  <2> DEFINE new(a) == IF svc.seen[a[1]] = a[2] /\ att[a].state = "none" THEN [att[a] EXCEPT !.state = "pending"]
                       ELSE IF Superseded(a) /\ att[a].state \in Open
                       THEN [state |-> "superseded", lease |-> NoLease]
                       ELSE att[a]
  <2>1. att' = [a \in Attention |-> new(a)]
    BY <1>4 DEF Listed
  <2>2. ASSUME NEW a \in Attention PROVE new(a) \in AttentionRow
    <3>1. att[a] \in AttentionRow /\ NoLease \in Lease /\ NoLease.by = 0
      BY Leases DEF Bounds, SitterRows, SitterBounds
    <3>2. att[a].state = "none" => [att[a] EXCEPT !.state = "pending"] \in AttentionRow
      BY <3>1 DEF AttentionRow, AttentionState, Open
    <3>3. [state |-> "superseded", lease |-> NoLease] \in AttentionRow
      BY <1>0, <3>1 DEF AttentionRow
    <3> QED BY <3>1, <3>2, <3>3
  <2> QED BY <2>1, <2>2
<1>5. CASE Candidate
  <2>1. (\E d : Execute(d)) \/ UNCHANGED att \/ \E st \in {"acted", "failed", "superseded", "deferred"} : Settle(st)
    BY <1>5 DEF Candidate, Throw, durable
  <2> QED BY <1>0, <1>1, <2>1, ExecuteSettles
<1>6. CASE Refreshed
  <2>1. (\E d : Execute(d)) \/ UNCHANGED att \/ \E st \in {"acted", "failed", "superseded", "deferred"} : Settle(st)
    BY <1>6 DEF Refreshed, Throw, durable
  <2> QED BY <1>0, <1>1, <2>1, ExecuteSettles
<1>7. CASE DecisionFails
  <2>1. UNCHANGED att \/ Settle("deferred")
    BY <1>7 DEF DecisionFails, Throw, durable
  <2> QED BY <1>0, <1>1, <2>1
<1>8. CASE OperationDone \/ OperationFails
  <2>1. \E st \in {"acted", "failed", "superseded", "deferred"} : Settle(st)
    BY <1>8 DEF OperationDone, OperationFails, Final
  <2> QED BY <1>0, <1>1, <2>1
<1>9. CASE UNCHANGED att
  BY <1>1, <1>9
<1> QED BY <1>2, <1>3, <1>4, <1>5, <1>6, <1>7, <1>8, <1>9 DEF Next, Step, LoopEnds, ProbeReturns, Decided, Reconcile,
           ReplaceConfig, WindowMoves, Crash, ProbeLeaseExpires, RetryDue, PodChanges, durable, sitterVars

\* Every step keeps the provider's row.
LEMMA ProviderKept ==
  ASSUME Bounds, [Next]_sitterVars
  PROVE  provider' \in [ok : BOOLEAN, due : BOOLEAN, probe : Lease]
<1>1. /\ provider \in [ok : BOOLEAN, due : BOOLEAN, probe : Lease]
      /\ NoLease \in Lease /\ [by |-> life, expired |-> FALSE] \in Lease
  BY Leases DEF Bounds, SitterRows, SitterBounds
<1>2. ASSUME \/ UNCHANGED provider
             \/ \E l \in {NoLease, [by |-> life, expired |-> FALSE]} : provider' = [provider EXCEPT !.probe = l]
             \/ \E ok \in BOOLEAN : provider' = [ok |-> ok, due |-> FALSE, probe |-> NoLease]
             \/ provider' = [provider EXCEPT !.due = TRUE]
             \/ provider' = [provider EXCEPT !.probe.expired = TRUE]
      PROVE  provider' \in [ok : BOOLEAN, due : BOOLEAN, probe : Lease]
  <2>1. [provider EXCEPT !.probe.expired = TRUE] \in [ok : BOOLEAN, due : BOOLEAN, probe : Lease]
    BY <1>1 DEF Lease
  <2>2. \A l \in {NoLease, [by |-> life, expired |-> FALSE]} :
          [provider EXCEPT !.probe = l] \in [ok : BOOLEAN, due : BOOLEAN, probe : Lease]
    BY <1>1
  <2>3. \A ok \in BOOLEAN :
          [ok |-> ok, due |-> FALSE, probe |-> NoLease] \in [ok : BOOLEAN, due : BOOLEAN, probe : Lease]
    BY <1>1
  <2>4. [provider EXCEPT !.due = TRUE] \in [ok : BOOLEAN, due : BOOLEAN, probe : Lease]
    BY <1>1
  <2> QED BY <1>1, <1>2, <2>1, <2>2, <2>3, <2>4
<1>3. CASE Listed
  BY <1>2, <1>3 DEF Listed
<1>4. CASE Candidate
  BY <1>2, <1>4 DEF Candidate, Throw, durable, Execute
<1>5. CASE \E ok \in BOOLEAN : ProbeReturns(ok)
  BY <1>2, <1>5 DEF ProbeReturns
<1>6. CASE DecisionFails
  BY <1>2, <1>6 DEF DecisionFails, Throw, durable
<1>7. CASE \E act \in Action \cup {NoAction} : Decided(act)
  BY <1>2, <1>7 DEF Decided
<1>8. CASE ProbeLeaseExpires \/ RetryDue
  BY <1>2, <1>8 DEF ProbeLeaseExpires, RetryDue
<1>9. UNCHANGED provider \/ Listed \/ Candidate \/ (\E ok \in BOOLEAN : ProbeReturns(ok)) \/ DecisionFails
      \/ (\E act \in Action \cup {NoAction} : Decided(act)) \/ ProbeLeaseExpires \/ RetryDue
  BY DEF Next, Step, LoopEnds, Refreshed, Take, Execute, Throw, OperationDone, OperationFails, Reconcile,
         ReplaceConfig, WindowMoves, Crash, PodChanges, LeaseExpires, durable, sitterVars
<1> QED BY <1>2, <1>3, <1>4, <1>5, <1>6, <1>7, <1>8, <1>9

\* Every step keeps the bounds.
LEMMA BoundsKept == ASSUME SitterInv, Bounds, [Next]_sitterVars PROVE Bounds'
<1>1. /\ config' \in [gen : Nat, enabled : BOOLEAN] /\ window' \in [n : Nat, open : BOOLEAN]
      /\ MaxGen \in Nat /\ MaxWindow \in Nat /\ MaxCrashes \in Nat
  BY WorldTypes, PodsitterAssumption
<1>2. config' \in [gen : 1..MaxGen, enabled : BOOLEAN]
  <2>1. UNCHANGED config \/ (config.gen < MaxGen /\ config'.gen = config.gen + 1)
    <3>1. UNCHANGED config \/ ReplaceConfig
      BY DEF Next, Step, Listed, LoopEnds, Candidate, Refreshed, Take, ProbeReturns, DecisionFails, Decided,
             OperationDone, OperationFails, Reconcile, WindowMoves, PodChanges, Crash,
             ProbeLeaseExpires, RetryDue, LeaseExpires, world, sitterVars
    <3>2. ReplaceConfig => config.gen < MaxGen /\ config'.gen = config.gen + 1
      BY DEF ReplaceConfig
    <3> QED BY <3>1, <3>2
  <2> QED BY <1>1, <2>1 DEF Bounds, SitterBounds
<1>3. window' \in [n : 1..MaxWindow, open : BOOLEAN]
  <2>1. UNCHANGED window \/ (window'.n <= MaxWindow /\ window'.n \in {window.n, window.n + 1})
    <3>1. WindowMoves => window'.n <= MaxWindow /\ window'.n \in {window.n, window.n + 1}
      BY DEF WindowMoves, Bounds, SitterBounds
    <3>2. UNCHANGED window \/ WindowMoves
      BY DEF Next, Step, Listed, LoopEnds, Candidate, Refreshed, Take, ProbeReturns, DecisionFails, Decided,
             OperationDone, OperationFails, Reconcile, ReplaceConfig, PodChanges, Crash, ProbeLeaseExpires,
             RetryDue, LeaseExpires, world, sitterVars
    <3> QED BY <3>1, <3>2
  <2> QED BY <1>1, <2>1 DEF Bounds, SitterBounds
<1>4. life' \in 1..MaxCrashes + 1
  <2>1. UNCHANGED life \/ Die
    BY DEF Next, Step, Listed, LoopEnds, Candidate, Refreshed, Take, ProbeReturns, DecisionFails, Decided,
           OperationDone, OperationFails, Reconcile, ReplaceConfig, WindowMoves, PodChanges, Crash,
           ProbeLeaseExpires, RetryDue, LeaseExpires, Execute, Final, Settle, Throw, Go, sitterVars
  <2> QED BY <1>1, <2>1 DEF Die, Bounds, SitterBounds
<1>5. took' \subseteq Attention
  <2>1. UNCHANGED took \/ OperationDone
    BY DEF Next, Step, Listed, LoopEnds, Candidate, Refreshed, Take, ProbeReturns, DecisionFails, Decided,
           OperationFails, Reconcile, ReplaceConfig, WindowMoves, PodChanges, Crash,
           ProbeLeaseExpires, RetryDue, LeaseExpires, Execute, Throw, history, sitterVars
  <2>2. OperationDone => took' = took \cup {svc.a} /\ svc.a \in Attention
    BY DEF OperationDone, SitterInv, ChainHolds, InHand
  <2> QED BY <2>1, <2>2 DEF Bounds, SitterBounds
<1> QED BY <1>2, <1>3, <1>4, <1>5, AttentionsKept, ProviderKept DEF Bounds, SitterRows, SitterBounds

\* Types of the store; only an attention being decided is leased, and only a completed
\* decision is acted on.
THEOREM SitterTypeOK == Spec => []TypeOK
<1>1. Init => Bounds
  <2>1. SUFFICES ASSUME Init PROVE Bounds
    OBVIOUS
  <2>2. /\ MaxGen \in Nat \ {0} /\ MaxWindow \in Nat \ {0} /\ MaxCrashes \in Nat
    BY PodsitterAssumption
  <2>3. life \in 1..MaxCrashes + 1
    BY <2>1, <2>2 DEF Init
  <2>4. [state |-> "none", lease |-> NoLease] \in AttentionRow
    BY <2>3, Leases DEF AttentionRow, AttentionState
  <2> QED BY <2>1, <2>2, <2>3, <2>4, Leases DEF Init, Bounds, SitterRows, SitterBounds
<1>2. SitterInv /\ Bounds => TypeOK
  <2>1. SUFFICES ASSUME SitterInv, Bounds PROVE TypeOK
    OBVIOUS
  <2>2. ASSUME NEW a \in Attention
        PROVE  /\ att[a].state \in Open \cup Settled \cup {"none"} /\ att[a].lease \in Lease
               /\ att[a].lease.by # 0 => att[a].state = "deciding"
    <3>1. att[a] \in AttentionRow
      BY <2>1 DEF Bounds, SitterRows
    <3> QED BY <3>1 DEF AttentionRow, AttentionState
  <2>3. ASSUME NEW a \in Attention
        PROVE  /\ dec[a].act \in Action \cup {NoAction}
               /\ audit[a].state # "none" => dec[a].outcome = "completed"
               /\ audit[a].state = "completed" <=> audit[a].result # "none"
    BY <2>1 DEF SitterInv, SitterTypes, RecordsAgree, Taken, Decision
  <2> QED BY <2>1, <2>2, <2>3 DEF TypeOK, SitterInv, SitterTypes, Bounds, SitterRows, SitterBounds
<1>3. Spec => []Bounds
  <2>1. SitterInv /\ Bounds /\ [Next]_sitterVars => Bounds'
    BY BoundsKept
  <2> QED BY <1>1, <2>1, SitterInvariant, PTL DEF Spec
<1> QED BY <1>2, <1>3, SitterInvariant, PTL
-----------------------------------------------------------------------------
(* The security scans.                                                         *)

\* The jobs of the reports.
LEMMA ScanBounds == Scans!ScansAssumption
BY PartsAssumption

\* The operation of a job is about a report of that job.
OwnReport == \A j \in Job : running[j].at # "idle" => JobOf[running[j].report] = j

\* The inductive invariant.  TypeOK says who collects a report only together with OwnReport.
ScansInv == Scans!TypeOK /\ OwnReport /\ FindingsNeverLost

\* Nothing was scanned at first.
LEMMA InitScans == Scans!Init => ScansInv
<1> SUFFICES ASSUME Scans!Init PROVE Scans!TypeOK /\ OwnReport /\ FindingsNeverLost
  BY DEF ScansInv
<1>1. /\ status \in [Report -> {Scans!None, "collecting"} \cup Scans!Final]
      /\ found \in [Report -> SUBSET Finding] /\ judgment \in [Report -> Scans!Judgment]
      /\ disposition \in [Finding -> {Scans!None, "unresolved", "deferred", "resolved"}]
      /\ covered \in [Finding -> SUBSET Report]
      /\ repairs \in [Key -> Nat] /\ launch \in [Launcher -> Key \cup {Scans!None}]
  BY DEF Scans!Init, Scans!Judgment
<1>2. scoped \in [Report -> BOOLEAN]
  BY Zenon DEF Scans!Init
<1>3. /\ decision \in [Key -> Scans!Decision \cup {Scans!Undecided}]
      /\ running \in [Job -> {Scans!Idle} \cup [report : Report, at : {"collecting", "cleanup",
         "cleaned", "judging"}]]
  BY DEF Scans!Init
<1>4. \A r \in Report : status[r] = "collecting" <=> running[JobOf[r]] = [report |-> r, at |-> "collecting"]
  BY ScanBounds DEF Scans!Init, Scans!Idle, Scans!None, Scans!ScansAssumption
<1>5. FindingsNeverLost /\ OwnReport
  BY DEF Scans!Init, FindingsNeverLost, Scans!FindingsNeverLost, OwnReport, Scans!Idle
<1>6. QED
  BY <1>1, <1>2, <1>3, <1>4, <1>5 DEF Scans!TypeOK

\* The operation of a job and its report.
LEMMA ReportInHand ==
  ASSUME Scans!TypeOK, NEW j \in Job, running[j].at # "idle"
  PROVE  /\ running[j].report \in Report
         /\ running[j] \in [report : Report, at : {"collecting", "cleanup", "cleaned", "judging"}]
BY DEF Scans!TypeOK, Scans!Idle

\* A job collects: a report begins.
LEMMA CollectKeeps == ASSUME ScansInv, NEW j \in Job, NEW r \in Report, Scans!Collect(j, r) PROVE ScansInv'
<1> USE DEF ScansInv
<1>1. UNCHANGED <<found, scoped, Scans!triageVars, repairs, launch, crashes>>
  BY DEF Scans!Collect
<1> DEFINE begun == [report |-> r, at |-> "collecting"]
<1>2. begun \in [report : Report, at : {"collecting", "cleanup", "cleaned", "judging"}] /\ begun # Scans!Idle
      /\ begun.report = r
  BY DEF Scans!Idle
<1>3. running' = [running EXCEPT ![j] = begun] /\ running[j] = Scans!Idle /\ JobOf[r] = j
  BY DEF Scans!Collect, Scans!MayCollect
<1>4. /\ running' \in [Job -> {Scans!Idle} \cup [report : Report, at : {"collecting", "cleanup",
         "cleaned", "judging"}]]
      /\ \A q \in Report : status'[q] = "collecting" <=> running'[JobOf[q]] = [report |-> q, at |-> "collecting"]
  <2>1. \A q \in Report : [report |-> q, at |-> "collecting"] # Scans!Idle
        /\ ([report |-> q, at |-> "collecting"] = begun <=> q = r)
    BY DEF Scans!Idle
  <2>2. \A q \in Report : status'[q] = IF q = r THEN "collecting" ELSE status[q]
    BY DEF Scans!Collect, Scans!TypeOK
  <2> HIDE DEF begun
  <2>3. \A q \in Report : JobOf[q] \in Job
    BY ScanBounds DEF Scans!ScansAssumption
  <2>4. running' \in [Job -> {Scans!Idle} \cup [report : Report, at : {"collecting", "cleanup",
        "cleaned", "judging"}]]
    BY <1>2, <1>3 DEF Scans!TypeOK
  <2>5. \A q \in Report : running'[JobOf[q]] = IF JobOf[q] = j THEN begun ELSE running[JobOf[q]]
    BY <1>3, <2>3 DEF Scans!TypeOK
  <2>6. \A q \in Report : JobOf[q] = j => status[q] # "collecting"
    BY <1>3, <2>1 DEF Scans!TypeOK
  <2>7. QED
    BY <1>3, <2>1, <2>2, <2>4, <2>5, <2>6 DEF Scans!TypeOK
<1>5. status' \in [Report -> {Scans!None, "collecting"} \cup Scans!Final]
      /\ judgment' \in [Report -> Scans!Judgment]
  BY DEF Scans!Collect, Scans!TypeOK, Scans!Judgment
<1>6. Scans!TypeOK'
  BY <1>1, <1>4, <1>5 DEF Scans!TypeOK, Scans!triageVars
<1>7. FindingsNeverLost' /\ OwnReport'
  <2>1. OwnReport'
    <3> HIDE DEF begun
    <3>1. QED
      BY <1>2, <1>3 DEF OwnReport, Scans!TypeOK
  <2>2. QED
    BY <1>1, <2>1 DEF FindingsNeverLost, Scans!FindingsNeverLost, Scans!triageVars
<1>8. QED
  BY <1>6, <1>7

\* A receipt puts every finding it names in the inbox.
LEMMA FinishKeeps ==
  ASSUME ScansInv, NEW j \in Job, NEW s \in Scans!Final, NEW fs \in SUBSET Finding, NEW known \in BOOLEAN,
         NEW at \in {"cleanup", "cleaned"}, Scans!Finish(j, s, fs, known, at)
  PROVE  ScansInv'
<1> USE DEF ScansInv
<1> DEFINE r == running[j].report
           ended == [running[j] EXCEPT !.at = at]
<1>1. /\ r \in Report /\ JobOf[r] = j
      /\ running[j] \in [report : Report, at : {"collecting", "cleanup", "cleaned", "judging"}]
  BY ReportInHand DEF Scans!Finish, OwnReport
<1>2. /\ ended \in [report : Report, at : {"collecting", "cleanup", "cleaned", "judging"}]
      /\ ended.report = r /\ ended.at = at
  BY <1>1
<1>3. \A q \in Report : ended # [report |-> q, at |-> "collecting"]
  BY <1>2
<1>4. /\ running' = [running EXCEPT ![j] = ended] /\ running[j].at = "collecting"
      /\ status' = [status EXCEPT ![r] = s] /\ found' = [found EXCEPT ![r] = fs]
      /\ scoped' = [scoped EXCEPT ![r] = known]
      /\ disposition' = [f \in Finding |-> IF f \in fs THEN Scans!Refound(disposition[f]) ELSE disposition[f]]
      /\ UNCHANGED <<judgment, decision, covered, repairs, launch, crashes>>
  BY DEF Scans!Finish
<1>5. running[j] = [report |-> r, at |-> "collecting"]
  BY <1>1, <1>4
<1> HIDE DEF r, ended
<1>6. /\ running' \in [Job -> {Scans!Idle} \cup [report : Report, at : {"collecting", "cleanup",
         "cleaned", "judging"}]]
      /\ OwnReport'
  BY <1>1, <1>2, <1>4 DEF Scans!TypeOK, OwnReport
<1>7. \A q \in Report : status'[q] = "collecting" <=> running'[JobOf[q]] = [report |-> q, at |-> "collecting"]
  <2>1. \A q \in Report : JobOf[q] \in Job
    BY ScanBounds DEF Scans!ScansAssumption
  <2>2. \A q \in Report : [report |-> q, at |-> "collecting"] = running[j] <=> q = r
    BY <1>5
  <2>3. \A q \in Report : status'[q] = IF q = r THEN s ELSE status[q]
    BY <1>4 DEF Scans!TypeOK
  <2>4. s # "collecting"
    BY DEF Scans!Final
  <2>5. \A q \in Report : running'[JobOf[q]] = IF JobOf[q] = j THEN ended ELSE running[JobOf[q]]
    BY <1>4, <2>1 DEF Scans!TypeOK
  <2>6. \A q \in Report : status[q] = "collecting" <=> running[JobOf[q]] = [report |-> q, at |-> "collecting"]
    BY DEF Scans!TypeOK
  <2>7. ASSUME NEW q \in Report
        PROVE  status'[q] = "collecting" <=> running'[JobOf[q]] = [report |-> q, at |-> "collecting"]
    <3>1. CASE q = r
      BY <1>1, <1>3, <2>3, <2>4, <2>5, <3>1
    <3>2. CASE q # r /\ JobOf[q] = j
      BY <1>3, <2>2, <2>3, <2>5, <2>6, <3>2
    <3>3. CASE q # r /\ JobOf[q] # j
      BY <2>3, <2>5, <2>6, <3>3
    <3>4. QED
      BY <3>1, <3>2, <3>3
  <2>8. QED
    BY <2>7
<1>8. \A f \in Finding : /\ disposition'[f] \in {Scans!None, "unresolved", "deferred", "resolved"}
                         /\ f \in fs => disposition'[f] \in {"unresolved", "deferred"}
                         /\ f \notin fs => disposition'[f] = disposition[f]
  BY <1>4 DEF Scans!Refound, Scans!TypeOK
<1>9. Scans!TypeOK'
  <2>1. disposition' \in [Finding -> {Scans!None, "unresolved", "deferred", "resolved"}]
    BY <1>4 DEF Scans!Refound, Scans!TypeOK
  <2>2. status' \in [Report -> {Scans!None, "collecting"} \cup Scans!Final] /\ found' \in [Report -> SUBSET Finding]
    BY <1>4 DEF Scans!TypeOK
  <2>3. scoped' \in [Report -> BOOLEAN]
    BY <1>4 DEF Scans!TypeOK
  <2>4. QED
    BY <1>4, <1>6, <1>7, <2>1, <2>2, <2>3 DEF Scans!TypeOK
<1>10. FindingsNeverLost'
  <2>1. \A q \in Report : found'[q] = IF q = r THEN fs ELSE found[q]
    BY <1>4 DEF Scans!TypeOK
  <2>2. covered' = covered
    BY <1>4
  <2>3. \A q \in Report, f \in Finding :
          f \in found[q] => \/ disposition[f] \in {"unresolved", "deferred"}
                            \/ disposition[f] = "resolved" /\ q \in covered[f]
    BY DEF FindingsNeverLost, Scans!FindingsNeverLost
  <2>4. ASSUME NEW q \in Report, NEW f \in Finding, f \in found'[q]
        PROVE  \/ disposition'[f] \in {"unresolved", "deferred"}
               \/ disposition'[f] = "resolved" /\ q \in covered'[f]
    BY <1>8, <2>1, <2>2, <2>3, <2>4
  <2>5. QED
    BY <2>4 DEF FindingsNeverLost, Scans!FindingsNeverLost
<1>11. QED
  BY <1>6, <1>9, <1>10

\* What follows a receipt changes neither reports nor findings.
LEMMA AfterKeeps ==
  ASSUME ScansInv, NEW j \in Job, Scans!Cleanup(j) \/ Scans!AfterCleanup(j) \/ Scans!Judged(j)
  PROVE  ScansInv'
<1> USE DEF ScansInv
<1> DEFINE r == running[j].report
<1>1. /\ UNCHANGED <<status, found, scoped, Scans!triageVars, repairs, launch>>
      /\ running[j].at \in {"cleanup", "cleaned", "judging"}
  BY DEF Scans!Cleanup, Scans!AfterCleanup, Scans!Judged, Scans!reportVars
<1>2. /\ r \in Report /\ JobOf[r] = j
      /\ running[j] \in [report : Report, at : {"collecting", "cleanup", "cleaned", "judging"}]
  BY <1>1, ReportInHand DEF OwnReport
<1> DEFINE At == {"collecting", "cleanup", "cleaned", "judging"}
           Moved(c) == /\ c \in {Scans!Idle} \cup [report : Report, at : At]
                      /\ c.at # "collecting" /\ (c.at # "idle" => c.report = r)
                      /\ running' = [running EXCEPT ![j] = c]
<1>3. \E c : Moved(c)
  <2>1. ASSUME NEW at \in {"cleaned", "judging"}, running' = [running EXCEPT ![j].at = at]
        PROVE  \E c : Moved(c)
    <3> DEFINE c == [running[j] EXCEPT !.at = at]
    <3>1. c \in [report : Report, at : At] /\ c.report = r /\ c.at = at
      BY <1>2
    <3>2. running' = [running EXCEPT ![j] = c]
      BY <2>1
    <3> HIDE DEF c
    <3>3. QED
      BY <3>1, <3>2
  <2>2. ASSUME running' = [running EXCEPT ![j] = Scans!Idle] PROVE \E c : Moved(c)
    <3>1. Scans!Idle.at = "idle"
      BY DEF Scans!Idle
    <3>2. Moved(Scans!Idle)
      BY <2>2, <3>1
    <3>3. QED
      BY <3>2
  <2>3. \/ \E at \in {"cleaned", "judging"} : running' = [running EXCEPT ![j].at = at]
        \/ running' = [running EXCEPT ![j] = Scans!Idle]
    BY DEF Scans!Cleanup, Scans!AfterCleanup, Scans!Judged
  <2>4. QED
    BY <2>1, <2>2, <2>3
<1>4. judgment' \in [Report -> Scans!Judgment]
  <2>1. judgment' = judgment \/ \E v \in Scans!Judgment : judgment' = [judgment EXCEPT ![r] = v]
    BY <1>2 DEF Scans!Cleanup, Scans!AfterCleanup, Scans!Judged, Scans!reportVars, Scans!Settled,
       Scans!Judgment, Scans!TypeOK
  <2>2. QED
    BY <2>1 DEF Scans!TypeOK
<1> HIDE DEF r
<1>5. /\ running' \in [Job -> {Scans!Idle} \cup [report : Report, at : {"collecting", "cleanup",
         "cleaned", "judging"}]]
      /\ OwnReport'
  <2>1. PICK c : Moved(c)
    BY <1>3
  <2>2. QED
    BY <1>2, <2>1 DEF Scans!TypeOK, OwnReport
<1>6. \A q \in Report : status'[q] = "collecting" <=> running'[JobOf[q]] = [report |-> q, at |-> "collecting"]
  <2>1. \A q \in Report : JobOf[q] \in Job
    BY ScanBounds DEF Scans!ScansAssumption
  <2>2. \A q \in Report : running[j] # [report |-> q, at |-> "collecting"]
        /\ running'[j] # [report |-> q, at |-> "collecting"]
    <3>1. PICK c : Moved(c)
      BY <1>3
    <3>2. running[j].at # "collecting" /\ running'[j].at # "collecting"
      BY <1>1, <3>1 DEF Scans!TypeOK
    <3>3. QED
      BY <3>2
  <2>3. \A i \in Job : i # j => running'[i] = running[i]
    BY <1>3 DEF Scans!TypeOK
  <2>4. QED
    BY <1>1, <2>1, <2>2, <2>3 DEF Scans!TypeOK
<1>7. Scans!TypeOK' /\ FindingsNeverLost'
  BY <1>1, <1>4, <1>5, <1>6 DEF Scans!TypeOK, FindingsNeverLost, Scans!FindingsNeverLost, Scans!triageVars
<1>8. QED
  BY <1>5, <1>7

\* A human resolves what the reports have named so far, and defers or repairs the rest.
LEMMA TriageKeeps ==
  ASSUME ScansInv, NEW k \in Key, NEW r \in Report, NEW action \in {"resolve", "defer", "select_repair"},
         NEW fs \in SUBSET Finding, Scans!Triage(k, r, action, fs)
  PROVE  ScansInv'
<1> USE DEF ScansInv
<1>1. UNCHANGED <<Scans!reportVars, repairs, running, launch, crashes>>
  BY DEF Scans!Triage
<1>2. \A f \in Finding :
        \/ disposition'[f] = disposition[f] /\ covered'[f] = covered[f]
        \/ disposition'[f] = "deferred"
        \/ disposition'[f] = "resolved" /\ covered'[f] = {q \in Report : f \in found[q]}
  BY DEF Scans!Triage
<1>3. /\ disposition' \in [Finding -> {Scans!None, "unresolved", "deferred", "resolved"}]
      /\ covered' \in [Finding -> SUBSET Report]
  BY DEF Scans!Triage, Scans!TypeOK
<1>4. decision' \in [Key -> Scans!Decision \cup {Scans!Undecided}]
  <2> DEFINE new == [report |-> r, action |-> action, findings |-> fs]
  <2>1. new \in Scans!Decision /\ decision' = [decision EXCEPT ![k] = new]
    BY DEF Scans!Decision, Scans!Triage
  <2> HIDE DEF new
  <2>2. QED
    BY <2>1 DEF Scans!TypeOK
<1>5. FindingsNeverLost'
  BY <1>1, <1>2 DEF FindingsNeverLost, Scans!FindingsNeverLost, Scans!reportVars
<1>6. Scans!TypeOK' /\ OwnReport'
  BY <1>1, <1>3, <1>4 DEF Scans!TypeOK, OwnReport, Scans!reportVars
<1>7. QED
  BY <1>5, <1>6

\* Launches and the end of the process leave the reports their findings.
LEMMA LaunchKeeps ==
  ASSUME ScansInv, Scans!Restart \/ \E l \in Launcher : Scans!LaunchEnd(l) \/ \E k \in Key : Scans!LaunchStart(l, k)
  PROVE  ScansInv'
<1> USE DEF ScansInv
<1>1. UNCHANGED <<found, scoped, Scans!triageVars>>
  BY DEF Scans!Restart, Scans!LaunchEnd, Scans!LaunchStart, Scans!reportVars
<1>2. launch' \in [Launcher -> Key \cup {Scans!None}]
  BY DEF Scans!Restart, Scans!LaunchEnd, Scans!LaunchStart, Scans!TypeOK
<1>3. repairs' \in [Key -> Nat]
  <2>1. repairs' = repairs \/ \E k \in Key : repairs' = [repairs EXCEPT ![k] = @ + 1]
    BY DEF Scans!Restart, Scans!LaunchEnd, Scans!LaunchStart, Scans!TypeOK
  <2>2. QED
    BY <2>1 DEF Scans!TypeOK
<1>4. FindingsNeverLost'
  BY <1>1 DEF FindingsNeverLost, Scans!FindingsNeverLost, Scans!triageVars
<1>5. CASE Scans!Restart
  <2>1. /\ status' \in [Report -> {Scans!None, "collecting"} \cup Scans!Final]
           /\ judgment' \in [Report -> Scans!Judgment]
        /\ running' = [j \in Job |-> Scans!Idle] /\ \A r \in Report : status'[r] # "collecting"
    BY <1>5 DEF Scans!Restart, Scans!TypeOK, Scans!Final, Scans!Judgment, Scans!Interrupted
  <2>2. \A r \in Report : Scans!Idle # [report |-> r, at |-> "collecting"] /\ JobOf[r] \in Job
    BY ScanBounds DEF Scans!Idle, Scans!ScansAssumption
  <2>3. Scans!Idle.at = "idle"
    BY DEF Scans!Idle
  <2> HIDE DEF Scans!Idle
  <2>4. QED
    BY <1>1, <1>2, <1>3, <1>4, <2>1, <2>2, <2>3 DEF Scans!TypeOK, OwnReport, Scans!triageVars
<1>6. CASE \E l \in Launcher : Scans!LaunchEnd(l) \/ \E k \in Key : Scans!LaunchStart(l, k)
  <2>1. UNCHANGED <<Scans!reportVars, running>>
    BY <1>6 DEF Scans!LaunchEnd, Scans!LaunchStart
  <2>2. QED
    BY <1>1, <1>2, <1>3, <1>4, <2>1 DEF Scans!TypeOK, OwnReport, Scans!triageVars, Scans!reportVars
<1>7. QED
  BY <1>5, <1>6

\* Every step of the coordinator and of the operators keeps the invariant.
LEMMA StepScans == ASSUME ScansInv, [Scans!Next]_Scans!scanVars PROVE ScansInv'
<1>1. CASE UNCHANGED Scans!scanVars
  BY <1>1 DEF Scans!scanVars, Scans!reportVars, Scans!triageVars, ScansInv, Scans!TypeOK, OwnReport,
     FindingsNeverLost, Scans!FindingsNeverLost
<1>2. ASSUME NEW j \in Job, Scans!Collected(j) \/ Scans!CollectFailed(j)
      PROVE  ScansInv'
  BY <1>2, FinishKeeps DEF Scans!Collected, Scans!CollectFailed, Scans!Final, Scans!VerdictOfFailure
<1>3. QED
  BY <1>1, <1>2, CollectKeeps, AfterKeeps, TriageKeeps, LaunchKeeps DEF Scans!Next

\* Reports, findings, decisions and operations have their types; a report is being collected
\* exactly while the operation of its job collects it (scan-coordinator.ts).
THEOREM ScansTypeOK == Scans!Spec => []Scans!TypeOK
<1>1. ScansInv => Scans!TypeOK
  BY DEF ScansInv
<1>2. QED
  BY <1>1, InitScans, StepScans, PTL DEF Scans!Spec

\* Whatever collections, judgments, decisions and restarts interleave, a finding that a report
\* names is unresolved or deferred, or was resolved after that report
\* (scan-report-repository.ts).
THEOREM ScansFindingsNeverLost == Scans!Spec => []FindingsNeverLost
<1>1. ScansInv => FindingsNeverLost
  BY DEF ScansInv
<1>2. QED
  BY <1>1, InitScans, StepScans, PTL DEF Scans!Spec
-----------------------------------------------------------------------------
(* The scheduled jobs.                                                         *)

\* Expressions have periods, and the bounds are numbers.
LEMMA JobBounds == Jobs!JobsAssumption
BY PartsAssumption

\* The kinds of a launch; what a pod was made for, and what an operation holds.
Kinds == {"scheduled", "manual", "catchup"}
Admitted == [job : Scheduled, kind : Kinds, occ : Nat, active : BOOLEAN]
JobOperation == [kind : Kinds \cup {"none"}, at : {"idle", "next", "resolving", "launched"},
              job : Scheduled \cup {Jobs!Idle.job}, occ : Nat, read : [Scheduled -> Jobs!Row]]

\* Only passes go on to another job, and what is launched is of a job and has a kind.
Underway ==
  /\ op \in [Op -> JobOperation]
  /\ \A o \in Op : /\ op[o].at = "next" => op[o].kind = "scheduled"
                   /\ op[o].at \in {"resolving", "launched"} => op[o].job \in Scheduled /\ op[o].kind \in Kinds

\* Every launch selection is of an edit.
Rows == row \in [Scheduled -> Jobs!Row] /\ \A j \in Scheduled : row[j].launch <= edits + 1

\* The inductive invariant.
JobsInv ==
  /\ now \in 0..MaxTime /\ restarts \in 0..MaxRestarts /\ edits \in 0..MaxEdits
  /\ jobPods \in Seq(Admitted) /\ Rows /\ Underway /\ OccurrenceOnce

\* A quotient and its remainder.
LEMMA Quotient ==
  ASSUME NEW n \in Nat, NEW c \in Nat, c > 0
  PROVE  n = (n \div c) * c + (n % c) /\ n \div c \in Nat /\ n % c \in 0..c - 1
<1>1. n % c \in 0..c - 1
  BY SMT
<1>2. n \div c \in Nat
  BY SMT
<1>3. n = (n \div c) * c + (n % c)
  BY SMT
<1>4. QED
  BY <1>1, <1>2, <1>3

\* Multiplication is monotone.
LEMMA Monotone == ASSUME NEW a \in Nat, NEW b \in Nat, NEW c \in Nat, a <= b PROVE a * c <= b * c
BY SMT

\* The next multiple.
LEMMA OneMore == ASSUME NEW a \in Nat, NEW c \in Nat PROVE (a + 1) * c = a * c + c /\ a * c \in Nat
BY SMT

\* A multiple leaves no remainder.
LEMMA Multiple == ASSUME NEW k \in Nat, NEW c \in Nat, c > 0 PROVE (k * c) % c = 0
<1> DEFINE n == k * c
           d == n \div c
           m == n % c
<1>1. n \in Nat
  BY OneMore
<1>2. n = d * c + m /\ d \in Nat /\ m \in 0..c - 1
  BY <1>1, Quotient
<1>3. d * c \in Nat /\ (d + 1) * c = d * c + c /\ d + 1 \in Nat
  BY <1>2, OneMore
<1>4. CASE k <= d
  <2>1. n <= d * c
    BY <1>2, <1>4, Monotone
  <2>2. QED
    BY <1>1, <1>2, <1>3, <2>1
<1>5. CASE d + 1 <= k
  <2>1. (d + 1) * c <= n
    BY <1>3, <1>5, Monotone
  <2> HIDE DEF n, d, m
  <2>2. QED
    BY <1>1, <1>2, <1>3, <2>1
<1>6. QED
  BY <1>2, <1>4, <1>5

\* The next run of an expression is later, within its period.
LEMMA NextIsLater ==
  ASSUME NEW cron \in Period, NEW t \in Nat
  PROVE  Jobs!NextRun(cron, t) \in t + 1..t + cron /\ Jobs!NextRun(cron, t) \in Nat
<1> DEFINE q == t \div cron
           n == (q + 1) * cron
<1>1. cron \in Nat /\ cron > 0
  BY JobBounds DEF Jobs!JobsAssumption
<1>2. t = q * cron + (t % cron) /\ q \in Nat /\ t % cron \in 0..cron - 1
  BY <1>1, Quotient
<1>3. n = q * cron + cron /\ q * cron \in Nat
  BY <1>1, <1>2, OneMore
<1>4. n % cron = 0
  BY <1>1, <1>2, Multiple
<1> HIDE DEF q, n
<1>5. n \in t + 1..t + cron
  BY <1>1, <1>2, <1>3
<1>6. Jobs!NextRun(cron, t) \in t + 1..t + cron
  BY <1>4, <1>5 DEF Jobs!NextRun
<1>7. QED
  BY <1>1, <1>6

\* The rows at first, and those of a deleted job.
LEMMA RowTypes ==
  /\ Jobs!FirstCron \in Period
  /\ Jobs!NewRow \in Jobs!Row /\ Jobs!NewRow.launch = 1 /\ Jobs!NoRow \in Jobs!Row /\ Jobs!NoRow.launch = 1
  /\ Jobs!Idle \in JobOperation /\ Jobs!Idle.at = "idle"
<1>1. Jobs!FirstCron \in Period
  BY JobBounds DEF Jobs!JobsAssumption, Jobs!FirstCron
<1>2. Jobs!NextRun(Jobs!FirstCron, 0) \in Nat /\ 1 \in 1..MaxEdits + 1
  BY <1>1, NextIsLater, JobBounds DEF Jobs!JobsAssumption
<1>3. Jobs!NewRow \in Jobs!Row /\ Jobs!NewRow.launch = 1
  BY <1>1, <1>2 DEF Jobs!NewRow, Jobs!Row
<1>4. Jobs!NoRow \in Jobs!Row /\ Jobs!NoRow.launch = 1
  BY <1>3 DEF Jobs!NoRow, Jobs!Row
<1>5. [j \in Scheduled |-> Jobs!NoRow] \in [Scheduled -> Jobs!Row]
  BY <1>4
<1>6. Jobs!Idle \in JobOperation /\ Jobs!Idle.at = "idle"
  BY <1>5 DEF Jobs!Idle, JobOperation
<1>7. QED
  BY <1>1, <1>3, <1>4, <1>6

\* No pod was created at first.
LEMMA InitJobs == Jobs!Init => JobsInv
<1> SUFFICES ASSUME Jobs!Init PROVE JobsInv
  OBVIOUS
<1>1. now \in 0..MaxTime /\ restarts \in 0..MaxRestarts /\ edits \in 0..MaxEdits /\ edits = 0
  BY JobBounds DEF Jobs!Init, Jobs!JobsAssumption
<1>2. jobPods \in Seq(Admitted) /\ OccurrenceOnce
  BY DEF Jobs!Init, OccurrenceOnce, Jobs!OccurrenceOnce
<1>3. Rows
  BY <1>1, RowTypes DEF Jobs!Init, Rows
<1>4. Underway
  BY RowTypes DEF Jobs!Init, Underway
<1>5. QED
  BY <1>1, <1>2, <1>3, <1>4 DEF JobsInv

\* A request is over, and a pass goes on.
LEMMA OverKeeps ==
  ASSUME JobsInv, NEW o \in Op, NEW j \in Scheduled, Jobs!Over(o, j)
  PROVE  Underway'
<1>1. op[o] \in JobOperation
  BY DEF JobsInv, Underway
<1>2. Jobs!Remaining(o, j) \in JobOperation /\ Jobs!Remaining(o, j).at = "next"
      /\ Jobs!Remaining(o, j).kind = op[o].kind
  <2> DEFINE left == [op[o].read EXCEPT ![j] = Jobs!NoRow]
  <2>1. left \in [Scheduled -> Jobs!Row]
    BY <1>1, RowTypes DEF JobOperation
  <2>2. Jobs!Remaining(o, j) = [Jobs!Idle EXCEPT !.kind = op[o].kind, !.at = "next", !.read = left]
    BY DEF Jobs!Remaining
  <2>3. op[o].kind \in Kinds \cup {"none"}
    BY <1>1 DEF JobOperation
  <2> HIDE DEF left
  <2>4. QED
    BY <2>1, <2>2, <2>3, RowTypes DEF JobOperation
<1>3. \E n \in JobOperation :
        /\ op' = [op EXCEPT ![o] = n]
        /\ n.at = "next" => n.kind = "scheduled"
        /\ n.at \in {"next", "idle"}
  BY <1>2, RowTypes DEF Jobs!Over
<1>4. PICK n \in JobOperation :
        /\ op' = [op EXCEPT ![o] = n]
        /\ n.at = "next" => n.kind = "scheduled"
        /\ n.at \in {"next", "idle"}
  BY <1>3
<1>5. QED
  BY <1>4 DEF JobsInv, Underway

\* The update after a launch changes neither the selection nor the types of the row.
LEMMA RecordedKeeps ==
  ASSUME JobsInv, NEW j \in Scheduled, NEW kind \in Kinds, NEW read \in Jobs!Row, Jobs!Recorded(j,
    kind, read), UNCHANGED edits
  PROVE  Rows'
<1> DEFINE next == Jobs!NextRun(read.cron, now)
           new == [row[j] EXCEPT !.next = next, !.catchup = IF kind = "catchup" THEN FALSE ELSE @]
<1>1. row[j] \in Jobs!Row /\ now \in Nat
  BY JobBounds DEF JobsInv, Rows, Jobs!JobsAssumption
<1>2. next \in Nat
  BY <1>1, NextIsLater DEF Jobs!Row
<1>3. row' = [row EXCEPT ![j] = new]
  BY DEF Jobs!Recorded
<1> HIDE DEF next
<1>4. new \in Jobs!Row /\ new.launch = row[j].launch
  BY <1>1, <1>2 DEF Jobs!Row
<1> HIDE DEF new
<1>5. QED
  BY <1>3, <1>4 DEF JobsInv, Rows

\* A pod is created once for an occurrence of a composable job: admission looked for it.
LEMMA CreateKeeps ==
  ASSUME JobsInv, NEW j \in Scheduled, NEW kind \in Kinds, NEW occ \in Nat, Jobs!NewPod(j, kind, occ),
         j \in Composable => ~Jobs!Found(j, kind, occ)
  PROVE  jobPods' \in Seq(Admitted) /\ OccurrenceOnce'
<1> DEFINE new == [job |-> j, kind |-> kind, occ |-> occ, active |-> TRUE]
           n == Len(jobPods)
<1>1. new \in Admitted /\ new.job = j /\ new.kind = kind /\ new.occ = occ
  BY DEF Admitted
<1>2. jobPods' = Append(jobPods, new)
  BY DEF Jobs!NewPod
<1>3. ~(j \in Composable /\ kind # "manual" /\ \E i \in DOMAIN jobPods : jobPods[i].job = j
      /\ jobPods[i].kind = kind /\ jobPods[i].occ = occ)
  BY DEF Jobs!Found
<1> HIDE DEF new
<1>4. /\ jobPods' \in Seq(Admitted) /\ n \in Nat /\ DOMAIN jobPods = 1..n /\ DOMAIN jobPods' = 1..n + 1
      /\ jobPods'[n + 1] = new /\ \A i \in 1..n : jobPods'[i] = jobPods[i]
  BY <1>1, <1>2 DEF JobsInv
<1>5. \A i \in DOMAIN jobPods' : i \in DOMAIN jobPods \/ i = n + 1
  BY <1>4
<1>6. OccurrenceOnce'
  BY <1>1, <1>3, <1>4, <1>5 DEF JobsInv, OccurrenceOnce, Jobs!OccurrenceOnce
<1>7. QED
  BY <1>4, <1>6

\* A launch begins, and that of a job bound to a profile ends.
LEMMA FireKeeps ==
  ASSUME JobsInv, NEW o \in Op, NEW j \in Scheduled, NEW kind \in Kinds, NEW read \in Jobs!Row,
         Jobs!FireJob(o, j, kind, read), UNCHANGED <<now, restarts, edits>>
  PROVE  JobsInv'
<1>1. CASE j \in Composable
  <2> DEFINE reads == [op[o].read EXCEPT ![j] = read]
             at == IF Jobs!Found(j, kind, read.next) THEN "launched" ELSE "resolving"
             new == [op[o] EXCEPT !.kind = kind, !.job = j, !.occ = read.next, !.read = reads, !.at = at]
  <2>1. op[o] \in JobOperation /\ read.next \in Nat
    BY DEF JobsInv, Underway, Jobs!Row
  <2>2. op' = [op EXCEPT ![o] = new] /\ UNCHANGED <<row, jobPods>>
    BY <1>1 DEF Jobs!FireJob
  <2>3. reads \in [Scheduled -> Jobs!Row] /\ at \in {"launched", "resolving"}
    BY <2>1 DEF JobOperation
  <2> HIDE DEF reads, at
  <2>4. new \in JobOperation /\ new.at = at /\ new.job = j /\ new.kind = kind
    BY <2>1, <2>3 DEF JobOperation
  <2> HIDE DEF new
  <2>5. Underway'
    BY <2>2, <2>3, <2>4 DEF JobsInv, Underway
  <2>6. QED
    BY <2>2, <2>5 DEF JobsInv, Rows, OccurrenceOnce, Jobs!OccurrenceOnce
<1>2. CASE j \notin Composable /\ row[j].exists
  <2>1. Jobs!NewPod(j, kind, read.next) /\ Jobs!Recorded(j, kind, read) /\ Jobs!Over(o, j) /\ read.next \in Nat
    BY <1>2 DEF Jobs!FireJob, Jobs!Row
  <2>2. jobPods' \in Seq(Admitted) /\ OccurrenceOnce' /\ Rows' /\ Underway'
    BY <1>2, <2>1, CreateKeeps, RecordedKeeps, OverKeeps
  <2>3. QED
    BY <2>2 DEF JobsInv
<1>3. CASE j \notin Composable /\ ~row[j].exists
  <2>1. Jobs!Over(o, j) /\ UNCHANGED <<row, jobPods>>
    BY <1>3 DEF Jobs!FireJob, Jobs!Fails
  <2>2. QED
    BY <2>1, OverKeeps DEF JobsInv, Rows, OccurrenceOnce, Jobs!OccurrenceOnce
<1>4. QED
  BY <1>1, <1>2, <1>3

\* The resolution ended: admission, or a rejection.
LEMMA AdmitKeeps ==
  ASSUME JobsInv, NEW o \in Op, Jobs!Admit(o) \/ Jobs!Unresolved(o)
  PROVE  JobsInv'
<1>1. /\ op[o] \in JobOperation /\ op[o].job \in Scheduled /\ op[o].kind \in Kinds /\ op[o].occ \in Nat
      /\ UNCHANGED <<now, row, restarts, edits>>
  BY DEF JobsInv, Underway, JobOperation, Jobs!Admit, Jobs!Unresolved
<1>2. \/ Jobs!Over(o, op[o].job)
      \/ op' = [op EXCEPT ![o].at = "launched"]
  BY DEF Jobs!Admit, Jobs!Unresolved, Jobs!Fails
<1>3. Underway'
  <2>1. CASE Jobs!Over(o, op[o].job)
    BY <1>1, <2>1, OverKeeps
  <2>2. CASE op' = [op EXCEPT ![o].at = "launched"]
    <3> DEFINE new == [op[o] EXCEPT !.at = "launched"]
    <3>1. new \in JobOperation /\ new.at = "launched" /\ new.job = op[o].job /\ new.kind = op[o].kind
      BY <1>1 DEF JobOperation
    <3>2. op' = [op EXCEPT ![o] = new]
      BY <2>2
    <3> HIDE DEF new
    <3>3. QED
      BY <1>1, <3>1, <3>2 DEF JobsInv, Underway
  <2>3. QED
    BY <1>2, <2>1, <2>2
<1>4. jobPods' \in Seq(Admitted) /\ OccurrenceOnce'
  <2>1. CASE UNCHANGED jobPods
    BY <2>1 DEF JobsInv, OccurrenceOnce, Jobs!OccurrenceOnce
  <2>2. CASE ~Jobs!Found(op[o].job, op[o].kind, op[o].occ) /\ Jobs!NewPod(op[o].job, op[o].kind, op[o].occ)
    BY <1>1, <2>2, CreateKeeps
  <2>3. QED
    BY <2>1, <2>2 DEF Jobs!Admit, Jobs!Unresolved
<1>5. QED
  BY <1>1, <1>3, <1>4 DEF JobsInv, Rows

\* The launch returned.
LEMMA LaunchedKeeps == ASSUME JobsInv, NEW o \in Op, Jobs!Launched(o) PROVE JobsInv'
<1>1. /\ op[o].job \in Scheduled /\ op[o].kind \in Kinds /\ op[o].read \in [Scheduled -> Jobs!Row]
      /\ UNCHANGED <<now, jobPods, restarts, edits>> /\ Jobs!Over(o, op[o].job)
  BY DEF JobsInv, Underway, JobOperation, Jobs!Launched
<1>2. Underway'
  BY <1>1, OverKeeps
<1>3. op[o].read[op[o].job] \in Jobs!Row
  BY <1>1
<1>4. Rows'
  <2>1. CASE UNCHANGED row
    BY <1>1, <2>1 DEF JobsInv, Rows
  <2>2. CASE Jobs!Recorded(op[o].job, op[o].kind, op[o].read[op[o].job])
    BY <1>1, <1>3, <2>2, RecordedKeeps
  <2>3. QED
    BY <2>1, <2>2 DEF Jobs!Launched
<1>5. QED
  BY <1>1, <1>2, <1>4 DEF JobsInv, OccurrenceOnce, Jobs!OccurrenceOnce

\* A pass begins, and goes on to a job it read.
LEMMA PassKeeps == ASSUME JobsInv, NEW o \in Op, Jobs!Tick(o) \/ Jobs!TickNext(o) PROVE JobsInv'
<1>1. CASE Jobs!Tick(o)
  <2> DEFINE reads == [j \in Scheduled |-> IF Jobs!Due(j) THEN row[j] ELSE Jobs!NoRow]
             new == [Jobs!Idle EXCEPT !.kind = "scheduled", !.at = "next", !.read = reads]
  <2>1. reads \in [Scheduled -> Jobs!Row]
    BY RowTypes DEF JobsInv, Rows
  <2>2. op' = [op EXCEPT ![o] = new] /\ UNCHANGED <<now, row, jobPods, restarts, edits>>
    BY <1>1 DEF Jobs!Tick
  <2> HIDE DEF reads
  <2>3. new \in JobOperation /\ new.at = "next" /\ new.kind = "scheduled"
    BY <2>1, RowTypes DEF JobOperation, Kinds
  <2> HIDE DEF new
  <2>4. Underway'
    BY <2>2, <2>3 DEF JobsInv, Underway
  <2>5. QED
    BY <2>2, <2>4 DEF JobsInv, Rows, OccurrenceOnce, Jobs!OccurrenceOnce
<1>2. CASE Jobs!TickNext(o)
  <2>1. UNCHANGED <<now, restarts, edits>>
    BY <1>2 DEF Jobs!TickNext
  <2>2. CASE op' = [op EXCEPT ![o] = Jobs!Idle] /\ UNCHANGED <<row, jobPods>>
    <3>1. Underway'
      BY <2>2, RowTypes DEF JobsInv, Underway
    <3>2. QED
      BY <2>1, <2>2, <3>1 DEF JobsInv, Rows, OccurrenceOnce, Jobs!OccurrenceOnce
  <2>3. CASE \E j \in Scheduled : Jobs!Over(o, j) /\ UNCHANGED <<row, jobPods>>
    <3>1. Underway'
      BY <2>3, OverKeeps
    <3>2. QED
      BY <2>1, <2>3, <3>1 DEF JobsInv, Rows, OccurrenceOnce, Jobs!OccurrenceOnce
  <2>4. CASE \E j \in Scheduled : Jobs!FireJob(o, j, "scheduled", op[o].read[j])
    <3>1. PICK j \in Scheduled : Jobs!FireJob(o, j, "scheduled", op[o].read[j])
      BY <2>4
    <3>2. op[o].read[j] \in Jobs!Row /\ "scheduled" \in Kinds
      BY DEF JobsInv, Underway, JobOperation, Kinds
    <3>3. QED
      BY <2>1, <3>1, <3>2, FireKeeps
  <2>5. QED
    BY <1>2, <2>2, <2>3, <2>4 DEF Jobs!TickNext, Jobs!Listed
<1>3. QED
  BY <1>1, <1>2

\* An operator triggers a job or catches it up.
LEMMA RequestKeeps ==
  ASSUME JobsInv, NEW o \in Op, NEW j \in Scheduled, Jobs!Trigger(o, j) \/ Jobs!RunCatchup(o, j)
  PROVE  JobsInv'
<1>1. row[j] \in Jobs!Row
  BY DEF JobsInv, Rows
<1>2. QED
  BY <1>1, FireKeeps DEF Jobs!Trigger, Jobs!RunCatchup, Kinds

\* Operators edit a job, and its pods end.
LEMMA EditKeeps ==
  ASSUME JobsInv, NEW j \in Scheduled, Jobs!SkipCatchup(j) \/ Jobs!Update(j) \/ Jobs!Delete(j)
  PROVE  JobsInv'
<1>1. UNCHANGED <<now, jobPods, op, restarts>> /\ edits' \in {edits, edits + 1} /\ edits' \in 0..MaxEdits
  BY JobBounds DEF JobsInv, Jobs!SkipCatchup, Jobs!Update, Jobs!Delete, Jobs!JobsAssumption
<1>2. row[j] \in Jobs!Row /\ row[j].launch \in Nat /\ now \in Nat /\ edits \in Nat /\ MaxEdits \in Nat
      /\ row[j].launch <= edits + 1
  BY JobBounds DEF JobsInv, Rows, Jobs!Row, Jobs!JobsAssumption
<1> DEFINE Edited(n) == /\ row' = [row EXCEPT ![j] = n] /\ n \in Jobs!Row /\ n.launch <= edits' + 1
<1>3. \E n : Edited(n)
  <2>1. CASE Jobs!SkipCatchup(j)
    <3> DEFINE next == Jobs!NextRun(row[j].cron, now)
               n == [row[j] EXCEPT !.catchup = FALSE, !.next = next]
    <3>1. next \in Nat
      BY <1>2, NextIsLater DEF Jobs!Row
    <3>2. row' = [row EXCEPT ![j] = n] /\ UNCHANGED edits
      BY <2>1 DEF Jobs!SkipCatchup
    <3> HIDE DEF next
    <3>3. n \in Jobs!Row /\ n.launch = row[j].launch
      BY <1>2, <3>1 DEF Jobs!Row
    <3> HIDE DEF n
    <3>4. Edited(n)
      BY <1>2, <3>2, <3>3
    <3>5. QED
      BY <3>4
  <2>2. CASE row' = [row EXCEPT ![j].enabled = ~@] /\ Jobs!Update(j)
    <3> DEFINE n == [row[j] EXCEPT !.enabled = ~@]
    <3>1. n \in Jobs!Row /\ n.launch = row[j].launch
      BY <1>2 DEF Jobs!Row
    <3>2. row' = [row EXCEPT ![j] = n] /\ edits' = edits + 1
      BY <2>2 DEF Jobs!Update
    <3> HIDE DEF n
    <3>3. Edited(n)
      BY <1>2, <3>1, <3>2
    <3>4. QED
      BY <3>3
  <2>3. CASE row' = [row EXCEPT ![j].launch = @ + 1] /\ Jobs!Update(j)
    <3> DEFINE n == [row[j] EXCEPT !.launch = @ + 1]
    <3>1. edits' = edits + 1 /\ edits < MaxEdits
      BY <2>3 DEF Jobs!Update
    <3>2. row[j].launch + 1 \in 1..MaxEdits + 1
      BY <1>2, <3>1
    <3>3. n \in Jobs!Row /\ n.launch = row[j].launch + 1
      BY <1>2, <3>2 DEF Jobs!Row
    <3>4. row' = [row EXCEPT ![j] = n]
      BY <2>3
    <3> HIDE DEF n
    <3>5. Edited(n)
      BY <1>2, <3>1, <3>3, <3>4
    <3>6. QED
      BY <3>5
  <2>4. CASE (\E cron \in Period \ {row[j].cron} :
               row' = [row EXCEPT ![j].cron = cron, ![j].next = Jobs!NextRun(cron, now)]) /\ Jobs!Update(j)
    <3>1. PICK cron \in Period : row' = [row EXCEPT ![j].cron = cron, ![j].next = Jobs!NextRun(cron, now)]
      BY <2>4
    <3> DEFINE next == Jobs!NextRun(cron, now)
               n == [row[j] EXCEPT !.cron = cron, !.next = next]
    <3>2. next \in Nat
      BY <1>2, NextIsLater
    <3>3. row' = [row EXCEPT ![j] = n] /\ edits' = edits + 1
      BY <2>4, <3>1 DEF Jobs!Update
    <3> HIDE DEF next
    <3>4. n \in Jobs!Row /\ n.launch = row[j].launch
      BY <1>2, <3>2 DEF Jobs!Row
    <3> HIDE DEF n
    <3>5. Edited(n)
      BY <1>2, <3>3, <3>4
    <3>6. QED
      BY <3>5
  <2>5. CASE Jobs!Delete(j)
    <3>1. row' = [row EXCEPT ![j] = Jobs!NoRow] /\ edits' = edits + 1
      BY <2>5 DEF Jobs!Delete
    <3>2. Edited(Jobs!NoRow)
      BY <1>2, <3>1, RowTypes
    <3>3. QED
      BY <3>2
  <2>6. QED
    BY <2>1, <2>2, <2>3, <2>4, <2>5 DEF Jobs!Update
<1>4. PICK n : Edited(n)
  BY <1>3
<1>5. Rows'
  <2>1. \A i \in Scheduled : row[i].launch \in Nat /\ row[i].launch <= edits' + 1
    <3>1. \A i \in Scheduled : row[i] \in Jobs!Row /\ row[i].launch <= edits + 1
      BY DEF JobsInv, Rows
    <3>2. QED
      BY <1>1, <1>2, <3>1 DEF Jobs!Row
  <2>2. QED
    BY <1>4, <2>1 DEF JobsInv, Rows
<1>6. QED
  BY <1>1, <1>5 DEF JobsInv, Underway, OccurrenceOnce, Jobs!OccurrenceOnce

\* A pod ends.
LEMMA EndKeeps == ASSUME JobsInv, NEW i \in DOMAIN jobPods, Jobs!PodEnds(i) PROVE JobsInv'
<1> DEFINE new == [jobPods[i] EXCEPT !.active = FALSE]
<1>1. jobPods \in Seq(Admitted) /\ jobPods[i] \in Admitted
  BY DEF JobsInv
<1>2. new \in Admitted /\ new.job = jobPods[i].job /\ new.kind = jobPods[i].kind /\ new.occ = jobPods[i].occ
  BY <1>1 DEF Admitted
<1>3. jobPods' = [jobPods EXCEPT ![i] = new] /\ UNCHANGED <<now, row, op, restarts, edits>>
  BY DEF Jobs!PodEnds
<1> HIDE DEF new
<1>4. /\ jobPods' \in Seq(Admitted) /\ DOMAIN jobPods' = DOMAIN jobPods
      /\ \A k \in DOMAIN jobPods : /\ jobPods'[k].job = jobPods[k].job /\ jobPods'[k].kind = jobPods[k].kind
                               /\ jobPods'[k].occ = jobPods[k].occ
  BY <1>1, <1>2, <1>3
<1>5. OccurrenceOnce'
  BY <1>4 DEF JobsInv, OccurrenceOnce, Jobs!OccurrenceOnce
<1>6. QED
  BY <1>3, <1>4, <1>5 DEF JobsInv, Rows, Underway

\* The daemon ends and starts: nothing is underway, and missed jobs wait to be caught up.
LEMMA RestartKeeps == ASSUME JobsInv, Jobs!Restart PROVE JobsInv'
<1>1. UNCHANGED <<now, jobPods, edits>> /\ restarts' \in 0..MaxRestarts
  BY JobBounds DEF JobsInv, Jobs!Restart, Jobs!JobsAssumption
<1>2. Underway'
  BY RowTypes DEF Jobs!Restart, Underway
<1>3. Rows'
  <2> DEFINE Missed(j) == row[j].catchup \/ (row[j].exists /\ row[j].enabled /\ row[j].next < now)
             new(j) == [row[j] EXCEPT !.catchup = Missed(j)]
  <2>1. ASSUME NEW j \in Scheduled PROVE Missed(j) \in BOOLEAN
    <3>1. row[j].catchup \in BOOLEAN /\ row[j].exists \in BOOLEAN /\ row[j].enabled \in BOOLEAN
      BY DEF JobsInv, Rows, Jobs!Row
    <3>2. QED
      BY <3>1
  <2>2. row' = [j \in Scheduled |-> new(j)]
    BY DEF Jobs!Restart
  <2> HIDE DEF Missed
  <2>3. \A j \in Scheduled : new(j) \in Jobs!Row /\ new(j).launch = row[j].launch
    BY <2>1 DEF JobsInv, Rows, Jobs!Row
  <2> HIDE DEF new
  <2>4. QED
    BY <1>1, <2>2, <2>3 DEF JobsInv, Rows
<1>4. QED
  BY <1>1, <1>2, <1>3 DEF JobsInv, OccurrenceOnce, Jobs!OccurrenceOnce

\* Every step of passes, requests, pods and the daemon keeps the invariant.
LEMMA StepJobs == ASSUME JobsInv, [Jobs!Next]_Jobs!jobVars PROVE JobsInv'
<1>1. CASE UNCHANGED Jobs!jobVars
  BY <1>1 DEF Jobs!jobVars, JobsInv, Rows, Underway, OccurrenceOnce, Jobs!OccurrenceOnce
<1>2. ASSUME Jobs!Clock PROVE JobsInv'
  <2>1. now' \in 0..MaxTime /\ UNCHANGED <<row, jobPods, op, restarts, edits>>
    BY <1>2, JobBounds DEF Jobs!Clock, JobsInv, Jobs!JobsAssumption
  <2>2. QED
    BY <2>1 DEF JobsInv, Rows, Underway, OccurrenceOnce, Jobs!OccurrenceOnce
<1>3. QED
  BY <1>1, <1>2, AdmitKeeps, LaunchedKeeps, PassKeeps, RequestKeeps, EditKeeps, EndKeeps,
     RestartKeeps DEF Jobs!Next, Jobs!Event

\* Rows, pods and what is underway have their types, and only passes go on to another job, for
\* any jobs, expressions, passes and bounds.
THEOREM JobsTypeOK == Jobs!Spec => []Jobs!TypeOK
<1>1. JobsInv => Jobs!TypeOK
  <2>1. ASSUME jobPods \in Seq(Admitted), NEW i \in DOMAIN jobPods
        PROVE  jobPods[i].job \in Scheduled /\ jobPods[i].kind \in Kinds
    <3>1. jobPods[i] \in Admitted
      BY <2>1
    <3>2. QED
      BY <3>1 DEF Admitted
  <2>2. ASSUME Underway, NEW o \in Op
        PROVE  op[o].at \in {"idle", "next", "resolving", "launched"} /\ op[o].read \in [Scheduled -> Jobs!Row]
    BY <2>2 DEF Underway, JobOperation
  <2>3. QED
    BY <2>1, <2>2 DEF JobsInv, Rows, Underway, Jobs!TypeOK, Kinds
<1>2. QED
  BY <1>1, InitJobs, StepJobs, PTL DEF Jobs!Spec

\* However passes overlap and catch-ups repeat, across edits, deletions and restarts, an
\* occurrence of a composable job is admitted once per kind (scheduled-job-manager.ts,
\* launch-admission.ts).
THEOREM JobsOccurrenceOnce == Jobs!Spec => []OccurrenceOnce
<1>1. JobsInv => OccurrenceOnce
  BY DEF JobsInv
<1>2. QED
  BY <1>1, InitJobs, StepJobs, PTL DEF Jobs!Spec
-----------------------------------------------------------------------------
(* The parts together.                                                         *)

\* A behaviour of the instance that the run checks is one of each part, so what is proved
\* of the parts holds of it.
THEOREM UnattendedAreParts == PartsSpec => Spec /\ Scans!Spec /\ Jobs!Spec
<1>1. PartsInit => Init /\ Scans!Init /\ Jobs!Init
  BY DEF PartsInit
<1>2. [PartsNext]_<<part, sitterVars, scanVars, jobVars>> =>
        [Next]_sitterVars /\ [Scans!Next]_Scans!scanVars /\ [Jobs!Next]_Jobs!jobVars
  BY DEF PartsNext, scanVars, jobVars, Scans!scanVars, Scans!reportVars, Scans!triageVars, Jobs!jobVars
<1>3. QED
  BY <1>1, <1>2, PTL DEF PartsSpec, Spec, Scans!Spec, Jobs!Spec

\* So the instance that the run checks has every safety property it is checked for,
\* whatever the values of its constants.
THEOREM UnattendedSafe ==
  PartsSpec => []BudgetsHold /\ []FindingsNeverLost /\ []OccurrenceOnce /\ ActsOnce /\ ActsUnderAuthority
BY UnattendedAreParts, SitterBudgetsHold, ScansFindingsNeverLost, JobsOccurrenceOnce, SitterActsOnce,
   SitterActsUnderAuthority, PTL
=============================================================================
