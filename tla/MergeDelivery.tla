---------------------------- MODULE MergeDelivery ----------------------------
(* How a validated pod gets its pull request merged: the journal of merge     *)
(* plans and requests (pods/merge-journal.ts), the approval that publishes    *)
(* and asks once (pods/approval-workflow.ts and its delivery stages), the     *)
(* poller that asks again and notices (pods/delivery-polling.ts), fix pods    *)
(* that replace the source meanwhile (worktrees/fix-source-publication.ts),   *)
(* the operator's recovery of a request without an answer, and a host whose   *)
(* answers get lost and whose users act on the same pull request.             *)
(* One pod, one pull request; its lifecycle generations share the journal.    *)
EXTENDS Naturals, Sequences, FiniteSets

CONSTANTS MaxGen,      \* bound: lifecycle generation, from 1
          MaxSource,   \* bound: commits ever offered for the branch
          MaxSends,    \* bound: merge requests
          MaxLost,     \* bound: answers that never arrive
          MaxCrashes,  \* bound: daemon crashes
          CanSchedule  \* the host may answer by scheduling the merge (Azure DevOps)

MergeAssumption ==
  /\ MaxGen \in Nat \ {0} /\ MaxSource \in Nat \ {0}
  /\ MaxSends \in Nat /\ MaxLost \in Nat /\ MaxCrashes \in Nat /\ CanSchedule \in BOOLEAN

Source == 1..MaxSource
NoHead == [src |-> 0, more |-> 0]

VARIABLES
  \* durable: the pod
  status, gen,
  own,        \* commits of the pod's worktree, each built on the one before
  fixes,      \* commits of fix pods, rebased: they contain no other
  \* durable: the journal of this pull request
  published,  \* source publication receipts, as [src, gen]
  handoffs,   \* fix_source_handoffs, as [src, gen, prior]
  plans,      \* merge_intents, as [src, gen]
  attempts,   \* merge_attempts with their observations, as [plan, seen, recovered]
  proved,     \* plans with a disposition or ancestry observation
  closed,     \* whether the last status observation is 'closed'
  \* the daemon's memory
  ap,         \* the approval underway
  pl,         \* the poll underway
  fx,         \* the fix delivery underway
  \* the host
  pr, branch, \* the pull request's state; the branch's head: source and users' commits on it
  mergedHead, \* what was merged
  flying,     \* requests that may still take effect
  auto,       \* requests whose merge is scheduled
  lost, crashes

podVars == <<status, gen, own, fixes>>
journalVars == <<published, handoffs, plans, attempts, proved, closed>>
hostVars == <<pr, branch, mergedHead, flying, auto>>
boundVars == <<lost, crashes>>
mergeVars == <<podVars, journalVars, ap, pl, fx, hostVars, boundVars>>

\* An operation: its step, its generation, the source it delivers and the plan it knows,
\* the request it waits for, the handoffs it knows, and what it read of the pull request.
NoOp == [at |-> "idle", gen |-> 0, src |-> 0, plan |-> 0, try |-> 0, known |-> 0,
         pr |-> "open", head |-> NoHead]

MaxOf(S) == CHOOSE x \in S : \A y \in S : y <= x
Mine == MaxOf(own)

Init ==
  /\ status = "validated" /\ gen = 1 /\ own = {1} /\ fixes = {}
  /\ published = {} /\ handoffs = <<>> /\ plans = <<>> /\ attempts = <<>>
  /\ proved = {} /\ closed = FALSE
  /\ ap = NoOp /\ pl = NoOp /\ fx = NoOp
  /\ pr = "open" /\ branch = [src |-> 1, more |-> 0] /\ mergedHead = NoHead
  /\ flying = {} /\ auto = {}
  /\ lost = 0 /\ crashes = 0

PrHead == IF pr = "merged" THEN mergedHead ELSE branch
At(s) == [src |-> s, more |-> 0]
Contains(head, s) == head.src = s \/ ({head.src, s} \subseteq own /\ s <= head.src)
----------------------------------------------------------------------------
(* The journal.                                                              *)

Attempts(i) == {k \in DOMAIN attempts : attempts[k].plan = i}

\* find: the last plan of the generation, 0 if there is none.
Latest(g) == LET S == {i \in DOMAIN plans : plans[i].gen = g} IN IF S = {} THEN 0 ELSE MaxOf(S)

\* entry: what the journal knows of a plan.
Entry(i) ==
  IF i \in proved \/ \E k \in Attempts(i) : attempts[k].seen = "merged" THEN "merged"
  ELSE IF Attempts(i) = {} THEN "planned"
  ELSE LET a == attempts[MaxOf(Attempts(i))] IN
       IF a.seen # "none" THEN a.seen ELSE IF a.recovered THEN "planned" ELSE "admitted"

Quiet(i) == Entry(i) \in {"planned", "refused"}

Confirmed == \E i \in DOMAIN plans : Entry(i) = "merged"

\* Mutant: a request without an answer does not count.
AllowedUnlessScheduled ==
  \A k \in DOMAIN attempts : attempts[k].seen = "scheduled" =>
    \E j \in Attempts(attempts[k].plan) : attempts[j].seen = "merged"

\* assertPublicationAllowed: no request without an answer, none scheduled.
PublicationAllowed ==
  /\ \A k \in DOMAIN attempts : attempts[k].seen # "none" \/ attempts[k].recovered
  /\ \A k \in DOMAIN attempts : attempts[k].seen = "scheduled" =>
        \E j \in Attempts(attempts[k].plan) : attempts[j].seen = "merged"

\* prepare: what plan and claim both ask.
MayPlan(s, g) ==
  /\ status \in {"merging", "merge_pending"} /\ gen = g
  /\ [src |-> s, gen |-> g] \in published
  /\ PublicationAllowed /\ ~Confirmed /\ ~closed

Plan(s, g) == [src |-> s, gen |-> g]
Plans(s, g) ==
  IF \E i \in DOMAIN plans : plans[i] = Plan(s, g) THEN plans ELSE Append(plans, Plan(s, g))
PlanOf(s, g) == CHOOSE i \in DOMAIN Plans(s, g) : Plans(s, g)[i] = Plan(s, g)

Seen(k, answer) == attempts' = [attempts EXCEPT ![k].seen = answer]

\* Mutant: any merged pull request confirms the plan.
ConfirmsAny(i, head) == TRUE

\* A merged pull request confirms a plan when its head is the planned source, or, by the
\* provider's ancestry proof, contains it.
Confirms(i, head) == Contains(head, plans[i].src)

\* reconcileMerge of a merged pull request: exact source on the plan's last request if it
\* has one, else on the plan; a descendant of the source on the plan.
RecordMerged(i, head) ==
  IF Entry(i) = "merged" THEN UNCHANGED <<attempts, proved>>
  ELSE IF head = At(plans[i].src) /\ Attempts(i) # {}
  THEN Seen(MaxOf(Attempts(i)), "merged") /\ UNCHANGED proved
  ELSE proved' = proved \cup {i} /\ UNCHANGED attempts

\* observeStatus: refused unless the pull request's head is the planned source.
ObserveStatus(i, head, isClosed) ==
  closed' = IF head = At(plans[i].src) THEN isClosed ELSE closed

LastHandoff(g) ==
  LET S == {i \in DOMAIN handoffs : handoffs[i].gen = g} IN IF S = {} THEN 0 ELSE MaxOf(S)

\* A handoff whose source is not yet the planned one.
Unreconciled(g) ==
  /\ LastHandoff(g) # 0
  /\ Latest(g) # 0 => handoffs[LastHandoff(g)].src # plans[Latest(g)].src
----------------------------------------------------------------------------
(* Approval: one at a time per pod; every failure gives the pod back.         *)

Approve ==
  /\ ap.at = "idle" /\ status = "validated"
  /\ ap' = [NoOp EXCEPT !.at = "prepare", !.gen = gen, !.plan = Latest(gen), !.pr = pr, !.head = PrHead]
  /\ UNCHANGED <<podVars, journalVars, pl, fx, hostVars, boundVars>>

Current(o, s) == status = s /\ gen = o.gen

Refuse == ap' = NoOp /\ UNCHANGED <<status, published, plans, attempts, proved>>

Proceed(step) ==
  /\ status' = "merging"
  /\ ap' = [ap EXCEPT !.at = step, !.src = Mine]
  /\ UNCHANGED <<published, plans>>

\* What an earlier plan of this generation says is reconciled first.
Prepare ==
  /\ ap.at = "prepare"
  /\ IF ~Current(ap, "validated") THEN Refuse /\ UNCHANGED closed
     ELSE IF ap.plan = 0 \/ (Quiet(ap.plan) /\ ap.pr = "open" /\ ~closed)
     THEN Proceed("publish") /\ UNCHANGED <<attempts, proved, closed>>
     ELSE IF Quiet(ap.plan) /\ ap.pr = "open" /\ ap.head = At(plans[ap.plan].src)
     THEN /\ ObserveStatus(ap.plan, ap.head, FALSE)
          /\ Proceed("publish") /\ UNCHANGED <<attempts, proved>>
     ELSE IF Entry(ap.plan) # "merged" /\ ap.pr = "closed"
     THEN ObserveStatus(ap.plan, ap.head, TRUE) /\ Refuse
     ELSE IF Entry(ap.plan) = "merged" \/ (ap.pr = "merged" /\ Confirms(ap.plan, ap.head))
     THEN /\ UNCHANGED closed
          /\ IF Mine = plans[ap.plan].src
             THEN RecordMerged(ap.plan, ap.head) /\ Proceed("finish")
             ELSE RecordMerged(ap.plan, ap.head) /\ ap' = NoOp /\ UNCHANGED <<status, published, plans>>
     ELSE Refuse /\ UNCHANGED closed
  /\ UNCHANGED <<gen, own, fixes, handoffs, pl, fx, hostVars, boundVars>>

\* failDelivery: back to validated.
Fail == status' = "validated" /\ ap' = NoOp

StartPush ==
  /\ ap.at = "publish"
  /\ IF pr = "open" /\ PublicationAllowed
     THEN ap' = [ap EXCEPT !.at = "push"] /\ UNCHANGED status
     ELSE Fail
  /\ UNCHANGED <<gen, own, fixes, journalVars, pl, fx, hostVars, boundVars>>

FastForward(s) == branch.more = 0 /\ branch.src \in own /\ branch.src <= s

\* The push, without force, and its receipt; or the answer is lost.
Push ==
  /\ ap.at = "push"
  /\ \/ /\ FastForward(ap.src)
        /\ branch' = At(ap.src)
        /\ published' = published \cup {Plan(ap.src, gen)}
        /\ ap' = [ap EXCEPT !.at = "plan"]
        /\ UNCHANGED <<status, lost>>
     \/ /\ FastForward(ap.src) /\ lost < MaxLost
        /\ lost' = lost + 1
        /\ branch' \in {branch, At(ap.src)}
        /\ Fail /\ UNCHANGED published
     \/ ~FastForward(ap.src) /\ Fail /\ UNCHANGED <<branch, published, lost>>
  /\ UNCHANGED <<gen, own, fixes, handoffs, plans, attempts, proved, closed, pl, fx,
                 pr, mergedHead, flying, auto, crashes>>

\* The plan; then the pod waits for checks or reviews, or the merge is asked for.
PlanMerge ==
  /\ ap.at = "plan"
  /\ IF pr = "open" /\ MayPlan(ap.src, gen)
     THEN /\ plans' = Plans(ap.src, gen)
          /\ \/ status' = "merge_pending" /\ ap' = NoOp
             \/ ap' = [ap EXCEPT !.at = "merge"] /\ UNCHANGED status
     ELSE Fail /\ UNCHANGED plans
  /\ UNCHANGED <<gen, own, fixes, published, handoffs, attempts, proved, closed, pl, fx,
                 hostVars, boundVars>>

Try == Len(attempts) + 1

\* mergePublishedSource: the provider has checked the head, the journal admits, the request is
\* sent. Past the bound on requests the provider's check fails.
Send(s, g) ==
  /\ plans' = Plans(s, g)
  /\ attempts' = Append(attempts, [plan |-> PlanOf(s, g), seen |-> "none", recovered |-> FALSE])
  /\ flying' = flying \cup {Try}

ApproveSends ==
  /\ ap.at = "merge"
  /\ IF PrHead = At(ap.src) /\ MayPlan(ap.src, gen) /\ Try <= MaxSends
     THEN /\ Send(ap.src, gen)
          /\ ap' = [ap EXCEPT !.at = "waiting", !.try = Try, !.plan = PlanOf(ap.src, gen)]
          /\ UNCHANGED status
     ELSE Fail /\ UNCHANGED <<plans, attempts, flying>>
  /\ UNCHANGED <<gen, own, fixes, published, handoffs, proved, closed, pl, fx, pr, branch,
                 mergedHead, auto, boundVars>>

\* After an error, one look at the pull request decides; open proves nothing.
ApproveReconciles ==
  /\ ap.at = "reconcile"
  /\ IF pr = "merged" /\ Confirms(ap.plan, PrHead)
     THEN /\ RecordMerged(ap.plan, PrHead)
          /\ ap' = [ap EXCEPT !.at = "finish"] /\ UNCHANGED <<status, closed>>
     ELSE /\ IF pr = "closed" THEN ObserveStatus(ap.plan, PrHead, TRUE) ELSE UNCHANGED closed
          /\ Fail /\ UNCHANGED <<attempts, proved>>
  /\ UNCHANGED <<gen, own, fixes, published, handoffs, plans, pl, fx, hostVars, boundVars>>

ApproveFinishes ==
  /\ ap.at = "finish"
  /\ status' = "complete" /\ ap' = NoOp
  /\ UNCHANGED <<gen, own, fixes, journalVars, pl, fx, hostVars, boundVars>>

ApprovalStep == Prepare \/ StartPush \/ Push \/ PlanMerge \/ ApproveSends \/ ApproveReconciles \/ ApproveFinishes
----------------------------------------------------------------------------
(* The poller of a pod in merge_pending.                                     *)

Poll ==
  /\ pl.at = "idle" /\ status = "merge_pending"
  /\ IF Latest(gen) = 0
     THEN status' = "failed" /\ UNCHANGED pl
     ELSE /\ pl' = [NoOp EXCEPT !.at = "read", !.gen = gen, !.plan = Latest(gen),
                               !.known = LastHandoff(gen), !.pr = pr, !.head = PrHead]
          /\ UNCHANGED status
  /\ UNCHANGED <<gen, own, fixes, journalVars, ap, fx, hostVars, boundVars>>

\* assertCurrent of the poller: same lifecycle, and no fix handed over since the poll began.
PollCurrent == Current(pl, "merge_pending") /\ LastHandoff(gen) = pl.known

\* assertFixPublicationAllowed
FixAllowed(i) == Quiet(i) /\ MayPlan(plans[i].src, plans[i].gen)

EndPoll == pl' = NoOp

\* reconcileFixPublication: the branch shows the handed-over source, so it was pushed.
PollAdoptsFix ==
  /\ pl.at = "read" /\ PollCurrent /\ Unreconciled(gen)
  /\ LET h == handoffs[pl.known] IN
     /\ h.prior = pl.plan /\ FixAllowed(pl.plan) /\ pl.head = At(h.src)
     /\ published' = published \cup {Plan(h.src, gen)}
     /\ plans' = Plans(h.src, gen)
     /\ pl' = [pl EXCEPT !.plan = PlanOf(h.src, gen)]
  /\ UNCHANGED <<podVars, handoffs, attempts, proved, closed, ap, fx, hostVars, boundVars>>

\* The plan in hand is acted on as the pull request was read.
PollRead ==
  /\ pl.at = "read"
  /\ ~(PollCurrent /\ Unreconciled(gen) /\ handoffs[pl.known].prior = pl.plan
       /\ FixAllowed(pl.plan) /\ pl.head = At(handoffs[pl.known].src))
  /\ IF ~PollCurrent \/ Unreconciled(gen) \/ (pl.pr # "merged" /\ (pl.head # At(plans[pl.plan].src) \/ fx.at # "idle"))
     THEN EndPoll /\ UNCHANGED <<status, attempts, proved, closed>>
     ELSE \/ /\ pl.pr = "merged"
             /\ IF Confirms(pl.plan, pl.head)
                THEN RecordMerged(pl.plan, pl.head) /\ pl' = [pl EXCEPT !.at = "finish"]
                ELSE EndPoll /\ UNCHANGED <<attempts, proved>>
             /\ UNCHANGED <<status, closed>>
          \/ /\ pl.pr = "closed"
             /\ ObserveStatus(pl.plan, pl.head, TRUE)
             /\ status' = "failed" /\ EndPoll /\ UNCHANGED <<attempts, proved>>
          \/ /\ pl.pr = "open"
             /\ ObserveStatus(pl.plan, pl.head, FALSE)
             /\ \/ EndPoll
                \/ /\ Quiet(pl.plan)
                   /\ plans[pl.plan].src \in {Mine} \cup fixes
                   /\ pl' = [pl EXCEPT !.at = "merge", !.src = plans[pl.plan].src]
             /\ UNCHANGED <<status, attempts, proved>>
  /\ UNCHANGED <<gen, own, fixes, published, handoffs, plans, ap, fx, hostVars, boundVars>>

PollSends ==
  /\ pl.at = "merge"
  /\ IF PollCurrent /\ PrHead = At(pl.src) /\ MayPlan(pl.src, gen) /\ Try <= MaxSends
     THEN /\ Send(pl.src, gen)
          /\ pl' = [pl EXCEPT !.at = "waiting", !.try = Try]
     ELSE EndPoll /\ UNCHANGED <<plans, attempts, flying>>
  /\ UNCHANGED <<podVars, published, handoffs, proved, closed, ap, fx, pr, branch, mergedHead,
                 auto, boundVars>>

\* find and check: only a current pod reconciles.
PollReconciles ==
  /\ pl.at = "reconcile"
  /\ IF ~Current(pl, "merge_pending") THEN UNCHANGED <<attempts, proved, closed>>
     ELSE IF pr = "merged" /\ Confirms(pl.plan, PrHead)
     THEN RecordMerged(pl.plan, PrHead) /\ UNCHANGED closed
     ELSE /\ IF pr = "closed" THEN ObserveStatus(pl.plan, PrHead, TRUE) ELSE UNCHANGED closed
          /\ UNCHANGED <<attempts, proved>>
  /\ EndPoll
  /\ UNCHANGED <<podVars, published, handoffs, plans, ap, fx, hostVars, boundVars>>

PollFinishes ==
  /\ pl.at = "finish"
  /\ IF Current(pl, "merge_pending") THEN status' = "complete" ELSE UNCHANGED status
  /\ EndPoll
  /\ UNCHANGED <<gen, own, fixes, journalVars, ap, fx, hostVars, boundVars>>

PollStep == Poll \/ PollAdoptsFix \/ PollRead \/ PollSends \/ PollReconciles \/ PollFinishes
----------------------------------------------------------------------------
(* A fix pod delivers a new source for the same pull request.                 *)

NewSource == Cardinality(own \cup fixes) + 1

FixBegins ==
  /\ fx.at = "idle" /\ status = "merge_pending" /\ Latest(gen) # 0
  /\ FixAllowed(Latest(gen)) /\ ~Unreconciled(gen)
  /\ NewSource \in Source
  /\ fixes' = fixes \cup {NewSource}
  /\ fx' = [NoOp EXCEPT !.at = "rebase", !.gen = gen, !.plan = Latest(gen), !.src = NewSource]
  /\ UNCHANGED <<status, gen, own, journalVars, ap, pl, hostVars, boundVars>>

\* Mutant: what was asked before the rebase is not asked again.
FixAdmitsAtOnce ==
  /\ fx.at = "rebase"
  /\ IF Current(fx, "merge_pending") /\ Latest(gen) = fx.plan
     THEN /\ handoffs' = Append(handoffs, [src |-> fx.src, gen |-> gen, prior |-> fx.plan])
          /\ fx' = [fx EXCEPT !.at = "push"]
     ELSE fx' = NoOp /\ UNCHANGED handoffs
  /\ UNCHANGED <<podVars, published, plans, attempts, proved, closed, ap, pl, hostVars, boundVars>>

\* onPrepared, just before the push: asked again, then the handoff is admitted.
FixAdmits ==
  /\ fx.at = "rebase"
  /\ IF Current(fx, "merge_pending") /\ Latest(gen) = fx.plan /\ FixAllowed(fx.plan) /\ ~Unreconciled(gen)
     THEN /\ handoffs' = Append(handoffs, [src |-> fx.src, gen |-> gen, prior |-> fx.plan])
          /\ fx' = [fx EXCEPT !.at = "push"]
     ELSE fx' = NoOp /\ UNCHANGED handoffs
  /\ UNCHANGED <<podVars, published, plans, attempts, proved, closed, ap, pl, hostVars, boundVars>>

\* A forced push with a lease on the planned source.
FixPush ==
  /\ fx.at = "push"
  /\ \/ /\ branch = At(plans[fx.plan].src)
        /\ branch' = At(fx.src)
        /\ fx' = [fx EXCEPT !.at = "confirm"] /\ UNCHANGED lost
     \/ /\ branch = At(plans[fx.plan].src) /\ lost < MaxLost
        /\ lost' = lost + 1
        /\ branch' \in {branch, At(fx.src)}
        /\ fx' = NoOp
     \/ branch # At(plans[fx.plan].src) /\ fx' = NoOp /\ UNCHANGED <<branch, lost>>
  /\ UNCHANGED <<podVars, journalVars, ap, pl, pr, mergedHead, flying, auto, crashes>>

FixConfirms ==
  /\ fx.at = "confirm"
  /\ fx' = NoOp
  /\ IF Current(fx, "merge_pending")
     THEN /\ published' = published \cup {Plan(fx.src, gen)}
          /\ IF PublicationAllowed /\ ~Confirmed /\ ~closed
             THEN plans' = Plans(fx.src, gen) ELSE UNCHANGED plans
     ELSE UNCHANGED <<published, plans>>
  /\ UNCHANGED <<podVars, handoffs, attempts, proved, closed, ap, pl, hostVars, boundVars>>

FixStep == FixAdmits \/ FixPush \/ FixConfirms
----------------------------------------------------------------------------
(* The host: a request takes effect, is refused, fails or is scheduled; the   *)
(* operation that still waits for it learns of it.                            *)

Waiter(k) == IF ap.at = "waiting" /\ ap.try = k THEN "approval"
             ELSE IF pl.at = "waiting" /\ pl.try = k THEN "poll" ELSE "none"

\* mergePublishedSource with an answer: observed; the approval goes on, the poll ends.
Answer(k, answer) ==
  CASE Waiter(k) = "approval" ->
         /\ Seen(k, answer) /\ UNCHANGED pl
         /\ IF answer = "merged" THEN ap' = [ap EXCEPT !.at = "finish"] /\ UNCHANGED status
                                 ELSE ap' = NoOp /\ status' = "merge_pending"
    [] Waiter(k) = "poll" -> Seen(k, answer) /\ EndPoll /\ UNCHANGED <<ap, status>>
    [] OTHER -> UNCHANGED <<attempts, ap, pl, status>>

\* Without one: the catch block reconciles.
NoAnswer(k) ==
  /\ ap' = IF Waiter(k) = "approval" THEN [ap EXCEPT !.at = "reconcile"] ELSE ap
  /\ pl' = IF Waiter(k) = "poll" THEN [pl EXCEPT !.at = "reconcile"] ELSE pl
  /\ UNCHANGED <<attempts, status>>

MergeNow == pr' = "merged" /\ mergedHead' = branch

HostAnswers(k) ==
  /\ k \in flying
  /\ flying' = flying \ {k}
  /\ \/ /\ pr = "open" /\ branch = At(plans[attempts[k].plan].src)
        /\ \/ MergeNow /\ Answer(k, "merged") /\ auto' = {}
           \/ Answer(k, "refused") /\ UNCHANGED <<pr, mergedHead, auto>>
           \/ CanSchedule /\ Answer(k, "scheduled") /\ auto' = auto \cup {k} /\ UNCHANGED <<pr, mergedHead>>
     \/ /\ pr # "open" \/ branch # At(plans[attempts[k].plan].src)
        /\ NoAnswer(k) /\ UNCHANGED <<pr, mergedHead, auto>>
  /\ UNCHANGED <<gen, own, fixes, published, handoffs, plans, proved, closed, fx, branch, boundVars>>

\* The request, or its answer, is lost; the request may still take effect.
Timeout(k) ==
  /\ k \in flying /\ Waiter(k) # "none" /\ lost < MaxLost
  /\ lost' = lost + 1
  /\ NoAnswer(k)
  /\ flying' \in {flying, flying \ {k}}
  /\ UNCHANGED <<gen, own, fixes, published, handoffs, plans, proved, closed, fx, pr, branch,
                 mergedHead, auto, crashes>>

\* A scheduled merge happens, whatever the branch holds by then.
AutoMerge ==
  /\ pr = "open" /\ auto # {}
  /\ MergeNow /\ auto' = {}
  /\ UNCHANGED <<podVars, journalVars, ap, pl, fx, branch, flying, boundVars>>

UserPushes == pr = "open" /\ branch.more = 0 /\ branch' = [branch EXCEPT !.more = 1] /\ UNCHANGED <<pr, mergedHead, auto>>
UserMerges == pr = "open" /\ MergeNow /\ auto' = {} /\ UNCHANGED branch
UserCloses == pr = "open" /\ pr' = "closed" /\ auto' = {} /\ UNCHANGED <<branch, mergedHead>>
UserReopens == pr = "closed" /\ pr' = "open" /\ UNCHANGED <<branch, mergedHead, auto>>

UserActs ==
  /\ UserPushes \/ UserMerges \/ UserCloses \/ UserReopens
  /\ UNCHANGED <<podVars, journalVars, ap, pl, fx, flying, boundVars>>
----------------------------------------------------------------------------
(* The operator, and the daemon's end.                                       *)

\* recoverUncertainMerge: fresh evidence of an open, unscheduled pull request at the planned
\* source, half an hour after the request; taken to mean that it is no longer underway.
Recover ==
  /\ status = "validated" /\ Latest(gen) # 0 /\ Entry(Latest(gen)) = "admitted"
  /\ LET k == MaxOf(Attempts(Latest(gen))) IN
     /\ k \notin flying \cup auto
     /\ pr = "open" /\ branch = At(plans[Latest(gen)].src) /\ Mine = plans[Latest(gen)].src
     /\ attempts' = [attempts EXCEPT ![k].recovered = TRUE]
  /\ UNCHANGED <<podVars, published, handoffs, plans, proved, closed, ap, pl, fx, hostVars, boundVars>>

\* Resume revalidates the retained source in the same generation.
Resume ==
  /\ status = "failed" /\ status' = "validated"
  /\ UNCHANGED <<gen, own, fixes, journalVars, ap, pl, fx, hostVars, boundVars>>

\* A forced rework opens a generation; the new run ends with the same or a new commit.
Rework ==
  /\ status \in {"validated", "failed"} /\ gen < MaxGen
  /\ gen' = gen + 1 /\ status' = "validated"
  /\ own' \in {own} \cup (IF NewSource \in Source THEN {own \cup {NewSource}} ELSE {})
  /\ UNCHANGED <<fixes, journalVars, ap, pl, fx, hostVars, boundVars>>

Crash ==
  /\ crashes < MaxCrashes
  /\ crashes' = crashes + 1
  /\ ap' = NoOp /\ pl' = NoOp /\ fx' = NoOp
  /\ UNCHANGED <<podVars, journalVars, hostVars, lost>>

HostStep == (\E k \in flying : HostAnswers(k) \/ Timeout(k)) \/ AutoMerge

Next ==
  \/ Approve \/ ApprovalStep \/ PollStep \/ FixBegins \/ FixStep \/ HostStep \/ UserActs
  \/ Recover \/ Resume \/ Rework \/ Crash

Spec == Init /\ [][Next]_mergeVars
----------------------------------------------------------------------------
Ops == [at : {"idle", "prepare", "publish", "push", "plan", "merge", "waiting", "reconcile",
              "finish", "read", "rebase", "confirm"},
        gen : 0..MaxGen, src : 0..MaxSource, plan : 0..MaxGen * MaxSource, try : 0..MaxSends,
        known : 0..MaxSource, pr : {"open", "closed", "merged"}, head : [src : 0..MaxSource, more : 0..1]]

\* Types of the pod, the journal, the operations and the host.
TypeOK ==
  /\ status \in {"validated", "merging", "merge_pending", "complete", "failed"}
  /\ gen \in 1..MaxGen /\ own \subseteq Source /\ fixes \subseteq Source \ own
  /\ published \subseteq [src : Source, gen : 1..MaxGen]
  /\ \A i \in DOMAIN handoffs : handoffs[i] \in [src : fixes, gen : 1..MaxGen, prior : DOMAIN plans]
  /\ \A i \in DOMAIN plans : plans[i] \in published
  /\ \A k \in DOMAIN attempts :
       attempts[k] \in [plan : DOMAIN plans, seen : {"none", "refused", "scheduled", "merged"}, recovered : BOOLEAN]
  /\ proved \subseteq DOMAIN plans /\ closed \in BOOLEAN
  /\ {ap, pl, fx} \subseteq Ops
  /\ pr \in {"open", "closed", "merged"} /\ {branch, mergedHead} \subseteq [src : 0..MaxSource, more : 0..1]
  /\ flying \cup auto \subseteq DOMAIN attempts
  /\ lost \in 0..MaxLost /\ crashes \in 0..MaxCrashes

\* Of all merge requests the daemon ever sent, at most one can still take effect: across
\* approvals, polls, fixes, generations, crashes and operator recovery.
OneRequest == \A k, l \in flying \cup auto : k = l

\* The journal never claims a merge the host has not made of that source.
MergedIsReal ==
  \A i \in DOMAIN plans : Entry(i) = "merged" => pr = "merged" /\ Contains(mergedHead, plans[i].src)

\* While a request can still take effect, no push of the daemon replaces what it would merge.
SparesRequests ==
  flying \cup auto # {} /\ pr = "open" /\ branch' # branch => branch'.src = branch.src
PushesSpareRequests == [][SparesRequests]_mergeVars
=============================================================================
