--------------------------- MODULE DeliveryProofs ---------------------------
(* Proofs about a delivery, for any number of pods, generations, pull requests, *)
(* commits, requests, lost answers and crashes: the daemon asks the host once   *)
(* to create and once to merge, what it records is real, and its own pushes     *)
(* spare the request that can still take effect.                                *)
EXTENDS MCDelivery, FiniteSetTheorems, WellFoundedInduction, TLAPS

-----------------------------------------------------------------------------
(* The creation of the pull request.                                           *)

IntentState == {"none", "reserved", "creating", "uncertain", "delivered"}
OpState == {"idle", "looking", "absent", "found", "drafting", "posted"}

\* The types the argument needs: counters are numbers, records have their fields.
DeliveryTypes ==
  /\ intent \in [state : IntentState, pod : Pod \cup {None}, gen : 0..MaxGen]
  /\ op \in [at : OpState, gen : 0..MaxGen, found : Pr \cup {None}]
  /\ gen \in [Pod -> 1..MaxGen]
  /\ receipt \in Pr \cup {None}
  /\ prs \in [Pr -> {"none", "open", "closed", "merged"}] /\ listed \subseteq Existing
  /\ posts \in [sent : Nat, flying : Nat]

\* An intent that has never created sent nothing; one that is being drafted or posted by
\* the operation is 'creating', and the draft is of the first request.
Claimed ==
  /\ intent.state \in {"none", "reserved"} => posts.sent = 0 /\ op.at \notin {"drafting", "posted"}
  /\ op.at \in {"drafting", "posted"} => intent.state = "creating"
  /\ op.at = "drafting" => posts.sent = 0
  /\ posts.flying <= posts.sent /\ posts.sent <= 1

\* What a lookup found exists.
FoundExists == op.at = "found" => op.found \in Existing

\* The inductive invariant: the claim in the ledger, not the operation in memory, keeps a
\* second request from being drafted.
DeliveryInv == DeliveryTypes /\ Claimed /\ FoundExists /\ ReceiptIsReal
-----------------------------------------------------------------------------
\* Nothing was reserved yet.
LEMMA InitDelivery == Init => DeliveryInv
BY DeliveryAssumption DEF Init, DeliveryInv, DeliveryTypes, Claimed, FoundExists, ReceiptIsReal,
   NoOp, NoIntent, IntentState, OpState, Existing, None, Pr

\* A record keeps the first receipt, and delivers its intent.
LEMMA RecordReal ==
  ASSUME DeliveryInv, NEW u \in Pr, Record(u), prs'[u] # "none",
         \A v \in Pr : prs[v] # "none" => prs'[v] # "none"
  PROVE  /\ receipt' \in Pr /\ ReceiptIsReal'
         /\ intent' \in [state : IntentState, pod : Pod \cup {None}, gen : 0..MaxGen]
         /\ intent'.state = "delivered"
         /\ op' = NoOp
         /\ UNCHANGED receipt \/ (receipt = None /\ receipt' \in Pr)
<1>1. receipt # None => receipt \in Pr /\ prs[receipt] # "none" /\ intent.state = "delivered"
  BY DEF DeliveryInv, DeliveryTypes, ReceiptIsReal
<1>2. 0 \notin Pr
  BY DEF Pr
<1>3. CASE receipt = None
  <2>1. receipt' = u /\ intent' = [intent EXCEPT !.state = "delivered"]
    BY <1>3 DEF Record
  <2>2. /\ intent' \in [state : IntentState, pod : Pod \cup {None}, gen : 0..MaxGen]
        /\ intent'.state = "delivered"
    BY <2>1 DEF DeliveryInv, DeliveryTypes, IntentState
  <2> QED BY <1>2, <1>3, <2>1, <2>2 DEF Record, Ends, ReceiptIsReal, None
<1>4. CASE receipt # None
  BY <1>1, <1>4 DEF Record, Ends, ReceiptIsReal, DeliveryInv, DeliveryTypes
<1> QED BY <1>3, <1>4

\* A failed creation leaves the ledger marked.
LEMMA FailedMarked ==
  ASSUME DeliveryInv, CreateFails
  PROVE  /\ intent' \in [state : IntentState, pod : Pod \cup {None}, gen : 0..MaxGen]
         /\ intent'.state = IF intent.state = "creating" THEN "uncertain" ELSE intent.state
         /\ op' = NoOp /\ UNCHANGED receipt
BY DEF DeliveryInv, DeliveryTypes, CreateFails, Ends, IntentState
-----------------------------------------------------------------------------
(* One lemma for the calls, one for the operation, one for the world; each      *)
(* says what the step does to the request and the receipt.                     *)

\* No request is sent and no receipt changes.
Quietly == posts'.sent = posts.sent /\ UNCHANGED receipt

\* The request is sent, or an outcome learnt.
Sends == posts.sent = 0 /\ receipt = None /\ posts'.sent = 1 /\ UNCHANGED receipt
Learns == receipt = None /\ receipt' \in Pr /\ posts'.sent = posts.sent

\* createPr reserves, joins or starts.
LEMMA CallDelivers == ASSUME DeliveryInv, NEW p \in Pod, Call(p) PROVE DeliveryInv' /\ Quietly
<1>1. /\ UNCHANGED <<gen, receipt, prs, listed, posts>>
      /\ intent' = Reserved(p) /\ op' = [NoOp EXCEPT !.at = "looking", !.gen = Reserved(p).gen]
  BY DEF Call, hostVars
<1>2. /\ Reserved(p) \in [state : IntentState, pod : Pod \cup {None}, gen : 0..MaxGen]
      /\ intent.state = "none" => Reserved(p).state = "reserved"
      /\ intent.state # "none" => Reserved(p) = intent
  BY DeliveryAssumption DEF Reserved, DeliveryInv, DeliveryTypes, IntentState
<1>3. op' \in [at : OpState, gen : 0..MaxGen, found : Pr \cup {None}] /\ op'.at = "looking"
  BY <1>1, <1>2 DEF NoOp, OpState
<1> QED BY <1>1, <1>2, <1>3 DEF DeliveryInv, DeliveryTypes, Claimed, FoundExists, ReceiptIsReal, Existing, Quietly

\* The lookup, its failure, and the end of an operation leave the ledger alone.
LEMMA LookupDelivers ==
  ASSUME DeliveryInv, Lookup \/ LookupFails
  PROVE  DeliveryInv' /\ Quietly
<1>1. UNCHANGED <<gen, intent, receipt, prs, listed, posts>>
  BY DEF Lookup, LookupFails, hostVars
<1>2. /\ op' \in [at : OpState, gen : 0..MaxGen, found : Pr \cup {None}]
      /\ op'.at \in {"idle", "absent", "found"} /\ (op'.at = "found" => op'.found \in Existing)
  <2>1. NoOp \in [at : OpState, gen : 0..MaxGen, found : Pr \cup {None}] /\ NoOp.at = "idle"
    BY DeliveryAssumption DEF NoOp, OpState
  <2>2. CASE LookupFails
    BY <2>1, <2>2 DEF LookupFails, Ends
  <2>3. CASE Lookup
    <3>1. op \in [at : OpState, gen : 0..MaxGen, found : Pr \cup {None}] /\ listed \subseteq Existing
          /\ Existing \subseteq Pr
      BY DEF DeliveryInv, DeliveryTypes, Existing
    <3>2. CASE op' = NoOp
      BY <2>1, <3>2
    <3>3. CASE op' = [op EXCEPT !.at = "absent"]
      BY <3>1, <3>3 DEF OpState
    <3>4. ASSUME NEW u \in listed, op' = [op EXCEPT !.at = "found", !.found = u]
          PROVE  /\ op' \in [at : OpState, gen : 0..MaxGen, found : Pr \cup {None}]
                 /\ op'.at = "found" /\ op'.found \in Existing
      BY <3>1, <3>4 DEF OpState
    <3> QED BY <2>3, <3>2, <3>3, <3>4 DEF Lookup, Ends
  <2> QED BY <2>2, <2>3
<1> QED BY <1>1, <1>2 DEF DeliveryInv, DeliveryTypes, Claimed, FoundExists, ReceiptIsReal, Existing, Quietly

\* A found pull request is recorded.
LEMMA FoundDelivers ==
  ASSUME DeliveryInv, RecordFound
  PROVE  DeliveryInv' /\ (Quietly \/ Learns)
<1>1. /\ UNCHANGED <<gen, prs, listed, posts>> /\ Record(op.found)
      /\ op.found \in Pr /\ prs[op.found] # "none"
  BY DEF RecordFound, hostVars, DeliveryInv, FoundExists, Existing
<1>2. /\ receipt' \in Pr /\ ReceiptIsReal' /\ op' = NoOp /\ intent'.state = "delivered"
      /\ intent' \in [state : IntentState, pod : Pod \cup {None}, gen : 0..MaxGen]
      /\ UNCHANGED receipt \/ (receipt = None /\ receipt' \in Pr)
  BY <1>1, RecordReal
<1> QED BY <1>1, <1>2, DeliveryAssumption DEF DeliveryInv, DeliveryTypes, Claimed, FoundExists, Existing,
           Quietly, Learns, NoOp, OpState

\* The claim: only an intent that never created.
LEMMA ClaimDelivers == ASSUME DeliveryInv, Claim PROVE DeliveryInv' /\ Quietly
<1>1. UNCHANGED <<gen, receipt, prs, listed, posts>>
  BY DEF Claim, hostVars
<1>2. CASE MayClaim(op.gen)
  <2>1. /\ intent.state = "reserved" /\ intent' = [intent EXCEPT !.state = "creating"]
        /\ op' = [op EXCEPT !.at = "drafting"]
    BY <1>2 DEF Claim, MayClaim
  <2>2. /\ intent' \in [state : IntentState, pod : Pod \cup {None}, gen : 0..MaxGen]
        /\ intent'.state = "creating"
    BY <2>1 DEF DeliveryInv, DeliveryTypes, IntentState
  <2>3. op' \in [at : OpState, gen : 0..MaxGen, found : Pr \cup {None}] /\ op'.at = "drafting"
    BY <2>1 DEF DeliveryInv, DeliveryTypes, OpState
  <2> QED BY <1>1, <2>1, <2>2, <2>3 DEF DeliveryInv, DeliveryTypes, Claimed, FoundExists, ReceiptIsReal,
             Existing, Quietly
<1>3. CASE ~MayClaim(op.gen)
  BY <1>1, <1>3, DeliveryAssumption DEF Claim, Ends, NoOp, DeliveryInv, DeliveryTypes, Claimed, FoundExists,
     ReceiptIsReal, Existing, Quietly, OpState
<1> QED BY <1>2, <1>3

\* The request: its intent has no receipt and none was sent before.
LEMMA PostDelivers == ASSUME DeliveryInv, Post PROVE DeliveryInv' /\ Sends
<1>1. /\ UNCHANGED <<gen, intent, receipt, prs, listed>> /\ op.at = "drafting"
      /\ posts.sent = 0 /\ posts.flying = 0 /\ intent.state = "creating" /\ receipt = None
  BY DEF Post, hostVars, DeliveryInv, DeliveryTypes, Claimed, ReceiptIsReal
<1>2. posts' = [sent |-> 1, flying |-> 1]
  BY <1>1 DEF Post
<1>3. op' \in [at : OpState, gen : 0..MaxGen, found : Pr \cup {None}] /\ op'.at = "posted"
  BY DEF Post, DeliveryInv, DeliveryTypes, OpState
<1> QED BY <1>1, <1>2, <1>3 DEF DeliveryInv, DeliveryTypes, Claimed, FoundExists, ReceiptIsReal, Existing, Sends

\* The operation gives up.
LEMMA GiveUpDelivers == ASSUME DeliveryInv, GiveUp PROVE DeliveryInv' /\ Quietly
<1>1. UNCHANGED <<gen, prs, listed, posts>> /\ CreateFails
  BY DEF GiveUp, hostVars
<1>2. /\ intent' \in [state : IntentState, pod : Pod \cup {None}, gen : 0..MaxGen]
      /\ intent'.state = IF intent.state = "creating" THEN "uncertain" ELSE intent.state
      /\ op' = NoOp /\ UNCHANGED receipt
  BY <1>1, FailedMarked
<1> QED BY <1>1, <1>2, DeliveryAssumption DEF DeliveryInv, DeliveryTypes, Claimed, FoundExists, ReceiptIsReal,
           Existing, Quietly, NoOp, OpState

\* The host serves or drops a request that is flying.
LEMMA HostDelivers ==
  ASSUME DeliveryInv, HostCreates \/ HostDrops
  PROVE  DeliveryInv' /\ (Quietly \/ Learns)
<1>1. /\ posts.flying > 0 /\ posts' = [posts EXCEPT !.flying = @ - 1] /\ UNCHANGED <<gen, listed>>
      /\ posts \in [sent : Nat, flying : Nat]
  BY DEF HostCreates, HostDrops, hostVars, DeliveryInv, DeliveryTypes
<1>2. /\ posts' \in [sent : Nat, flying : Nat] /\ posts'.sent = posts.sent
      /\ posts'.flying <= posts.flying
  BY <1>1
<1>3. /\ prs' \in [Pr -> {"none", "open", "closed", "merged"}]
      /\ \A v \in Pr : prs[v] # "none" => prs'[v] # "none"
  BY DEF HostCreates, HostDrops, hostVars, Open, DeliveryInv, DeliveryTypes
<1>4. listed' \subseteq Existing'
  BY <1>1, <1>3 DEF Existing, DeliveryInv, DeliveryTypes
<1>5. \/ UNCHANGED <<intent, receipt, op>>
      \/ CreateFails
      \/ NewPr \in Pr /\ Record(NewPr) /\ prs'[NewPr] # "none"
  BY DEF HostCreates, HostDrops, Open, DeliveryInv, DeliveryTypes
<1>6. CASE UNCHANGED <<intent, receipt, op>>
  BY <1>1, <1>2, <1>3, <1>4, <1>6 DEF DeliveryInv, DeliveryTypes, Claimed, FoundExists, ReceiptIsReal,
     Existing, Quietly
<1>7. CASE CreateFails
  <2>1. /\ intent' \in [state : IntentState, pod : Pod \cup {None}, gen : 0..MaxGen]
        /\ intent'.state = IF intent.state = "creating" THEN "uncertain" ELSE intent.state
        /\ op' = NoOp /\ UNCHANGED receipt
    BY <1>7, FailedMarked
  <2> QED BY <1>1, <1>2, <1>3, <1>4, <2>1, DeliveryAssumption DEF DeliveryInv, DeliveryTypes, Claimed,
             FoundExists, ReceiptIsReal, Quietly, NoOp, OpState
<1>8. CASE NewPr \in Pr /\ Record(NewPr) /\ prs'[NewPr] # "none"
  <2>1. /\ receipt' \in Pr /\ ReceiptIsReal' /\ op' = NoOp /\ intent'.state = "delivered"
        /\ intent' \in [state : IntentState, pod : Pod \cup {None}, gen : 0..MaxGen]
        /\ UNCHANGED receipt \/ (receipt = None /\ receipt' \in Pr)
    BY <1>3, <1>8, RecordReal
  <2> QED BY <1>1, <1>2, <1>3, <1>4, <2>1, DeliveryAssumption DEF DeliveryInv, DeliveryTypes, Claimed,
             FoundExists, Quietly, Learns, NoOp, OpState
<1> QED BY <1>5, <1>6, <1>7, <1>8

\* The listing, the users, the pods and a crash leave the ledger alone.
LEMMA WorldDelivers ==
  ASSUME DeliveryInv,
         \/ \E p \in Pod : Rework(p) \/ Hold(p)
         \/ \E u \in Pr : HostLists(u) \/ UserActs(u)
         \/ Crash
         \/ UNCHANGED deliveryVars
  PROVE  DeliveryInv' /\ Quietly
<1>1. UNCHANGED <<intent, receipt, posts>> /\ (op' = op \/ op' = NoOp)
  BY DEF Rework, Hold, HostLists, UserActs, Crash, deliveryVars
<1>2. gen' \in [Pod -> 1..MaxGen]
  BY DeliveryAssumption DEF Rework, Hold, HostLists, UserActs, Crash, deliveryVars, DeliveryInv, DeliveryTypes
<1>3. /\ prs' \in [Pr -> {"none", "open", "closed", "merged"}]
      /\ \A v \in Pr : prs[v] # "none" => prs'[v] # "none"
  BY DEF Rework, Hold, HostLists, UserActs, Crash, deliveryVars, hostVars, Open, DeliveryInv, DeliveryTypes
<1>4. listed' \subseteq Existing'
  BY <1>3 DEF Rework, Hold, HostLists, UserActs, Crash, deliveryVars, hostVars, DeliveryInv, DeliveryTypes,
     Existing
<1> QED BY <1>1, <1>2, <1>3, <1>4, DeliveryAssumption DEF DeliveryInv, DeliveryTypes, Claimed, FoundExists,
           ReceiptIsReal, Existing, Quietly, NoOp, OpState

\* Every step keeps the invariant, and sends, learns, or does neither.
LEMMA StepDelivery ==
  ASSUME DeliveryInv, [Next]_deliveryVars
  PROVE  DeliveryInv' /\ (Quietly \/ Sends \/ Learns)
BY CallDelivers, LookupDelivers, FoundDelivers, ClaimDelivers, PostDelivers, GiveUpDelivers, HostDelivers,
   WorldDelivers DEF Next
-----------------------------------------------------------------------------
\* DeliveryInv holds in every reachable state.
LEMMA DeliveryInvariant == Spec => []DeliveryInv
BY InitDelivery, StepDelivery, PTL DEF Spec

\* A receipt names a pull request that exists and goes with a delivered intent, however a
\* late answer, a lookup and a crash compete to record it (delivery-ledger.ts, record).
THEOREM DeliveryReceiptIsReal == Spec => []ReceiptIsReal
BY DeliveryInvariant, PTL DEF DeliveryInv

\* While a request may still open a pull request, its intent does not look as if nothing had
\* been sent (delivery-ledger.ts; source adoption and stalled-worker recovery rely on it).
THEOREM DeliveryFlyingIsMarked == Spec => []FlyingIsMarked
<1>1. DeliveryInv => FlyingIsMarked
  BY DEF DeliveryInv, DeliveryTypes, Claimed, FlyingIsMarked
<1> QED BY <1>1, DeliveryInvariant, PTL

\* The ledger and its manager implement EffectOnce: one request, none once a pull request is
\* known, and a final receipt (durable-pr-manager.ts).
THEOREM DeliveryCreatesOnce == Spec => CreatesOnce
<1>1. Init => Effect!Init
  BY DEF Init, Effect!Init
<1>2. ASSUME DeliveryInv, [Next]_deliveryVars PROVE [Effect!Next]_(Effect!effectVars)
  <2>1. CASE Quietly
    BY <2>1 DEF Quietly, Effect!effectVars
  <2>2. CASE Sends
    BY <2>2 DEF Sends, Effect!Next, Effect!Request
  <2>3. CASE Learns
    BY <2>3 DEF Learns, Effect!Next, Effect!Learn
  <2> QED BY <1>2, <2>1, <2>2, <2>3, StepDelivery
<1> QED BY <1>1, <1>2, DeliveryInvariant, PTL DEF Spec, CreatesOnce, Effect!Spec

\* An intent is whole once it is reserved.
WholeIntent == intent = NoIntent \/ intent \in [state : IntentState \ {"none"}, pod : Pod, gen : 1..MaxGen]

\* Nothing is done for an intent that is not reserved.
Engaged == op.at # "idle" \/ posts.flying > 0 => intent.state # "none"

\* The bounds.
Counted == held \subseteq Pod /\ lost \in 0..MaxLost /\ crashes \in 0..MaxCrashes

\* An intent keeps the pod and the generation that reserved it.
LEMMA IntentWhole ==
  ASSUME DeliveryInv, WholeIntent, Engaged, [Next]_deliveryVars
  PROVE  WholeIntent' /\ Engaged'
<1>1. ASSUME NEW p \in Pod, Call(p) PROVE WholeIntent' /\ Engaged'
  <2>1. intent' = Reserved(p) /\ UNCHANGED posts /\ gen[p] \in 1..MaxGen
    BY <1>1 DEF Call, DeliveryInv, DeliveryTypes
  <2>2. Reserved(p) \in [state : IntentState \ {"none"}, pod : Pod, gen : 1..MaxGen]
    BY <2>1 DEF Reserved, WholeIntent, NoIntent, IntentState
  <2> QED BY <2>1, <2>2 DEF WholeIntent, Engaged
<1>2. ASSUME intent' = intent \/ (intent.state # "none" /\
                \E s \in IntentState \ {"none"} : intent' = [intent EXCEPT !.state = s]),
             op'.at # "idle" => op.at # "idle",
             posts'.flying > 0 => posts.flying > 0 \/ op.at # "idle"
      PROVE  WholeIntent' /\ Engaged'
  BY <1>2 DEF WholeIntent, Engaged, NoIntent, IntentState
<1>3. ASSUME CreateFails, Engaged, op.at # "idle"
      PROVE  intent' = intent \/ (intent.state # "none" /\
                \E s \in IntentState \ {"none"} : intent' = [intent EXCEPT !.state = s])
  BY <1>3 DEF CreateFails, IntentState
<1>4. ASSUME NEW u, Record(u), Engaged, op.at # "idle"
      PROVE  intent' = intent \/ (intent.state # "none" /\
                \E s \in IntentState \ {"none"} : intent' = [intent EXCEPT !.state = s])
  BY <1>4 DEF Record, Engaged, IntentState
<1>5. CASE Lookup \/ LookupFails \/ Post
  BY <1>2, <1>5 DEF Lookup, LookupFails, Post, Ends, NoOp
<1>6. CASE RecordFound
  BY <1>2, <1>4, <1>6 DEF RecordFound, Record, Ends, NoOp
<1>7. CASE GiveUp
  BY <1>2, <1>3, <1>7 DEF GiveUp, CreateFails, Ends, NoOp
<1>8. CASE Claim
  <2>1. intent' = intent \/ (intent.state # "none" /\
                \E s \in IntentState \ {"none"} : intent' = [intent EXCEPT !.state = s])
    BY <1>8 DEF Claim, MayClaim, IntentState
  <2> QED BY <1>2, <1>8, <2>1 DEF Claim, Ends, NoOp
<1>9. CASE HostCreates \/ HostDrops
  <2>1. posts.flying > 0
    BY <1>9 DEF HostCreates, HostDrops
  <2>2. \/ UNCHANGED <<intent, op>>
        \/ op.at # "idle" /\ (CreateFails \/ Record(NewPr))
    BY <1>9 DEF HostCreates, HostDrops
  <2>3. /\ intent' = intent \/ (intent.state # "none" /\
                \E s \in IntentState \ {"none"} : intent' = [intent EXCEPT !.state = s])
        /\ op'.at # "idle" => op.at # "idle"
    BY <1>3, <1>4, <2>2 DEF CreateFails, Record, Ends, NoOp
  <2> QED BY <1>2, <2>1, <2>3
<1>10. CASE \/ \E p \in Pod : Rework(p) \/ Hold(p)
            \/ \E u \in Pr : HostLists(u) \/ UserActs(u)
            \/ Crash
            \/ UNCHANGED deliveryVars
  BY <1>2, <1>10 DEF Rework, Hold, HostLists, UserActs, Crash, deliveryVars, NoOp
<1> QED BY <1>1, <1>5, <1>6, <1>7, <1>8, <1>9, <1>10 DEF Next

\* Types of the ledger, of the operation and of the host.
THEOREM DeliveryTypeOK == Spec => []TypeOK
<1> DEFINE Inv == DeliveryInv /\ WholeIntent /\ Engaged /\ Counted
<1>1. Init => Inv
  <2>1. Init => WholeIntent /\ Engaged /\ Counted
    BY DeliveryAssumption DEF Init, WholeIntent, Engaged, Counted, NoOp
  <2> QED BY <2>1, InitDelivery
<1>2. Inv /\ [Next]_deliveryVars => Inv'
  <2>1. ASSUME Counted, [Next]_deliveryVars PROVE Counted'
    <3>1. CASE UNCHANGED <<held, lost, crashes>>
      BY <2>1, <3>1 DEF Counted
    <3>2. ASSUME NEW p \in Pod, Hold(p) PROVE Counted'
      BY <2>1, <3>2 DEF Counted, Hold, boundVars
    <3>3. CASE LookupFails \/ GiveUp \/ HostDrops \/ Crash
      BY <2>1, <3>3, DeliveryAssumption DEF Counted, LookupFails, GiveUp, HostDrops, Crash
    <3> QED BY <2>1, <3>1, <3>2, <3>3 DEF Next, Call, Rework, Lookup, RecordFound, Claim, Post, HostCreates,
               HostLists, UserActs, boundVars, deliveryVars
  <2> QED BY <2>1, StepDelivery, IntentWhole
<1>3. Inv => TypeOK
  <2>1. SUFFICES ASSUME Inv PROVE TypeOK
    OBVIOUS
  <2>2. posts \in [sent : 0..1, flying : 0..1]
    BY <2>1 DEF DeliveryInv, DeliveryTypes, Claimed
  <2> QED BY <2>1, <2>2 DEF DeliveryInv, DeliveryTypes, WholeIntent, Counted, IntentState, OpState, TypeOK
<1> HIDE DEF Inv
<1> QED BY <1>1, <1>2, <1>3, PTL DEF Spec
-----------------------------------------------------------------------------
(* Its merge.                                                                  *)

\* There is a generation and a commit, and the other bounds are numbers.
LEMMA MergeBounds == Merge!MergeAssumption
BY MergeAssumption

\* What the argument needs of the types: numbers, and places in the journal.
Seens == {"none", "refused", "scheduled", "merged"}
PrState == {"open", "closed", "merged"}
Steps == {"idle", "prepare", "publish", "push", "plan", "merge", "waiting", "reconcile",
          "finish", "read", "rebase", "confirm"}
Commit == [src : Nat, more : Nat]
Attempt == [plan : Nat, seen : Seens, recovered : BOOLEAN]
Planned == [src : Nat, gen : Nat]
Handoff == [src : Nat, gen : Nat, prior : Nat]
Operation == [at : Steps, gen : Nat, src : Nat, plan : Nat, try : Nat, known : Nat, pr : PrState,
head : Commit]

PodTypes ==
  /\ status \in {"validated", "merging", "merge_pending", "complete", "failed"}
  /\ mergeGen \in Nat /\ own \subseteq Merge!Source /\ own # {}

JournalTypes ==
  /\ plans \in Seq(Planned) /\ handoffs \in Seq(Handoff) /\ attempts \in Seq(Attempt)
  /\ \A k \in DOMAIN attempts : attempts[k].plan \in DOMAIN plans
  /\ proved \subseteq DOMAIN plans
  /\ flying \cup auto \subseteq DOMAIN attempts

HostTypes == pr \in PrState /\ branch \in Commit /\ mergedHead \in Commit

\* What an operation knows is in the journal.
OperationTypes ==
  /\ ap \in Operation /\ pl \in Operation /\ fx \in Operation
  /\ ap.plan # 0 \/ ap.at \in {"waiting", "reconcile"} => ap.plan \in DOMAIN plans
  /\ pl.at # "idle" => pl.plan \in DOMAIN plans

MergeTypes == PodTypes /\ JournalTypes /\ HostTypes /\ OperationTypes

Unanswered(k) == attempts[k].seen = "none" /\ ~attempts[k].recovered

\* A request that can still take effect is on record as such.
RequestsOpen ==
  /\ flying \cap auto = {}
  /\ \A k \in flying : Unanswered(k) \/ attempts[k].seen = "merged"
  /\ \A k \in auto : Unanswered(k) \/ attempts[k].seen \in {"scheduled", "merged"}

Real(i) == pr = "merged" /\ Merge!Contains(mergedHead, plans[i].src)

\* What the journal holds for merged is.
MergesReal ==
  /\ \A i \in proved : Real(i)
  /\ \A k \in DOMAIN attempts : attempts[k].seen = "merged" => Real(attempts[k].plan)

\* A pull request that an operation has read as merged stays it.
ReadsReal ==
  /\ ap.pr = "merged" => pr = "merged" /\ ap.head = mergedHead
  /\ pl.pr = "merged" => pr = "merged" /\ pl.head = mergedHead

\* While an approval delivers, the pod is neither polled nor fixed.
ApprovalOwns ==
  /\ ap.at = "prepare" => status = "validated"
  /\ ap.at \notin {"idle", "prepare"} => status = "merging"

\* While a fix pod delivers, the pod awaits its merge and keeps its generation.
FixOwns ==
  fx.at # "idle" => /\ status \in {"merge_pending", "complete"} /\ fx.gen = mergeGen
                    /\ \E i \in DOMAIN plans : plans[i].gen = mergeGen

\* A poll that is about to ask for the merge knows nothing of the fix about to be pushed.
FixAhead ==
  /\ pl.at # "idle" => pl.known <= Len(handoffs)
  /\ fx.at = "push" /\ pl.at = "merge" => 
       \E i \in DOMAIN handoffs : handoffs[i].gen = mergeGen /\ i > pl.known

\* No request can take effect while a push is on its way.
PushesQuiet == ap.at = "push" \/ fx.at = "push" => flying \cup auto = {}

MergeInv ==
  /\ MergeTypes /\ RequestsOpen /\ OneRequest /\ MergesReal /\ ReadsReal
  /\ ApprovalOwns /\ FixOwns /\ FixAhead /\ PushesQuiet
----------------------------------------------------------------------------
(* The journal.                                                              *)

\* A set of numbers has a least one.
LEMMA Least ==
  ASSUME NEW T, T \subseteq Nat, T # {}
  PROVE  \E x \in T : \A y \in T : x <= y
<1> DEFINE R == OpToRel(<, Nat)
<1>1. IsWellFoundedOn(R, Nat)
  BY NatLessThanWellFounded
<1>2. \A x, y \in Nat : x < y => <<x, y>> \in R
  BY DEF OpToRel
<1> HIDE DEF R
<1>3. \E x \in T : \A y \in T : <<y, x>> \notin R
  BY <1>1, WFMin
<1>4. \A x, y \in T : ~(y < x) => x <= y
  OBVIOUS
<1>5. QED
  BY <1>2, <1>3, <1>4

\* A bounded one has a greatest.
LEMMA Greatest ==
  ASSUME NEW n \in Nat, NEW S, S \subseteq 0..n, S # {}
  PROVE  Merge!MaxOf(S) \in S /\ \A y \in S : y <= Merge!MaxOf(S)
<1> DEFINE T == {n - x : x \in S}
<1>1. T \subseteq Nat /\ T # {}
  <2>1. \A x \in S : x \in 0..n /\ n - x \in Nat
    OBVIOUS
  <2>2. QED
    BY <2>1
<1>2. PICK t \in T : \A u \in T : t <= u
  BY <1>1, Least
<1>3. PICK x \in S : t = n - x
  BY <1>2
<1>4. \A y \in S : n - y \in T
  OBVIOUS
<1> HIDE DEF T
<1>5. \A y \in S : y <= x
  <2>1. SUFFICES ASSUME NEW y \in S PROVE y <= x
    OBVIOUS
  <2>2. n - x <= n - y
    BY <1>2, <1>3, <1>4
  <2>3. x \in 0..n /\ y \in 0..n
    OBVIOUS
  <2>4. QED
    BY <2>2, <2>3
<1>6. QED
  BY <1>3, <1>5 DEF Merge!MaxOf

\* The last of some places of a sequence.
LEMMA LastPlace ==
  ASSUME NEW U, NEW q \in Seq(U), NEW S, S \subseteq DOMAIN q, S # {}
  PROVE  Merge!MaxOf(S) \in S /\ Merge!MaxOf(S) # 0 /\ \A y \in S : y <= Merge!MaxOf(S)
<1>1. Len(q) \in Nat /\ DOMAIN q = 1..Len(q) /\ DOMAIN q \subseteq 0..Len(q)
  OBVIOUS
<1>2. Merge!MaxOf(S) \in S /\ \A y \in S : y <= Merge!MaxOf(S)
  BY <1>1, Greatest
<1>3. QED
  BY <1>1, <1>2

\* The last plan of a generation.
LEMMA LatestPlan ==
  ASSUME plans \in Seq(Planned), NEW g
  PROVE  /\ Merge!Latest(g) # 0 => Merge!Latest(g) \in DOMAIN plans /\ plans[Merge!Latest(g)].gen = g
         /\ Merge!Latest(g) = 0 => \A i \in DOMAIN plans : plans[i].gen # g
<1> DEFINE S == {i \in DOMAIN plans : plans[i].gen = g}
<1>1. Merge!Latest(g) = IF S = {} THEN 0 ELSE Merge!MaxOf(S)
  BY DEF Merge!Latest
<1>2. S # {} => Merge!MaxOf(S) \in S /\ Merge!MaxOf(S) # 0
  BY LastPlace
<1>3. QED
  BY <1>1, <1>2

\* The last handoff of a generation.
LEMMA LatestHandoff ==
  ASSUME handoffs \in Seq(Handoff), NEW g
  PROVE  /\ Merge!LastHandoff(g) # 0 => Merge!LastHandoff(g) \in DOMAIN handoffs
         /\ Merge!LastHandoff(g) \in 0..Len(handoffs)
         /\ \A i \in DOMAIN handoffs : handoffs[i].gen = g => i <= Merge!LastHandoff(g)
<1> DEFINE S == {i \in DOMAIN handoffs : handoffs[i].gen = g}
<1>1. Merge!LastHandoff(g) = IF S = {} THEN 0 ELSE Merge!MaxOf(S)
  BY DEF Merge!LastHandoff
<1>2. S # {} => Merge!MaxOf(S) \in S /\ Merge!MaxOf(S) # 0 /\ \A y \in S : y <= Merge!MaxOf(S)
  BY LastPlace
<1>3. DOMAIN handoffs = 1..Len(handoffs) /\ Len(handoffs) \in Nat
  OBVIOUS
<1>4. QED
  BY <1>1, <1>2, <1>3

\* A plan is added to the journal, or is there already.
LEMMA PlansGrow ==
  ASSUME plans \in Seq(Planned), NEW s \in Nat, NEW g \in Nat
  PROVE  /\ Merge!Plans(s, g) \in Seq(Planned) /\ DOMAIN plans \subseteq DOMAIN Merge!Plans(s, g)
         /\ \A i \in DOMAIN plans : Merge!Plans(s, g)[i] = plans[i]
         /\ Merge!PlanOf(s, g) \in DOMAIN Merge!Plans(s, g)
            /\ Merge!Plans(s, g)[Merge!PlanOf(s, g)] = Merge!Plan(s, g)
<1> DEFINE new == Merge!Plan(s, g)
<1>1. new \in Planned
  BY DEF Merge!Plan, Planned
<1>2. Len(plans) \in Nat /\ DOMAIN plans = 1..Len(plans)
  OBVIOUS
<1>3. CASE \E i \in DOMAIN plans : plans[i] = new
  BY <1>3 DEF Merge!Plans, Merge!PlanOf
<1>4. CASE ~\E i \in DOMAIN plans : plans[i] = new
  <2>1. Merge!Plans(s, g) = Append(plans, new)
    BY <1>4 DEF Merge!Plans
  <2> HIDE DEF new
  <2> DEFINE q == Append(plans, new)
  <2>2. /\ q \in Seq(Planned) /\ DOMAIN q = 1..Len(plans) + 1
        /\ q[Len(plans) + 1] = new /\ \A i \in DOMAIN plans : q[i] = plans[i]
    BY <1>1, <1>2
  <2>3. Len(plans) + 1 \in DOMAIN q /\ DOMAIN plans \subseteq DOMAIN q
    BY <1>2, <2>2
  <2>4. Merge!PlanOf(s, g) = CHOOSE i \in DOMAIN q : q[i] = new
    BY <2>1 DEF Merge!PlanOf, new
  <2> HIDE DEF q
  <2>5. Merge!PlanOf(s, g) \in DOMAIN q /\ q[Merge!PlanOf(s, g)] = new
    BY <2>2, <2>3, <2>4
  <2>6. Merge!Plans(s, g) = q
    BY <2>1 DEF q
  <2>7. QED
    BY <2>2, <2>3, <2>5, <2>6 DEF new
<1>5. QED
  BY <1>3, <1>4

\* An entry says merged exactly when an observation of the plan or of a request of it does.
LEMMA MergedEntry ==
  ASSUME attempts \in Seq(Attempt), NEW i
  PROVE  Merge!Entry(i) = "merged" <=> i \in proved \/ \E k \in Merge!Attempts(i) : attempts[k].seen = "merged"
<1>1. Merge!Attempts(i) # {} => Merge!MaxOf(Merge!Attempts(i)) \in Merge!Attempts(i)
  BY LastPlace DEF Merge!Attempts
<1>2. QED
  BY <1>1 DEF Merge!Entry

\* An observation of a request changes nothing else in the journal.
LEMMA SeenOne ==
  ASSUME attempts \in Seq(Attempt), NEW k \in DOMAIN attempts, NEW answer \in Seens, Merge!Seen(k, answer)
  PROVE  /\ attempts' \in Seq(Attempt) /\ DOMAIN attempts' = DOMAIN attempts
         /\ \A l \in DOMAIN attempts :
              /\ attempts'[l].plan = attempts[l].plan /\ attempts'[l].recovered = attempts[l].recovered
              /\ attempts'[l].seen = IF l = k THEN answer ELSE attempts[l].seen
<1> DEFINE new == [attempts[k] EXCEPT !.seen = answer]
<1>1. /\ new \in Attempt /\ new.plan = attempts[k].plan /\ new.recovered = attempts[k].recovered
      /\ new.seen = answer
  <2>1. attempts[k] \in Attempt
    OBVIOUS
  <2>2. QED
    BY <2>1 DEF Attempt
<1>2. attempts' = [attempts EXCEPT ![k] = new]
  BY DEF Merge!Seen
<1> HIDE DEF new
<1>3. QED
  BY <1>1, <1>2

\* Where the journal admits, no request can take effect.
LEMMA AdmittedIsQuiet ==
  ASSUME MergeInv, Merge!PublicationAllowed, ~Merge!Confirmed \/ pr = "open"
  PROVE  flying \cup auto = {}
<1>1. \A k \in DOMAIN attempts : attempts[k].seen # "merged"
  <2>1. CASE pr = "open"
    BY <2>1 DEF MergeInv, MergesReal, Real
  <2>2. CASE ~Merge!Confirmed
    BY <2>2, MergedEntry DEF MergeInv, MergeTypes, JournalTypes, Merge!Confirmed, Merge!Attempts
  <2>3. QED
    BY <2>1, <2>2
<1>2. QED
  BY <1>1 DEF MergeInv, MergeTypes, JournalTypes, RequestsOpen, Merge!PublicationAllowed, Unanswered,
     Merge!Attempts
----------------------------------------------------------------------------
(* What steps keep.                                                          *)

PlansExtend ==
  /\ plans' \in Seq(Planned) /\ DOMAIN plans \subseteq DOMAIN plans'
  /\ \A i \in DOMAIN plans : plans'[i] = plans[i]

\* Requests, observations and the host's merge rest; plans and commits are added.
LEMMA RequestsRest ==
  ASSUME MergeInv, PlansExtend, own \subseteq own', UNCHANGED <<attempts, proved, flying, auto, pr,
                                                                mergedHead>>
  PROVE  RequestsOpen' /\ OneRequest' /\ MergesReal'
<1>1. RequestsOpen' /\ OneRequest'
  BY DEF MergeInv, RequestsOpen, OneRequest, Merge!OneRequest, Unanswered
<1>2. \A i \in DOMAIN plans : Real(i) => pr' = "merged" /\ (Merge!Contains(mergedHead, plans[i].src))'
  BY DEF Real, Merge!Contains, PlansExtend
<1>3. MergesReal'
  BY <1>2 DEF MergeInv, MergeTypes, JournalTypes, MergesReal, Real
<1>4. QED
  BY <1>1, <1>3

\* The journal's own types.
LEMMA JournalRests ==
  ASSUME MergeInv, PlansExtend, UNCHANGED <<handoffs, attempts, proved, flying, auto>>
  PROVE  JournalTypes'
BY DEF MergeInv, MergeTypes, JournalTypes, PlansExtend

\* The plans rest.
LEMMA PlansRest ==
  ASSUME MergeInv, UNCHANGED plans
  PROVE  PlansExtend
BY DEF MergeInv, MergeTypes, JournalTypes, PlansExtend

\* A plan is added.
LEMMA PlansAdded ==
  ASSUME MergeInv, NEW s \in Nat, plans' = Merge!Plans(s, mergeGen)
  PROVE  /\ PlansExtend /\ Merge!PlanOf(s, mergeGen) \in DOMAIN plans'
            /\ plans'[Merge!PlanOf(s, mergeGen)] = Merge!Plan(s, mergeGen)
BY PlansGrow DEF MergeInv, MergeTypes, PodTypes, JournalTypes, PlansExtend

\* A request is sent where the journal admits: it is the only one that can take effect.
LEMMA SendKeeps ==
  ASSUME MergeInv, NEW s \in Nat, Merge!Send(s, mergeGen), Merge!PublicationAllowed, ~Merge!Confirmed,
         UNCHANGED <<own, handoffs, proved, auto, pr, mergedHead>>
  PROVE  JournalTypes' /\ RequestsOpen' /\ OneRequest' /\ MergesReal' /\ PlansExtend
         /\ Merge!PlanOf(s, mergeGen) \in DOMAIN plans'
<1> DEFINE n == Len(attempts)
           i == Merge!PlanOf(s, mergeGen)
           new == [plan |-> i, seen |-> "none", recovered |-> FALSE]
<1>1. PlansExtend /\ i \in DOMAIN plans'
  BY PlansAdded DEF Merge!Send
<1>2. flying \cup auto = {}
  BY AdmittedIsQuiet
<1>3. attempts' = Append(attempts, new) /\ flying' = {n + 1} /\ auto' = {} /\ plans' = Merge!Plans(s, mergeGen)
  BY <1>2 DEF Merge!Send, Merge!Try
<1>4. i \in Nat
  <2>1. plans' \in Seq(Planned)
    BY <1>1 DEF PlansExtend
  <2>2. QED
    BY <1>1, <2>1
<1> HIDE DEF i
<1>5. new \in Attempt /\ new.plan = i /\ new.seen = "none" /\ new.recovered = FALSE
  BY <1>4 DEF Attempt, Seens
<1> HIDE DEF new
<1>6. /\ attempts' \in Seq(Attempt) /\ n \in Nat /\ DOMAIN attempts = 1..n /\ DOMAIN attempts' = 1..n + 1
      /\ attempts'[n + 1] = new /\ \A k \in 1..n : attempts'[k] = attempts[k]
  BY <1>3, <1>5 DEF MergeInv, MergeTypes, JournalTypes
<1>7. /\ n + 1 \in DOMAIN attempts' /\ \A k \in DOMAIN attempts' : k \in DOMAIN attempts \/ k = n + 1
  BY <1>6
<1>8. JournalTypes'
  <2>1. \A k \in DOMAIN attempts' : attempts'[k].plan \in DOMAIN plans'
    BY <1>1, <1>5, <1>6, <1>7 DEF MergeInv, MergeTypes, JournalTypes, PlansExtend
  <2>2. QED
    BY <1>1, <1>3, <1>6, <1>7, <2>1 DEF MergeInv, MergeTypes, JournalTypes, PlansExtend
<1>9. RequestsOpen' /\ OneRequest'
  BY <1>3, <1>5, <1>6, <1>7 DEF RequestsOpen, OneRequest, Merge!OneRequest, Unanswered
<1>10. MergesReal'
  <2>1. \A j \in DOMAIN plans : Real(j) => pr' = "merged" /\ (Merge!Contains(mergedHead, plans[j].src))'
    BY <1>1 DEF Real, Merge!Contains, PlansExtend
  <2>2. QED
    BY <1>5, <1>6, <1>7, <2>1 DEF MergeInv, MergeTypes, JournalTypes, MergesReal, Real
<1>11. QED
  BY <1>1, <1>8, <1>9, <1>10 DEF i

\* A merged pull request is recorded for a plan it contains, or the plan is merged already.
LEMMA RecordKeeps ==
  ASSUME MergeInv, NEW i \in DOMAIN plans, NEW head, Merge!RecordMerged(i, head),
         Merge!Entry(i) = "merged" \/ (pr = "merged" /\ head = mergedHead /\ Merge!Confirms(i, head)),
         UNCHANGED <<own, plans, handoffs, flying, auto, pr, mergedHead>>
  PROVE  JournalTypes' /\ RequestsOpen' /\ OneRequest' /\ MergesReal'
<1> USE DEF MergeInv, MergeTypes, JournalTypes
<1>1. CASE Merge!Entry(i) = "merged"
  <2>1. UNCHANGED <<attempts, proved>>
    BY <1>1 DEF Merge!RecordMerged
  <2>2. QED
    BY <2>1, PlansRest, JournalRests, RequestsRest
<1>2. CASE Merge!Entry(i) # "merged" /\ head = Merge!At(plans[i].src) /\ Merge!Attempts(i) # {}
  <2> DEFINE k == Merge!MaxOf(Merge!Attempts(i))
  <2>1. Merge!Seen(k, "merged") /\ UNCHANGED proved
    BY <1>2 DEF Merge!RecordMerged
  <2>2. k \in DOMAIN attempts /\ attempts[k].plan = i
    <3>1. attempts \in Seq(Attempt) /\ Merge!Attempts(i) \subseteq DOMAIN attempts
      BY DEF Merge!Attempts
    <3>2. k \in Merge!Attempts(i)
      BY <1>2, <3>1, LastPlace
    <3>3. QED
      BY <3>2 DEF Merge!Attempts
  <2> HIDE DEF k
  <2>3. /\ attempts' \in Seq(Attempt) /\ DOMAIN attempts' = DOMAIN attempts
        /\ \A l \in DOMAIN attempts :
             /\ attempts'[l].plan = attempts[l].plan /\ attempts'[l].recovered = attempts[l].recovered
             /\ attempts'[l].seen = IF l = k THEN "merged" ELSE attempts[l].seen
    BY <2>1, <2>2, SeenOne DEF Seens
  <2>4. Real(i)
    BY <1>2 DEF Real, Merge!Confirms
  <2>5. \A j : Real(j) => pr' = "merged" /\ (Merge!Contains(mergedHead, plans[j].src))'
    BY DEF Real, Merge!Contains
  <2>6. MergesReal'
    BY <2>1, <2>2, <2>3, <2>4, <2>5 DEF MergesReal, Real
  <2>7. RequestsOpen' /\ OneRequest'
    BY <2>3 DEF RequestsOpen, OneRequest, Merge!OneRequest, Unanswered
  <2>8. JournalTypes'
    BY <2>1, <2>3
  <2>9. QED
    BY <2>6, <2>7, <2>8
<1>3. CASE Merge!Entry(i) # "merged" /\ ~(head = Merge!At(plans[i].src) /\ Merge!Attempts(i) # {})
  <2>1. proved' = proved \cup {i} /\ UNCHANGED attempts
    BY <1>3 DEF Merge!RecordMerged
  <2>2. Real(i)
    BY <1>3 DEF Real, Merge!Confirms
  <2>3. \A j : Real(j) => pr' = "merged" /\ (Merge!Contains(mergedHead, plans[j].src))'
    BY DEF Real, Merge!Contains
  <2>4. MergesReal'
    BY <2>1, <2>2, <2>3 DEF MergesReal, Real
  <2>5. RequestsOpen' /\ OneRequest' /\ JournalTypes'
    BY <2>1 DEF RequestsOpen, OneRequest, Merge!OneRequest, Unanswered
  <2>6. QED
    BY <2>4, <2>5
<1>4. QED
  BY <1>1, <1>2, <1>3
----------------------------------------------------------------------------
(* Operations.                                                               *)

\* Nothing underway is an operation.
LEMMA NoOperation ==
  /\ Merge!NoOp \in Operation /\ Merge!NoOp.at = "idle" /\ Merge!NoOp.pr = "open" /\ Merge!NoOp.plan = 0
BY DEF Merge!NoOp, Merge!NoHead, Operation, Steps, PrState, Commit

\* The pull request as it is read.
LEMMA ReadHead ==
  ASSUME MergeInv
  PROVE  pr \in PrState /\ Merge!PrHead \in Commit /\ (pr = "merged" => Merge!PrHead = mergedHead)
BY DEF MergeInv, MergeTypes, HostTypes, Merge!PrHead

\* The last commit of the worktree.
LEMMA MineIsCommit == ASSUME MergeInv PROVE Merge!Mine \in Nat
<1>1. own \subseteq 0..MaxSource /\ MaxSource \in Nat /\ own # {}
  BY MergeBounds DEF MergeInv, MergeTypes, PodTypes, Merge!Source, Merge!MergeAssumption
<1>2. Merge!MaxOf(own) \in own
  BY <1>1, Greatest
<1>3. \A x \in own : x \in Nat
  BY <1>1
<1>4. QED
  BY <1>2, <1>3 DEF Merge!Mine

\* An approval begins.
LEMMA ApproveKeeps == ASSUME MergeInv, Merge!Approve PROVE MergeInv'
<1> USE DEF MergeInv, MergeTypes
<1> DEFINE new == [Merge!NoOp EXCEPT !.at = "prepare", !.gen = mergeGen,
    !.plan = Merge!Latest(mergeGen), !.pr = pr, !.head = Merge!PrHead]
<1>1. /\ ap' = new /\ status = "validated"
      /\ UNCHANGED <<Merge!podVars, Merge!journalVars, pl, fx, Merge!hostVars>>
  BY DEF Merge!Approve
<1>2. Merge!Latest(mergeGen) \in Nat /\ (Merge!Latest(mergeGen) # 0 => Merge!Latest(mergeGen) \in DOMAIN plans)
  BY LatestPlan DEF JournalTypes
<1>3. /\ new \in Operation /\ new.at = "prepare" /\ new.plan = Merge!Latest(mergeGen) /\ new.pr = pr
         /\ new.head = Merge!PrHead
  BY <1>2, NoOperation, ReadHead DEF Operation, Steps, PodTypes
<1> HIDE DEF new
<1>4. PlansExtend /\ JournalTypes'
  BY <1>1, PlansRest, JournalRests DEF Merge!journalVars, Merge!hostVars
<1>5. RequestsOpen' /\ OneRequest' /\ MergesReal'
  BY <1>1, <1>4, RequestsRest DEF Merge!podVars, Merge!journalVars, Merge!hostVars
<1>6. PodTypes' /\ HostTypes'
  BY <1>1 DEF Merge!podVars, Merge!hostVars, PodTypes, HostTypes
<1>7. OperationTypes'
  BY <1>1, <1>2, <1>3 DEF OperationTypes, Merge!journalVars
<1>8. ReadsReal'
  BY <1>1, <1>3, ReadHead DEF ReadsReal, Merge!hostVars
<1>9. ApprovalOwns' /\ FixOwns' /\ FixAhead' /\ PushesQuiet'
  BY <1>1, <1>3 DEF ApprovalOwns, FixOwns, FixAhead, PushesQuiet, Merge!podVars, Merge!journalVars,
     Merge!hostVars
<1>10. QED
  BY <1>4, <1>5, <1>6, <1>7, <1>8, <1>9

\* It reads what an earlier plan says.
LEMMA PrepareKeeps == ASSUME MergeInv, Merge!Prepare PROVE MergeInv'
<1> USE DEF MergeInv, MergeTypes
<1>1. /\ ap.at = "prepare" /\ status = "validated" /\ fx.at = "idle"
      /\ UNCHANGED <<mergeGen, own, fixes, handoffs, plans, pl, fx, Merge!hostVars>>
  BY DEF Merge!Prepare, ApprovalOwns, FixOwns, Merge!Refuse, Merge!Proceed
<1>2. \/ ap' = Merge!NoOp /\ UNCHANGED status
      \/ /\ status' = "merging"
         /\ \E step \in {"publish", "finish"} : ap' = [ap EXCEPT !.at = step, !.src = Merge!Mine]
  BY DEF Merge!Prepare, Merge!Refuse, Merge!Proceed
<1>3. /\ ap' \in Operation
      /\ \/ ap'.at = "idle" /\ ap'.pr = "open" /\ ap'.plan = 0 /\ UNCHANGED status
         \/ /\ status' = "merging" /\ ap'.at \in {"publish", "finish"}
            /\ ap'.plan = ap.plan /\ ap'.pr = ap.pr /\ ap'.head = ap.head
  BY <1>2, NoOperation, MineIsCommit DEF Operation, OperationTypes, Steps
<1>4. \/ UNCHANGED <<attempts, proved>>
      \/ /\ Merge!RecordMerged(ap.plan, ap.head) /\ ap.plan # 0
         /\ Merge!Entry(ap.plan) = "merged" \/ (ap.pr = "merged" /\ Merge!Confirms(ap.plan, ap.head))
  BY DEF Merge!Prepare, Merge!Refuse
<1>5. JournalTypes' /\ RequestsOpen' /\ OneRequest' /\ MergesReal'
  <2>1. CASE UNCHANGED <<attempts, proved>>
    BY <1>1, <2>1, PlansRest, JournalRests, RequestsRest DEF Merge!hostVars
  <2>2. CASE /\ Merge!RecordMerged(ap.plan, ap.head) /\ ap.plan # 0
             /\ Merge!Entry(ap.plan) = "merged" \/ (ap.pr = "merged" /\ Merge!Confirms(ap.plan, ap.head))
    <3>1. ap.plan \in DOMAIN plans /\ (ap.pr = "merged" => pr = "merged" /\ ap.head = mergedHead)
      BY <2>2 DEF OperationTypes, ReadsReal
    <3>2. QED
      BY <1>1, <2>2, <3>1, RecordKeeps DEF Merge!hostVars
  <2>3. QED
    BY <1>4, <2>1, <2>2
<1>6. PodTypes' /\ HostTypes'
  BY <1>1, <1>3 DEF Merge!hostVars, PodTypes, HostTypes
<1>7. OperationTypes' /\ ReadsReal'
  BY <1>1, <1>3 DEF OperationTypes, ReadsReal, Merge!hostVars
<1>8. ApprovalOwns' /\ FixOwns' /\ FixAhead' /\ PushesQuiet'
  BY <1>1, <1>3 DEF ApprovalOwns, FixOwns, FixAhead, PushesQuiet, Merge!hostVars
<1>9. QED
  BY <1>5, <1>6, <1>7, <1>8

\* The steps of an approval that neither ask nor record: the push, the plan and the ends.
LEMMA ApprovalRests ==
  ASSUME MergeInv, Merge!StartPush \/ Merge!Push \/ Merge!PlanMerge \/ Merge!ApproveFinishes
  PROVE  MergeInv'
<1> USE DEF MergeInv, MergeTypes
<1>1. /\ status = "merging" /\ fx.at = "idle"
      /\ UNCHANGED <<mergeGen, own, fixes, handoffs, attempts, proved, closed, pl, fx, pr, mergedHead,
                     flying, auto>>
  BY DEF Merge!StartPush, Merge!Push, Merge!PlanMerge, Merge!ApproveFinishes, ApprovalOwns, FixOwns,
     Merge!journalVars, Merge!hostVars
<1>2. /\ ap' \in Operation
      /\ \/ ap'.at = "idle" /\ ap'.pr = "open" /\ ap'.plan = 0
            /\ status' \in {"validated", "merge_pending", "complete"}
         \/ /\ UNCHANGED status /\ ap'.at \in {"push", "plan", "merge"}
            /\ ap'.plan = ap.plan /\ ap'.pr = ap.pr /\ ap'.head = ap.head
  <2>1. \/ ap' = Merge!NoOp /\ status' \in {"validated", "merge_pending", "complete"}
        \/ UNCHANGED status /\ \E step \in {"push", "plan", "merge"} : ap' = [ap EXCEPT !.at = step]
    BY DEF Merge!StartPush, Merge!Push, Merge!PlanMerge, Merge!ApproveFinishes, Merge!Fail
  <2>2. QED
    BY <2>1, NoOperation DEF OperationTypes, Operation, Steps
<1>3. ap'.at = "push" => flying \cup auto = {}
  <2>1. CASE Merge!StartPush
    BY <2>1, NoOperation, AdmittedIsQuiet DEF Merge!StartPush, Merge!Fail
  <2>2. CASE Merge!Push
    BY <2>2, NoOperation DEF Merge!Push, Merge!Fail, OperationTypes, Operation
  <2>3. CASE Merge!PlanMerge \/ Merge!ApproveFinishes
    BY <2>3, NoOperation DEF Merge!PlanMerge, Merge!ApproveFinishes, Merge!Fail, OperationTypes, Operation
  <2>4. QED
    BY <2>1, <2>2, <2>3
<1>4. PlansExtend
  <2>1. CASE UNCHANGED plans
    BY <2>1, PlansRest
  <2>2. CASE Merge!PlanMerge
    <3>1. ap.src \in Nat
      BY DEF OperationTypes, Operation
    <3>2. QED
      BY <2>1, <2>2, <3>1, PlansAdded DEF Merge!PlanMerge
  <2>3. QED
    BY <2>1, <2>2 DEF Merge!StartPush, Merge!Push, Merge!ApproveFinishes, Merge!journalVars
<1>5. JournalTypes' /\ RequestsOpen' /\ OneRequest' /\ MergesReal'
  BY <1>1, <1>4, JournalRests, RequestsRest
<1>6. branch' \in Commit
  <2>1. CASE UNCHANGED branch
    BY <2>1 DEF HostTypes
  <2>2. CASE branch' = Merge!At(ap.src)
    BY <2>2 DEF Merge!At, Commit, OperationTypes, Operation
  <2>3. QED
    BY <2>1, <2>2 DEF Merge!StartPush, Merge!Push, Merge!PlanMerge, Merge!ApproveFinishes, Merge!hostVars
<1>7. PodTypes' /\ HostTypes'
  BY <1>1, <1>2, <1>6 DEF PodTypes, HostTypes
<1>8. OperationTypes' /\ ReadsReal'
  BY <1>1, <1>2, <1>4 DEF OperationTypes, ReadsReal, PlansExtend
<1>9. ApprovalOwns' /\ FixOwns' /\ FixAhead' /\ PushesQuiet'
  BY <1>1, <1>2, <1>3 DEF ApprovalOwns, FixOwns, FixAhead, PushesQuiet
<1>10. QED
  BY <1>5, <1>7, <1>8, <1>9

\* The approval asks the host.
LEMMA ApproveSendsKeeps == ASSUME MergeInv, Merge!ApproveSends PROVE MergeInv'
<1> USE DEF MergeInv, MergeTypes
<1>1. /\ status = "merging" /\ fx.at = "idle" /\ ap.at = "merge" /\ ap.src \in Nat
      /\ UNCHANGED <<mergeGen, own, fixes, handoffs, proved, closed, pl, fx, pr, branch, mergedHead, auto>>
  BY DEF Merge!ApproveSends, ApprovalOwns, FixOwns, OperationTypes, Operation
<1>2. CASE Merge!Fail /\ UNCHANGED <<plans, attempts, flying>>
  <2>1. PlansExtend /\ JournalTypes' /\ RequestsOpen' /\ OneRequest' /\ MergesReal'
    BY <1>1, <1>2, PlansRest, JournalRests, RequestsRest
  <2>2. PodTypes' /\ HostTypes'
    BY <1>1, <1>2 DEF PodTypes, HostTypes, Merge!Fail
  <2>3. QED
    BY <1>1, <1>2, <2>1, <2>2, NoOperation DEF Merge!Fail, OperationTypes, ReadsReal, ApprovalOwns,
       FixOwns, FixAhead, PushesQuiet
<1>3. CASE /\ Merge!MayPlan(ap.src, mergeGen) /\ Merge!Send(ap.src, mergeGen) /\ UNCHANGED status
           /\ ap' = [ap EXCEPT !.at = "waiting", !.try = Merge!Try, !.plan = Merge!PlanOf(ap.src, mergeGen)]
  <2>1. /\ JournalTypes' /\ RequestsOpen' /\ OneRequest' /\ MergesReal' /\ PlansExtend
        /\ Merge!PlanOf(ap.src, mergeGen) \in DOMAIN plans'
    BY <1>1, <1>3, SendKeeps DEF Merge!MayPlan
  <2>2. Merge!PlanOf(ap.src, mergeGen) \in Nat /\ Merge!Try \in Nat
    BY <2>1 DEF PlansExtend, Merge!Try, JournalTypes
  <2>3. /\ ap' \in Operation /\ ap'.at = "waiting" /\ ap'.plan = Merge!PlanOf(ap.src, mergeGen)
        /\ ap'.pr = ap.pr /\ ap'.head = ap.head
    BY <1>3, <2>2 DEF OperationTypes, Operation, Steps
  <2>4. PodTypes' /\ HostTypes'
    BY <1>1, <1>3 DEF PodTypes, HostTypes
  <2>5. OperationTypes' /\ ReadsReal'
    BY <1>1, <2>1, <2>3 DEF OperationTypes, ReadsReal, PlansExtend
  <2>6. QED
    BY <1>1, <1>3, <2>1, <2>3, <2>4, <2>5 DEF ApprovalOwns, FixOwns, FixAhead, PushesQuiet
<1>4. QED
  BY <1>2, <1>3 DEF Merge!ApproveSends

\* Without an answer, the approval looks once.
LEMMA ApproveReconcilesKeeps == ASSUME MergeInv, Merge!ApproveReconciles PROVE MergeInv'
<1> USE DEF MergeInv, MergeTypes
<1>1. /\ status = "merging" /\ fx.at = "idle" /\ ap.at = "reconcile" /\ ap.plan \in DOMAIN plans
      /\ UNCHANGED <<mergeGen, own, fixes, handoffs, plans, pl, fx, Merge!hostVars>>
  BY DEF Merge!ApproveReconciles, ApprovalOwns, FixOwns, OperationTypes
<1>2. \/ UNCHANGED <<attempts, proved>>
      \/ Merge!RecordMerged(ap.plan, Merge!PrHead) /\ pr = "merged" /\ Merge!Confirms(ap.plan, Merge!PrHead)
  BY DEF Merge!ApproveReconciles
<1>3. JournalTypes' /\ RequestsOpen' /\ OneRequest' /\ MergesReal'
  <2>1. CASE UNCHANGED <<attempts, proved>>
    BY <1>1, <2>1, PlansRest, JournalRests, RequestsRest DEF Merge!hostVars
  <2>2. CASE Merge!RecordMerged(ap.plan, Merge!PrHead) /\ pr = "merged" /\ Merge!Confirms(ap.plan, Merge!PrHead)
    BY <1>1, <2>2, ReadHead, RecordKeeps DEF Merge!hostVars
  <2>3. QED
    BY <1>2, <2>1, <2>2
<1>4. /\ ap' \in Operation
      /\ \/ ap'.at = "idle" /\ ap'.pr = "open" /\ ap'.plan = 0 /\ status' = "validated"
         \/ /\ UNCHANGED status /\ ap'.at = "finish"
            /\ ap'.plan = ap.plan /\ ap'.pr = ap.pr /\ ap'.head = ap.head
  <2>1. \/ ap' = Merge!NoOp /\ status' = "validated"
        \/ UNCHANGED status /\ ap' = [ap EXCEPT !.at = "finish"]
    BY DEF Merge!ApproveReconciles, Merge!Fail
  <2>2. QED
    BY <2>1, NoOperation DEF OperationTypes, Operation, Steps
<1>5. PodTypes' /\ HostTypes'
  BY <1>1, <1>4 DEF PodTypes, HostTypes, Merge!hostVars
<1>6. OperationTypes' /\ ReadsReal'
  BY <1>1, <1>4 DEF OperationTypes, ReadsReal, Merge!hostVars
<1>7. ApprovalOwns' /\ FixOwns' /\ FixAhead' /\ PushesQuiet'
  BY <1>1, <1>4 DEF ApprovalOwns, FixOwns, FixAhead, PushesQuiet, Merge!hostVars
<1>8. QED
  BY <1>3, <1>5, <1>6, <1>7
----------------------------------------------------------------------------
(* The poller.                                                               *)

\* A poll begins, or the pod has no plan.
LEMMA PollKeeps == ASSUME MergeInv, Merge!Poll PROVE MergeInv'
<1> USE DEF MergeInv, MergeTypes
<1>1. /\ status = "merge_pending" /\ ap.at = "idle" /\ pl.at = "idle"
      /\ UNCHANGED <<mergeGen, own, fixes, Merge!journalVars, ap, fx, Merge!hostVars>>
  BY DEF Merge!Poll, ApprovalOwns
<1>2. PlansExtend /\ JournalTypes' /\ RequestsOpen' /\ OneRequest' /\ MergesReal'
  BY <1>1, PlansRest, JournalRests, RequestsRest DEF Merge!journalVars, Merge!hostVars
<1>3. HostTypes'
  BY <1>1 DEF HostTypes, Merge!hostVars
<1>4. CASE Merge!Latest(mergeGen) = 0
  <2>1. status' = "failed" /\ UNCHANGED pl
    BY <1>4 DEF Merge!Poll
  <2>2. fx.at = "idle"
    BY <1>4, LatestPlan DEF FixOwns, JournalTypes
  <2>3. QED
    BY <1>1, <1>2, <1>3, <2>1, <2>2
    DEF PodTypes, OperationTypes, ReadsReal, ApprovalOwns, FixOwns, FixAhead, PushesQuiet,
      Merge!journalVars, Merge!hostVars
<1>5. CASE Merge!Latest(mergeGen) # 0
  <2> DEFINE new == [Merge!NoOp EXCEPT !.at = "read", !.gen = mergeGen, !.plan = Merge!Latest(mergeGen),
                                 !.known = Merge!LastHandoff(mergeGen), !.pr = pr, !.head = Merge!PrHead]
  <2>1. pl' = new /\ UNCHANGED status
    BY <1>5 DEF Merge!Poll
  <2>2. Merge!Latest(mergeGen) \in DOMAIN plans /\ Merge!Latest(mergeGen) \in Nat
    BY <1>5, LatestPlan DEF JournalTypes
  <2>3. /\ Merge!LastHandoff(mergeGen) \in 0..Len(handoffs) /\ Len(handoffs) \in Nat
        /\ Merge!LastHandoff(mergeGen) \in Nat /\ mergeGen \in Nat
    BY LatestHandoff DEF JournalTypes, PodTypes
  <2>4. /\ new \in Operation /\ new.at = "read" /\ new.plan = Merge!Latest(mergeGen)
           /\ new.known = Merge!LastHandoff(mergeGen)
        /\ new.pr = pr /\ new.head = Merge!PrHead
    BY <2>2, <2>3, NoOperation, ReadHead DEF Operation, Steps
  <2> HIDE DEF new
  <2>5. PodTypes'
    BY <1>1, <2>1 DEF PodTypes
  <2>6. OperationTypes' /\ ReadsReal'
    BY <1>1, <2>1, <2>2, <2>4, ReadHead DEF OperationTypes, ReadsReal, Merge!journalVars, Merge!hostVars
  <2>7. ApprovalOwns' /\ FixOwns' /\ FixAhead' /\ PushesQuiet'
    BY <1>1, <2>1, <2>3, <2>4 DEF ApprovalOwns, FixOwns, FixAhead, PushesQuiet, Merge!journalVars,
       Merge!hostVars
  <2>8. QED
    BY <1>2, <1>3, <2>5, <2>6, <2>7
<1>6. QED
  BY <1>4, <1>5

\* It finds the source of a fix on the branch.
LEMMA PollAdoptsKeeps == ASSUME MergeInv, Merge!PollAdoptsFix PROVE MergeInv'
<1> USE DEF MergeInv, MergeTypes
<1> DEFINE h == handoffs[pl.known]
<1>1. /\ pl.at = "read" /\ plans' = Merge!Plans(h.src, mergeGen)
         /\ pl' = [pl EXCEPT !.plan = Merge!PlanOf(h.src, mergeGen)]
      /\ UNCHANGED <<Merge!podVars, handoffs, attempts, proved, closed, ap, fx, Merge!hostVars>>
  BY DEF Merge!PollAdoptsFix
<1>2. h.src \in Nat
  <2>1. pl.known \in DOMAIN handoffs
    BY LatestHandoff DEF Merge!PollAdoptsFix, Merge!Unreconciled, Merge!PollCurrent, JournalTypes
  <2>2. h \in Handoff
    BY <2>1 DEF JournalTypes
  <2>3. QED
    BY <2>2 DEF Handoff
<1> HIDE DEF h
<1>3. PlansExtend /\ Merge!PlanOf(h.src, mergeGen) \in DOMAIN plans'
  BY <1>1, <1>2, PlansAdded
<1>4. Merge!PlanOf(h.src, mergeGen) \in Nat
  BY <1>3 DEF PlansExtend
<1>5. /\ pl' \in Operation /\ pl'.at = "read" /\ pl'.plan \in DOMAIN plans' /\ pl'.known = pl.known
      /\ pl'.pr = pl.pr /\ pl'.head = pl.head
  BY <1>1, <1>3, <1>4 DEF OperationTypes, Operation
<1>6. JournalTypes' /\ RequestsOpen' /\ OneRequest' /\ MergesReal'
  BY <1>1, <1>3, JournalRests, RequestsRest DEF Merge!podVars, Merge!hostVars
<1>7. PodTypes' /\ HostTypes'
  BY <1>1 DEF Merge!podVars, Merge!hostVars, PodTypes, HostTypes
<1>8. OperationTypes' /\ ReadsReal'
  BY <1>1, <1>3, <1>5 DEF OperationTypes, ReadsReal, PlansExtend, Merge!hostVars
<1>9. ApprovalOwns' /\ FixOwns' /\ FixAhead' /\ PushesQuiet'
  BY <1>1, <1>3, <1>5 DEF ApprovalOwns, FixOwns, FixAhead, PushesQuiet, PlansExtend, Merge!podVars,
     Merge!hostVars
<1>10. QED
  BY <1>6, <1>7, <1>8, <1>9

\* It acts on what it has read.
LEMMA PollReadKeeps == ASSUME MergeInv, Merge!PollRead PROVE MergeInv'
<1> USE DEF MergeInv, MergeTypes
<1>1. /\ pl.at = "read" /\ pl.plan \in DOMAIN plans
      /\ UNCHANGED <<mergeGen, own, fixes, published, handoffs, plans, ap, fx, Merge!hostVars>>
  BY DEF Merge!PollRead, OperationTypes
<1>2. \/ pl' = Merge!NoOp
      \/ \E step \in {"finish"} : pl' = [pl EXCEPT !.at = step]
      \/ fx.at = "idle" /\ pl' = [pl EXCEPT !.at = "merge", !.src = plans[pl.plan].src]
  BY DEF Merge!PollRead, Merge!EndPoll
<1>3. plans[pl.plan].src \in Nat
  <2>1. plans[pl.plan] \in Planned
    BY <1>1 DEF JournalTypes
  <2>2. QED
    BY <2>1 DEF Planned
<1>4. /\ pl' \in Operation
      /\ \/ pl'.at = "idle" /\ pl'.pr = "open"
         \/ /\ pl'.at = "finish" \/ (pl'.at = "merge" /\ fx.at = "idle")
            /\ pl'.plan = pl.plan /\ pl'.known = pl.known /\ pl'.pr = pl.pr /\ pl'.head = pl.head
  BY <1>2, <1>3, NoOperation DEF OperationTypes, Operation, Steps
<1>5. \/ UNCHANGED <<attempts, proved>>
      \/ Merge!RecordMerged(pl.plan, pl.head) /\ pl.pr = "merged" /\ Merge!Confirms(pl.plan, pl.head)
  BY DEF Merge!PollRead
<1>6. JournalTypes' /\ RequestsOpen' /\ OneRequest' /\ MergesReal'
  <2>1. CASE UNCHANGED <<attempts, proved>>
    BY <1>1, <2>1, PlansRest, JournalRests, RequestsRest DEF Merge!hostVars
  <2>2. CASE Merge!RecordMerged(pl.plan, pl.head) /\ pl.pr = "merged" /\ Merge!Confirms(pl.plan, pl.head)
    BY <1>1, <2>2, RecordKeeps DEF Merge!hostVars, ReadsReal
  <2>3. QED
    BY <1>5, <2>1, <2>2
<1>7. \/ UNCHANGED status
      \/ status' = "failed" /\ status = "merge_pending" /\ fx.at = "idle"
  BY DEF Merge!PollRead, Merge!PollCurrent, Merge!Current
<1>8. ap.at \notin {"idle", "prepare"} => UNCHANGED status
  BY <1>7 DEF ApprovalOwns
<1>9. PodTypes' /\ HostTypes'
  BY <1>1, <1>7 DEF Merge!hostVars, PodTypes, HostTypes
<1>10. OperationTypes' /\ ReadsReal'
  BY <1>1, <1>4 DEF OperationTypes, ReadsReal, Merge!hostVars
<1>11. ApprovalOwns' /\ FixOwns'
  BY <1>1, <1>7, <1>8 DEF ApprovalOwns, FixOwns
<1>12. FixAhead' /\ PushesQuiet'
  BY <1>1, <1>4 DEF FixAhead, PushesQuiet, Merge!hostVars
<1>13. QED
  BY <1>6, <1>9, <1>10, <1>11, <1>12

\* It asks the host, unless a fix has been handed over since it began.
LEMMA PollSendsKeeps == ASSUME MergeInv, Merge!PollSends PROVE MergeInv'
<1> USE DEF MergeInv, MergeTypes
<1>1. /\ pl.at = "merge" /\ pl.src \in Nat /\ pl.plan \in DOMAIN plans
      /\ UNCHANGED <<Merge!podVars, published, handoffs, proved, closed, ap, fx, pr, branch,
                     mergedHead, auto>>
  BY DEF Merge!PollSends, OperationTypes, Operation
<1>2. PodTypes' /\ HostTypes'
  BY <1>1 DEF PodTypes, HostTypes, Merge!podVars
<1>3. CASE Merge!EndPoll /\ UNCHANGED <<plans, attempts, flying>>
  <2>1. JournalTypes' /\ RequestsOpen' /\ OneRequest' /\ MergesReal'
    BY <1>1, <1>3, PlansRest, JournalRests, RequestsRest DEF Merge!podVars
  <2>2. QED
    BY <1>1, <1>2, <1>3, <2>1, NoOperation
    DEF Merge!EndPoll, OperationTypes, ReadsReal, ApprovalOwns, FixOwns, FixAhead, PushesQuiet, Merge!podVars
<1>4. CASE /\ Merge!PollCurrent /\ Merge!MayPlan(pl.src, mergeGen) /\ Merge!Send(pl.src, mergeGen)
           /\ pl' = [pl EXCEPT !.at = "waiting", !.try = Merge!Try]
  <2>1. JournalTypes' /\ RequestsOpen' /\ OneRequest' /\ MergesReal' /\ PlansExtend
    BY <1>1, <1>4, SendKeeps DEF Merge!MayPlan, Merge!podVars
  <2>2. Merge!Try \in Nat
    BY DEF Merge!Try, JournalTypes
  <2>3. /\ pl' \in Operation /\ pl'.at = "waiting" /\ pl'.plan = pl.plan /\ pl'.known = pl.known
        /\ pl'.pr = pl.pr /\ pl'.head = pl.head
    BY <1>4, <2>2 DEF OperationTypes, Operation, Steps
  <2>4. fx.at # "push"
    <3>1. ASSUME NEW i \in DOMAIN handoffs, handoffs[i].gen = mergeGen
          PROVE  ~(i > pl.known)
      <4>1. i <= Merge!LastHandoff(mergeGen) /\ Merge!LastHandoff(mergeGen) = pl.known
        BY <1>4, <3>1, LatestHandoff DEF Merge!PollCurrent, JournalTypes
      <4>2. i \in Nat /\ pl.known \in Nat
        BY DEF JournalTypes, OperationTypes, Operation
      <4>3. QED
        BY <4>1, <4>2
    <3>2. QED
      BY <1>1, <3>1 DEF FixAhead
  <2>5. ap.at # "push"
    BY <1>4 DEF ApprovalOwns, Merge!PollCurrent, Merge!Current
  <2>6. OperationTypes' /\ ReadsReal'
    BY <1>1, <2>1, <2>3 DEF OperationTypes, ReadsReal, PlansExtend
  <2>7. QED
    BY <1>1, <1>2, <2>1, <2>3, <2>4, <2>5, <2>6
    DEF ApprovalOwns, FixOwns, FixAhead, PushesQuiet, PlansExtend, Merge!podVars
<1>5. QED
  BY <1>3, <1>4 DEF Merge!PollSends

\* It reconciles, or completes the pod.
LEMMA PollEndsKeeps == ASSUME MergeInv, Merge!PollReconciles \/ Merge!PollFinishes PROVE MergeInv'
<1> USE DEF MergeInv, MergeTypes
<1>1. /\ pl.plan \in DOMAIN plans /\ pl' = Merge!NoOp
      /\ UNCHANGED <<mergeGen, own, fixes, published, handoffs, plans, ap, fx, Merge!hostVars>>
  BY DEF Merge!PollReconciles, Merge!PollFinishes, OperationTypes, Merge!EndPoll, Merge!podVars,
     Merge!journalVars
<1>2. \/ UNCHANGED <<attempts, proved>>
      \/ Merge!RecordMerged(pl.plan, Merge!PrHead) /\ pr = "merged" /\ Merge!Confirms(pl.plan, Merge!PrHead)
  BY DEF Merge!PollReconciles, Merge!PollFinishes, Merge!journalVars
<1>3. JournalTypes' /\ RequestsOpen' /\ OneRequest' /\ MergesReal'
  <2>1. CASE UNCHANGED <<attempts, proved>>
    BY <1>1, <2>1, PlansRest, JournalRests, RequestsRest DEF Merge!hostVars
  <2>2. CASE Merge!RecordMerged(pl.plan, Merge!PrHead) /\ pr = "merged" /\ Merge!Confirms(pl.plan, Merge!PrHead)
    BY <1>1, <2>2, ReadHead, RecordKeeps DEF Merge!hostVars
  <2>3. QED
    BY <1>2, <2>1, <2>2
<1>4. \/ UNCHANGED status
      \/ status' = "complete" /\ status = "merge_pending"
  BY DEF Merge!PollReconciles, Merge!PollFinishes, Merge!Current, Merge!podVars
<1>5. PodTypes' /\ HostTypes'
  BY <1>1, <1>4 DEF Merge!hostVars, PodTypes, HostTypes
<1>6. OperationTypes' /\ ReadsReal'
  BY <1>1, NoOperation DEF OperationTypes, ReadsReal, Merge!hostVars
<1>7. ApprovalOwns' /\ FixOwns'
  BY <1>1, <1>4 DEF ApprovalOwns, FixOwns
<1>8. FixAhead' /\ PushesQuiet'
  BY <1>1, NoOperation DEF FixAhead, PushesQuiet, Merge!hostVars
<1>9. QED
  BY <1>3, <1>5, <1>6, <1>7, <1>8
----------------------------------------------------------------------------
(* Fix pods.                                                                 *)

\* A fix begins, publishes what it pushed, or gives up.
LEMMA FixRests == ASSUME MergeInv, Merge!FixBegins \/ Merge!FixConfirms PROVE MergeInv'
<1> USE DEF MergeInv, MergeTypes
<1>1. UNCHANGED <<status, mergeGen, own, handoffs, attempts, proved, closed, ap, pl, Merge!hostVars>>
  BY DEF Merge!FixBegins, Merge!FixConfirms, Merge!podVars, Merge!journalVars
<1>2. PlansExtend
  <2>1. fx.at = "confirm" => fx.src \in Nat
    BY DEF OperationTypes, Operation
  <2>2. QED
    BY <2>1, PlansRest, PlansAdded DEF Merge!FixBegins, Merge!FixConfirms, Merge!journalVars
<1>3. /\ fx' \in Operation
      /\ \/ fx'.at = "idle"
         \/ /\ fx'.at = "rebase" /\ fx'.gen = mergeGen /\ status = "merge_pending"
            /\ \E i \in DOMAIN plans : plans[i].gen = mergeGen
  <2>1. CASE Merge!FixConfirms
    BY <2>1, NoOperation DEF Merge!FixConfirms
  <2>2. CASE Merge!FixBegins
    <3>1. Merge!Latest(mergeGen) \in DOMAIN plans /\ plans[Merge!Latest(mergeGen)].gen = mergeGen
          /\ Merge!Latest(mergeGen) \in Nat
      BY <2>2, LatestPlan DEF Merge!FixBegins, JournalTypes
    <3>2. Merge!NewSource \in Nat /\ mergeGen \in Nat
      BY <2>2, MergeBounds DEF Merge!FixBegins, Merge!Source, PodTypes, Merge!MergeAssumption
    <3>3. fx' \in Operation /\ fx'.at = "rebase" /\ fx'.gen = mergeGen
      BY <2>2, <3>1, <3>2, NoOperation DEF Merge!FixBegins, Operation, Steps
    <3>4. QED
      BY <2>2, <3>1, <3>3 DEF Merge!FixBegins
  <2>3. QED
    BY <2>1, <2>2
<1>4. JournalTypes' /\ RequestsOpen' /\ OneRequest' /\ MergesReal'
  BY <1>1, <1>2, JournalRests, RequestsRest DEF Merge!hostVars
<1>5. PodTypes' /\ HostTypes'
  BY <1>1 DEF Merge!hostVars, PodTypes, HostTypes
<1>6. OperationTypes' /\ ReadsReal'
  BY <1>1, <1>2, <1>3 DEF OperationTypes, ReadsReal, PlansExtend, Merge!hostVars
<1>7. ApprovalOwns' /\ FixOwns' /\ FixAhead' /\ PushesQuiet'
  BY <1>1, <1>2, <1>3 DEF ApprovalOwns, FixOwns, FixAhead, PushesQuiet, PlansExtend, Merge!hostVars
<1>8. QED
  BY <1>4, <1>5, <1>6, <1>7

\* A fix is handed over while no request can take effect, ahead of every poll underway.
LEMMA FixAdmitsKeeps == ASSUME MergeInv, Merge!FixAdmits PROVE MergeInv'
<1> USE DEF MergeInv, MergeTypes
<1>1. /\ fx.at = "rebase"
      /\ UNCHANGED <<Merge!podVars, published, plans, attempts, proved, closed, ap, pl, Merge!hostVars>>
  BY DEF Merge!FixAdmits
<1>2. PodTypes' /\ HostTypes'
  BY <1>1 DEF Merge!podVars, Merge!hostVars, PodTypes, HostTypes
<1>3. RequestsOpen' /\ OneRequest' /\ MergesReal' /\ PlansExtend
  BY <1>1, PlansRest, RequestsRest DEF Merge!podVars, Merge!hostVars
<1>4. ReadsReal'
  BY <1>1 DEF ReadsReal, Merge!hostVars
<1>5. CASE fx' = Merge!NoOp /\ UNCHANGED handoffs
  <2>1. JournalTypes'
    BY <1>1, <1>3, <1>5, JournalRests DEF Merge!hostVars
  <2>2. QED
    BY <1>1, <1>2, <1>3, <1>4, <1>5, <2>1, NoOperation
    DEF OperationTypes, ApprovalOwns, FixOwns, FixAhead, PushesQuiet, Merge!podVars, Merge!hostVars
<1>6. CASE /\ Merge!FixAllowed(fx.plan) /\ fx' = [fx EXCEPT !.at = "push"]
           /\ handoffs' = Append(handoffs, [src |-> fx.src, gen |-> mergeGen, prior |-> fx.plan])
  <2> DEFINE new == [src |-> fx.src, gen |-> mergeGen, prior |-> fx.plan]
             n == Len(handoffs)
  <2>1. new \in Handoff /\ new.gen = mergeGen
    BY DEF Handoff, OperationTypes, Operation, PodTypes
  <2>2. handoffs' = Append(handoffs, new)
    BY <1>6
  <2> HIDE DEF new
  <2>3. /\ handoffs' \in Seq(Handoff) /\ n \in Nat /\ Len(handoffs') = n + 1 /\ DOMAIN handoffs' = 1..n + 1
        /\ handoffs'[n + 1] = new
    BY <2>1, <2>2 DEF JournalTypes
  <2>4. flying \cup auto = {}
    BY <1>6, AdmittedIsQuiet DEF Merge!FixAllowed, Merge!MayPlan
  <2>5. fx' \in Operation /\ fx'.at = "push" /\ fx'.gen = fx.gen
    BY <1>6 DEF OperationTypes, Operation, Steps
  <2>6. JournalTypes'
    BY <1>1, <2>3 DEF JournalTypes, Merge!hostVars
  <2>7. OperationTypes' /\ ApprovalOwns' /\ FixOwns'
    BY <1>1, <2>5 DEF OperationTypes, ApprovalOwns, FixOwns, Merge!podVars
  <2>8. FixAhead'
    <3>1. pl.at # "idle" => pl.known \in Nat /\ pl.known <= n
      BY DEF FixAhead, OperationTypes, Operation
    <3>2. n + 1 \in DOMAIN handoffs' /\ handoffs'[n + 1].gen = mergeGen /\ mergeGen' = mergeGen
      BY <1>1, <2>1, <2>3 DEF Merge!podVars
    <3>3. pl.at # "idle" => pl.known <= n + 1 /\ n + 1 > pl.known
      BY <2>3, <3>1
    <3> HIDE DEF n
    <3>4. UNCHANGED pl
      BY <1>1
    <3>5. QED
      BY <2>3, <3>2, <3>3, <3>4 DEF FixAhead
  <2>9. PushesQuiet'
    BY <1>1, <2>4 DEF PushesQuiet, Merge!hostVars
  <2>10. QED
    BY <1>2, <1>3, <1>4, <2>6, <2>7, <2>8, <2>9
<1>7. QED
  BY <1>5, <1>6 DEF Merge!FixAdmits

\* The push of a fix.
LEMMA FixPushKeeps == ASSUME MergeInv, Merge!FixPush PROVE MergeInv'
<1> USE DEF MergeInv, MergeTypes
<1>1. UNCHANGED <<Merge!podVars, Merge!journalVars, ap, pl, pr, mergedHead, flying, auto>>
  BY DEF Merge!FixPush
<1>2. /\ fx' \in Operation
      /\ \/ fx'.at = "idle"
         \/ fx'.at = "confirm" /\ fx'.gen = fx.gen /\ fx.at # "idle"
  <2>1. fx.at = "push" /\ (fx' = Merge!NoOp \/ fx' = [fx EXCEPT !.at = "confirm"])
    BY DEF Merge!FixPush
  <2>2. QED
    BY <2>1, NoOperation DEF OperationTypes, Operation, Steps
<1>3. branch' \in Commit
  <2>1. branch' \in {branch, Merge!At(fx.src)}
    BY DEF Merge!FixPush
  <2>2. QED
    BY <2>1 DEF Merge!At, Commit, HostTypes, OperationTypes, Operation
<1>4. PlansExtend /\ JournalTypes' /\ RequestsOpen' /\ OneRequest' /\ MergesReal'
  BY <1>1, PlansRest, JournalRests, RequestsRest DEF Merge!podVars, Merge!journalVars
<1>5. PodTypes' /\ HostTypes'
  BY <1>1, <1>3 DEF Merge!podVars, PodTypes, HostTypes
<1>6. OperationTypes' /\ ReadsReal'
  BY <1>1, <1>2 DEF OperationTypes, ReadsReal, Merge!journalVars
<1>7. ApprovalOwns' /\ FixOwns' /\ FixAhead' /\ PushesQuiet'
  BY <1>1, <1>2 DEF ApprovalOwns, FixOwns, FixAhead, PushesQuiet, Merge!podVars, Merge!journalVars
<1>8. QED
  BY <1>4, <1>5, <1>6, <1>7
----------------------------------------------------------------------------
(* The host and its users, the operator and the daemon's end.                *)

\* The operation that waits for a request learns of it, goes on or ends.
OperationsGoOn ==
  /\ \/ UNCHANGED <<ap, status>>
     \/ ap.at = "waiting" /\ ap' = [ap EXCEPT !.at = "reconcile"] /\ UNCHANGED status
     \/ ap.at = "waiting" /\ ap' = [ap EXCEPT !.at = "finish"] /\ UNCHANGED status
     \/ ap.at = "waiting" /\ ap' = Merge!NoOp /\ status' = "merge_pending"
  /\ UNCHANGED pl \/ pl' = Merge!NoOp \/ (pl.at = "waiting" /\ pl' = [pl EXCEPT !.at = "reconcile"])

\* An answer is observed, and is all that changes in the journal.
LEMMA AnswerGoesOn ==
  ASSUME NEW k, NEW answer, Merge!Answer(k, answer)
  PROVE  OperationsGoOn /\ (UNCHANGED attempts \/ Merge!Seen(k, answer))
<1>1. CASE Merge!Waiter(k) = "approval"
  BY <1>1 DEF Merge!Answer, Merge!Waiter, OperationsGoOn
<1>2. CASE Merge!Waiter(k) = "poll"
  BY <1>2 DEF Merge!Answer, Merge!Waiter, OperationsGoOn, Merge!EndPoll
<1>3. CASE Merge!Waiter(k) \notin {"approval", "poll"}
  BY <1>3 DEF Merge!Answer, OperationsGoOn
<1>4. QED
  BY <1>1, <1>2, <1>3

\* Without one, nothing is.
LEMMA NoAnswerGoesOn ==
  ASSUME NEW k, Merge!NoAnswer(k)
  PROVE  OperationsGoOn /\ UNCHANGED attempts
<1>1. UNCHANGED attempts /\ UNCHANGED status
  BY DEF Merge!NoAnswer
<1>2. UNCHANGED ap \/ (ap.at = "waiting" /\ ap' = [ap EXCEPT !.at = "reconcile"])
  BY DEF Merge!NoAnswer, Merge!Waiter
<1>3. UNCHANGED pl \/ (pl.at = "waiting" /\ pl' = [pl EXCEPT !.at = "reconcile"])
  BY DEF Merge!NoAnswer, Merge!Waiter
<1>4. QED
  BY <1>1, <1>2, <1>3 DEF OperationsGoOn

\* What the host does while an operation waits keeps what the operations hold.
LEMMA HostKeeps ==
  ASSUME MergeInv, OperationsGoOn, UNCHANGED <<mergeGen, own, fixes, published, handoffs, plans,
                                               proved, fx, branch>>,
         flying' \cup auto' \subseteq flying \cup auto,
         \/ UNCHANGED <<pr, mergedHead>>
         \/ pr = "open" /\ Merge!MergeNow
  PROVE  PodTypes' /\ HostTypes' /\ OperationTypes' /\ ReadsReal' /\ ApprovalOwns' /\ FixOwns'
         /\ FixAhead' /\ PushesQuiet'
<1> USE DEF MergeInv, MergeTypes
<1>1. PodTypes' /\ HostTypes'
  BY DEF PodTypes, HostTypes, OperationsGoOn, Merge!MergeNow, PrState
<1>2. /\ ap' \in Operation
      /\ \/ UNCHANGED <<ap, status>>
         \/ /\ ap.at = "waiting" /\ ap'.at \in {"reconcile", "finish"} /\ UNCHANGED status
            /\ ap'.plan = ap.plan /\ ap'.pr = ap.pr /\ ap'.head = ap.head
         \/ ap.at = "waiting" /\ ap' = Merge!NoOp /\ status' = "merge_pending"
  <2>1. ap.at = "waiting" => ap.plan \in DOMAIN plans
    BY DEF OperationTypes
  <2>2. QED
    BY NoOperation DEF OperationsGoOn, OperationTypes, Operation, Steps
<1>3. /\ pl' \in Operation
      /\ \/ UNCHANGED pl
         \/ pl' = Merge!NoOp
         \/ /\ pl.at = "waiting" /\ pl'.at = "reconcile" /\ pl'.plan = pl.plan /\ pl'.known = pl.known
            /\ pl'.pr = pl.pr /\ pl'.head = pl.head
  BY NoOperation DEF OperationsGoOn, OperationTypes, Operation, Steps
<1>4. OperationTypes'
  BY <1>2, <1>3, NoOperation DEF OperationTypes
<1>5. ReadsReal'
  BY <1>2, <1>3, NoOperation DEF ReadsReal, Merge!MergeNow
<1>6. ApprovalOwns'
  BY <1>2, NoOperation DEF ApprovalOwns
<1>7. FixOwns'
  BY <1>2 DEF FixOwns, ApprovalOwns
<1>8. FixAhead'
  BY <1>3, NoOperation DEF FixAhead
<1>9. PushesQuiet'
  BY <1>2, NoOperation DEF PushesQuiet
<1>10. QED
  BY <1>1, <1>4, <1>5, <1>6, <1>7, <1>8, <1>9

\* While the pull request is open nothing is held for merged, and a merge shows at once.
LEMMA OpenUnmerged ==
  ASSUME MergeInv, pr = "open"
  PROVE  proved = {} /\ \A k \in DOMAIN attempts : attempts[k].seen # "merged"
BY DEF MergeInv, MergesReal, Real

\* The host answers a request.
LEMMA HostAnswersKeeps == ASSUME MergeInv, NEW k \in flying, Merge!HostAnswers(k) PROVE MergeInv'
<1> USE DEF MergeInv, MergeTypes
<1> DEFINE i == attempts[k].plan
<1>1. /\ k \in DOMAIN attempts /\ i \in DOMAIN plans /\ flying' = flying \ {k} /\ k \notin auto
      /\ UNCHANGED <<mergeGen, own, fixes, published, handoffs, plans, proved, closed, fx, branch>>
  BY DEF Merge!HostAnswers, JournalTypes, RequestsOpen
<1>2. CASE Merge!NoAnswer(k) /\ UNCHANGED <<pr, mergedHead, auto>>
  <2>1. OperationsGoOn /\ UNCHANGED attempts
    BY <1>2, NoAnswerGoesOn
  <2>2. JournalTypes' /\ RequestsOpen' /\ OneRequest' /\ MergesReal'
    <3>1. \A j : Real(j) => pr' = "merged" /\ (Merge!Contains(mergedHead, plans[j].src))'
      BY <1>1, <1>2 DEF Real, Merge!Contains
    <3>2. MergesReal'
      BY <1>1, <2>1, <3>1 DEF MergesReal, Real
    <3>3. JournalTypes' /\ RequestsOpen' /\ OneRequest'
      BY <1>1, <1>2, <2>1 DEF JournalTypes, RequestsOpen, OneRequest, Merge!OneRequest, Unanswered
    <3>4. QED
      BY <3>2, <3>3
  <2>3. QED
    BY <1>1, <1>2, <2>1, <2>2, HostKeeps
<1>3. ASSUME NEW answer \in {"merged", "refused", "scheduled"}, pr = "open", branch = Merge!At(plans[i].src),
             Merge!Answer(k, answer),
             answer = "merged" => Merge!MergeNow /\ auto' = {},
             answer # "merged" => UNCHANGED <<pr, mergedHead>>,
             answer = "refused" => UNCHANGED auto,
             answer = "scheduled" => auto' = auto \cup {k}
      PROVE  MergeInv'
  <2>1. OperationsGoOn /\ (UNCHANGED attempts \/ Merge!Seen(k, answer))
    BY <1>3, AnswerGoesOn
  <2>2. flying' \cup auto' \subseteq flying \cup auto
    BY <1>1, <1>3
  <2>3. proved = {} /\ \A l \in DOMAIN attempts : attempts[l].seen # "merged"
    BY <1>3, OpenUnmerged
  <2>4. /\ attempts' \in Seq(Attempt) /\ DOMAIN attempts' = DOMAIN attempts
        /\ \A l \in DOMAIN attempts :
             /\ attempts'[l].plan = attempts[l].plan /\ attempts'[l].recovered = attempts[l].recovered
             /\ attempts'[l].seen = attempts[l].seen \/ (l = k /\ attempts'[l].seen = answer)
    <3>1. CASE UNCHANGED attempts
      BY <3>1 DEF JournalTypes
    <3>2. CASE Merge!Seen(k, answer)
      BY <1>1, <3>2, SeenOne DEF JournalTypes, Seens
    <3>3. QED
      BY <2>1, <3>1, <3>2
  <2>5. JournalTypes'
    BY <1>1, <2>2, <2>4 DEF JournalTypes
  <2>6. OneRequest'
    BY <2>2 DEF OneRequest, Merge!OneRequest
  <2>7. RequestsOpen'
    <3>1. flying' \cap auto' = {} /\ flying' \subseteq flying \ {k} /\ auto' \subseteq auto \cup {k}
      BY <1>1, <1>3 DEF RequestsOpen
    <3>2. k \in auto' => answer = "scheduled"
      BY <1>1, <1>3
    <3>3. \A l \in flying' : (Unanswered(l) \/ attempts[l].seen = "merged")'
      <4>1. SUFFICES ASSUME NEW l \in flying' PROVE Unanswered(l)' \/ (attempts[l].seen = "merged")'
        OBVIOUS
      <4>2. l \in flying /\ l # k /\ l \in DOMAIN attempts
        BY <3>1 DEF JournalTypes
      <4>3. Unanswered(l) /\ UNCHANGED <<attempts[l].seen, attempts[l].recovered>>
        BY <2>3, <2>4, <4>2 DEF RequestsOpen
      <4>4. QED
        BY <4>3 DEF Unanswered
    <3>4. \A l \in auto' : (Unanswered(l) \/ attempts[l].seen \in {"scheduled", "merged"})'
      <4>1. SUFFICES ASSUME NEW l \in auto'
                     PROVE  Unanswered(l)' \/ (attempts[l].seen \in {"scheduled", "merged"})'
        OBVIOUS
      <4>2. l \in DOMAIN attempts
        BY <1>1, <3>1 DEF JournalTypes
      <4>3. CASE l = k
        <5>1. Unanswered(k)
          BY <1>1, <2>3 DEF RequestsOpen
        <5>2. QED
          BY <2>4, <3>2, <4>2, <4>3, <5>1 DEF Unanswered
      <4>4. CASE l # k
        <5>1. l \in auto /\ UNCHANGED <<attempts[l].seen, attempts[l].recovered>>
          BY <2>4, <3>1, <4>2, <4>4
        <5>2. QED
          BY <5>1 DEF RequestsOpen, Unanswered
      <4>5. QED
        BY <4>3, <4>4
    <3>5. QED
      BY <3>1, <3>3, <3>4 DEF RequestsOpen
  <2>8. MergesReal'
    <3>1. CASE answer = "merged"
      <4>1. pr' = "merged" /\ mergedHead'.src = plans'[attempts[k].plan].src /\ proved' = {}
        BY <1>1, <1>3, <2>3, <3>1 DEF Merge!MergeNow, Merge!At
      <4>2. \A l \in DOMAIN attempts' : attempts'[l].seen = "merged" => attempts'[l].plan = attempts[k].plan
        BY <1>1, <2>3, <2>4
      <4>3. QED
        BY <4>1, <4>2 DEF MergesReal, Real, Merge!Contains
    <3>2. CASE answer # "merged"
      BY <1>1, <2>3, <2>4, <3>2 DEF MergesReal
    <3>3. QED
      BY <3>1, <3>2
  <2>9. QED
    BY <1>1, <1>3, <2>1, <2>2, <2>5, <2>6, <2>7, <2>8, HostKeeps
<1>4. QED
  <2>1. CASE Merge!NoAnswer(k) /\ UNCHANGED <<pr, mergedHead, auto>>
    BY <1>2, <2>1
  <2>2. CASE pr = "open" /\ branch = Merge!At(plans[i].src) /\ Merge!MergeNow
        /\ Merge!Answer(k, "merged") /\ auto' = {}
    BY <1>3, <2>2
  <2>3. CASE pr = "open" /\ branch = Merge!At(plans[i].src) /\ Merge!Answer(k, "refused")
        /\ UNCHANGED <<pr, mergedHead, auto>>
    BY <1>3, <2>3
  <2>4. CASE /\ pr = "open" /\ branch = Merge!At(plans[i].src) /\ Merge!Answer(k, "scheduled") 
             /\ auto' = auto \cup {k} /\ UNCHANGED <<pr, mergedHead>>
    BY <1>3, <2>4
  <2>5. QED
    BY <2>1, <2>2, <2>3, <2>4 DEF Merge!HostAnswers

\* A request or its answer is lost.
LEMMA TimeoutKeeps == ASSUME MergeInv, NEW k \in flying, Merge!Timeout(k) PROVE MergeInv'
<1> USE DEF MergeInv, MergeTypes
<1>1. /\ flying' \in {flying, flying \ {k}}
      /\ UNCHANGED <<mergeGen, own, fixes, published, handoffs, plans, proved, closed, fx, pr, branch,
                     mergedHead, auto>>
  BY DEF Merge!Timeout
<1>2. OperationsGoOn /\ UNCHANGED attempts
  BY NoAnswerGoesOn DEF Merge!Timeout
<1>3. \A j : Real(j) => pr' = "merged" /\ (Merge!Contains(mergedHead, plans[j].src))'
  BY <1>1 DEF Real, Merge!Contains
<1>4. MergesReal'
  BY <1>1, <1>2, <1>3 DEF MergesReal, Real
<1>5. JournalTypes' /\ RequestsOpen' /\ OneRequest'
  BY <1>1, <1>2 DEF JournalTypes, RequestsOpen, OneRequest, Merge!OneRequest, Unanswered
<1>6. QED
  BY <1>1, <1>2, <1>4, <1>5, HostKeeps

\* A scheduled merge happens, or a user acts on the pull request.
LEMMA OutsideKeeps == ASSUME MergeInv, Merge!AutoMerge \/ Merge!UserActs PROVE MergeInv'
<1> USE DEF MergeInv, MergeTypes
<1>1. UNCHANGED <<Merge!podVars, Merge!journalVars, ap, pl, fx, flying>>
  BY DEF Merge!AutoMerge, Merge!UserActs
<1>2. /\ \/ UNCHANGED branch
         \/ branch' = [branch EXCEPT !.more = 1]
      /\ \/ UNCHANGED <<pr, mergedHead, auto>>
         \/ pr = "open" /\ Merge!MergeNow /\ auto' = {} /\ UNCHANGED branch
         \/ pr = "open" /\ pr' = "closed" /\ auto' = {} /\ UNCHANGED mergedHead
         \/ pr = "closed" /\ pr' = "open" /\ UNCHANGED <<mergedHead, auto>>
  BY DEF Merge!AutoMerge, Merge!UserActs, Merge!UserPushes, Merge!UserMerges, Merge!UserCloses,
     Merge!UserReopens
<1>3. HostTypes'
  <2>1. branch' \in Commit
    BY <1>2 DEF HostTypes, Commit
  <2>2. QED
    BY <1>2, <2>1 DEF HostTypes, PrState, Merge!MergeNow
<1>4. PodTypes' /\ JournalTypes' /\ OperationTypes'
  BY <1>1, <1>2 DEF PodTypes, JournalTypes, OperationTypes, Merge!podVars, Merge!journalVars
<1>5. RequestsOpen' /\ OneRequest'
  BY <1>1, <1>2 DEF RequestsOpen, OneRequest, Merge!OneRequest, Unanswered, Merge!journalVars
<1>6. CASE UNCHANGED <<pr, mergedHead>>
  <2>1. \A j : Real(j) => pr' = "merged" /\ (Merge!Contains(mergedHead, plans[j].src))'
    BY <1>1, <1>6 DEF Real, Merge!Contains, Merge!podVars, Merge!journalVars
  <2>2. MergesReal' /\ ReadsReal'
    BY <1>1, <1>6, <2>1 DEF MergesReal, ReadsReal, Real, Merge!journalVars
  <2>3. QED
    BY <1>1, <1>2, <1>3, <1>4, <1>5, <2>2
    DEF ApprovalOwns, FixOwns, FixAhead, PushesQuiet, Merge!podVars, Merge!journalVars
<1>7. CASE pr \in {"open", "closed"}
  <2>1. proved = {} /\ \A l \in DOMAIN attempts : attempts[l].seen # "merged"
    BY <1>7 DEF MergesReal, Real
  <2>2. MergesReal' /\ ReadsReal'
    BY <1>1, <1>7, <2>1 DEF MergesReal, ReadsReal, Merge!journalVars
  <2>3. QED
    BY <1>1, <1>2, <1>3, <1>4, <1>5, <2>2
    DEF ApprovalOwns, FixOwns, FixAhead, PushesQuiet, Merge!podVars, Merge!journalVars
<1>8. QED
  BY <1>2, <1>6, <1>7

\* The operator's recovery releases a request that can no longer take effect.
LEMMA RecoverKeeps == ASSUME MergeInv, Merge!Recover PROVE MergeInv'
<1> USE DEF MergeInv, MergeTypes
<1> DEFINE i == Merge!Latest(mergeGen)
           k == Merge!MaxOf(Merge!Attempts(i))
           new == [attempts[k] EXCEPT !.recovered = TRUE]
<1>1. /\ Merge!Entry(i) = "admitted" /\ k \notin flying \cup auto /\ attempts' = [attempts EXCEPT ![k] = new]
      /\ UNCHANGED <<Merge!podVars, published, handoffs, plans, proved, closed, ap, pl, fx, Merge!hostVars>>
  BY DEF Merge!Recover
<1>2. k \in DOMAIN attempts
  <2>1. Merge!Attempts(i) # {}
    BY <1>1 DEF Merge!Entry
  <2>2. Merge!Attempts(i) \subseteq DOMAIN attempts /\ attempts \in Seq(Attempt)
    BY DEF Merge!Attempts, JournalTypes
  <2>3. k \in Merge!Attempts(i)
    BY <2>1, <2>2, LastPlace
  <2>4. QED
    BY <2>2, <2>3
<1> HIDE DEF k
<1>3. new \in Attempt /\ new.plan = attempts[k].plan /\ new.seen = attempts[k].seen
  <2>1. attempts[k] \in Attempt
    BY <1>2 DEF JournalTypes
  <2>2. QED
    BY <2>1 DEF Attempt
<1> HIDE DEF new
<1>4. /\ attempts' \in Seq(Attempt) /\ DOMAIN attempts' = DOMAIN attempts
      /\ \A l \in DOMAIN attempts : /\ attempts'[l].plan = attempts[l].plan /\ attempts'[l].seen = attempts[l].seen
                                    /\ l # k => attempts'[l] = attempts[l]
  BY <1>1, <1>2, <1>3 DEF JournalTypes
<1>5. JournalTypes' /\ RequestsOpen' /\ OneRequest'
  BY <1>1, <1>4 DEF JournalTypes, RequestsOpen, OneRequest, Merge!OneRequest, Unanswered, Merge!hostVars
<1>6. MergesReal'
  <2>1. \A j : Real(j) => pr' = "merged" /\ (Merge!Contains(mergedHead, plans[j].src))'
    BY <1>1 DEF Real, Merge!Contains, Merge!podVars, Merge!hostVars
  <2>2. QED
    BY <1>1, <1>4, <2>1 DEF MergesReal, Real, Merge!hostVars
<1>7. QED
  BY <1>1, <1>5, <1>6
  DEF PodTypes, HostTypes, OperationTypes, ReadsReal, ApprovalOwns, FixOwns, FixAhead, PushesQuiet,
    Merge!podVars, Merge!hostVars

\* The pod is revalidated or reworked, or the daemon ends.
LEMMA PodRestartKeeps == ASSUME MergeInv, Merge!Resume \/ Merge!Rework \/ Merge!Crash PROVE MergeInv'
<1> USE DEF MergeInv, MergeTypes
<1>1. UNCHANGED <<Merge!journalVars, Merge!hostVars>> /\ PlansExtend
  BY PlansRest DEF Merge!Resume, Merge!Rework, Merge!Crash, Merge!journalVars
<1>2. own \subseteq own' /\ PodTypes'
  <2>1. own \subseteq own' /\ own' \subseteq Merge!Source
    BY DEF Merge!Resume, Merge!Rework, Merge!Crash, Merge!podVars, PodTypes
  <2>2. /\ mergeGen' \in Nat 
        /\ status' \in {"validated", "merging", "merge_pending", "complete", "failed"}
    BY DEF Merge!Resume, Merge!Rework, Merge!Crash, Merge!podVars, PodTypes
  <2>3. QED
    BY <2>1, <2>2 DEF PodTypes
<1>3. JournalTypes' /\ RequestsOpen' /\ OneRequest' /\ MergesReal'
  BY <1>1, <1>2, JournalRests, RequestsRest DEF Merge!journalVars, Merge!hostVars
<1>4. HostTypes'
  BY <1>1 DEF HostTypes, Merge!hostVars
<1>5. CASE Merge!Resume \/ Merge!Rework
  <2>1. /\ status \in {"validated", "failed"} /\ status' = "validated" /\ UNCHANGED <<ap, pl, fx>>
        /\ fx.at = "idle" /\ ap.at \in {"idle", "prepare"}
    BY <1>5 DEF Merge!Resume, Merge!Rework, FixOwns, ApprovalOwns
  <2>2. QED
    BY <1>1, <1>2, <1>3, <1>4, <2>1
    DEF OperationTypes, ReadsReal, ApprovalOwns, FixOwns, FixAhead, PushesQuiet, Merge!journalVars, Merge!hostVars
<1>6. CASE Merge!Crash
  <2>1. ap' = Merge!NoOp /\ pl' = Merge!NoOp /\ fx' = Merge!NoOp
    BY <1>6 DEF Merge!Crash
  <2>2. QED
    BY <1>2, <1>3, <1>4, <2>1, NoOperation
    DEF OperationTypes, ReadsReal, ApprovalOwns, FixOwns, FixAhead, PushesQuiet
<1>7. QED
  BY <1>5, <1>6
----------------------------------------------------------------------------
(* The theorems.                                                             *)

\* Nothing has been asked.
LEMMA InitMerge == Merge!Init => MergeInv
<1> SUFFICES ASSUME Merge!Init PROVE MergeInv
  OBVIOUS
<1>1. /\ attempts = <<>> /\ plans = <<>> /\ handoffs = <<>> /\ proved = {} /\ flying = {} /\ auto = {}
      /\ DOMAIN attempts = {} /\ DOMAIN plans = {} /\ DOMAIN handoffs = {}
      /\ attempts \in Seq(Attempt) /\ plans \in Seq(Planned) /\ handoffs \in Seq(Handoff)
  BY DEF Merge!Init
<1>2. PodTypes /\ HostTypes
  BY MergeBounds DEF Merge!Init, Merge!MergeAssumption, PodTypes, HostTypes, Merge!Source, PrState,
     Commit, Merge!NoHead
<1>3. JournalTypes /\ RequestsOpen /\ OneRequest /\ MergesReal
  BY <1>1 DEF JournalTypes, RequestsOpen, OneRequest, Merge!OneRequest, MergesReal
<1>4. OperationTypes /\ ReadsReal /\ ApprovalOwns /\ FixOwns /\ FixAhead /\ PushesQuiet
  BY NoOperation DEF Merge!Init, OperationTypes, ReadsReal, ApprovalOwns, FixOwns, FixAhead, PushesQuiet
<1>5. QED
  BY <1>2, <1>3, <1>4 DEF MergeInv, MergeTypes

\* Every step keeps the invariant.
LEMMA StepMerge == MergeInv /\ [Merge!Next]_Merge!mergeVars => MergeInv'
<1> SUFFICES ASSUME MergeInv, [Merge!Next]_Merge!mergeVars PROVE MergeInv'
  OBVIOUS
<1>1. CASE Merge!Approve
  BY <1>1, ApproveKeeps
<1>2. CASE Merge!ApprovalStep
  BY <1>2, PrepareKeeps, ApprovalRests, ApproveSendsKeeps, ApproveReconcilesKeeps DEF Merge!ApprovalStep
<1>3. CASE Merge!PollStep
  BY <1>3, PollKeeps, PollAdoptsKeeps, PollReadKeeps, PollSendsKeeps, PollEndsKeeps DEF Merge!PollStep
<1>4. CASE Merge!FixBegins \/ Merge!FixStep
  BY <1>4, FixRests, FixAdmitsKeeps, FixPushKeeps DEF Merge!FixStep
<1>5. CASE Merge!HostStep \/ Merge!UserActs
  BY <1>5, HostAnswersKeeps, TimeoutKeeps, OutsideKeeps DEF Merge!HostStep
<1>6. CASE Merge!Recover \/ Merge!Resume \/ Merge!Rework \/ Merge!Crash
  BY <1>6, RecoverKeeps, PodRestartKeeps
<1>7. CASE UNCHANGED Merge!mergeVars
  <2>1. UNCHANGED <<status, mergeGen, own, fixes, published, handoffs, plans, attempts, proved, closed,
                    ap, pl, fx,
                    pr, branch, mergedHead, flying, auto>>
    BY <1>7 DEF Merge!mergeVars, Merge!podVars, Merge!journalVars, Merge!hostVars
  <2>2. PlansExtend
    BY <2>1, PlansRest
  <2>3. JournalTypes' /\ RequestsOpen' /\ OneRequest' /\ MergesReal'
    BY <2>1, <2>2, JournalRests, RequestsRest
  <2>4. QED
    BY <2>1, <2>3 DEF MergeInv, MergeTypes, PodTypes, HostTypes, OperationTypes, ReadsReal, ApprovalOwns,
                      FixOwns, FixAhead, PushesQuiet
<1>8. QED
  BY <1>1, <1>2, <1>3, <1>4, <1>5, <1>6, <1>7 DEF Merge!Next

\* The invariant holds of every behaviour.
LEMMA MergeInvHolds == Merge!Spec => []MergeInv
<1>1. Merge!Init => MergeInv
  BY InitMerge
<1>2. MergeInv /\ [Merge!Next]_Merge!mergeVars => MergeInv'
  BY StepMerge
<1>3. QED
  BY <1>1, <1>2, PTL DEF Merge!Spec

\* Of all merge requests ever sent, at most one can still take effect: across approvals, polls,
\* fixes, generations, crashes and the operator's recovery.
THEOREM MergeOneRequest == Merge!Spec => []OneRequest
<1>1. MergeInv => OneRequest
  BY DEF MergeInv
<1>2. QED
  BY <1>1, MergeInvHolds, PTL

\* The journal holds for merged what the host has merged.
THEOREM MergeMergedIsReal == Merge!Spec => []MergedIsReal
<1>1. MergeInv => MergedIsReal
  <2> SUFFICES ASSUME MergeInv, NEW i \in DOMAIN plans, Merge!Entry(i) = "merged" PROVE Real(i)
    BY DEF MergedIsReal, Merge!MergedIsReal, Real
  <2>1. attempts \in Seq(Attempt)
    BY DEF MergeInv, MergeTypes, JournalTypes
  <2>2. i \in proved \/ \E k \in DOMAIN attempts : attempts[k].plan = i /\ attempts[k].seen = "merged"
    BY <2>1, MergedEntry DEF Merge!Attempts
  <2>3. QED
    BY <2>2 DEF MergeInv, MergesReal
<1>2. QED
  BY <1>1, MergeInvHolds, PTL

\* While a request can take effect, a push keeps the source it would merge.
LEMMA SparesStep == MergeInv /\ [Merge!Next]_Merge!mergeVars => [Merge!SparesRequests]_mergeVars
<1> SUFFICES ASSUME MergeInv, Merge!Next, flying \cup auto # {}, branch' # branch PROVE branch'.src = branch.src
  BY DEF Merge!SparesRequests, mergeVars, Merge!mergeVars, Merge!podVars, Merge!journalVars, Merge!hostVars,
         Merge!boundVars
<1>1. CASE Merge!UserActs
  BY <1>1 DEF Merge!UserActs, Merge!UserPushes, Merge!UserMerges, Merge!UserCloses, Merge!UserReopens,
     MergeInv, MergeTypes, HostTypes, Commit
<1>2. ap.at # "push" /\ fx.at # "push"
  BY DEF MergeInv, PushesQuiet
<1>3. CASE Merge!Approve \/ Merge!ApprovalStep
  BY <1>2, <1>3 DEF Merge!Approve, Merge!ApprovalStep, Merge!Prepare, Merge!StartPush, Merge!Push,
     Merge!PlanMerge, Merge!ApproveSends,
                    Merge!ApproveReconciles, Merge!ApproveFinishes, Merge!hostVars
<1>4. CASE Merge!PollStep
  BY <1>4 DEF Merge!PollStep, Merge!Poll, Merge!PollAdoptsFix, Merge!PollRead, Merge!PollSends,
     Merge!PollReconciles, Merge!PollFinishes, Merge!hostVars
<1>5. CASE Merge!FixBegins \/ Merge!FixStep
  BY <1>2, <1>5 DEF Merge!FixBegins, Merge!FixStep, Merge!FixAdmits, Merge!FixPush, Merge!FixConfirms,
     Merge!hostVars
<1>6. CASE Merge!HostStep
  BY <1>6 DEF Merge!HostStep, Merge!HostAnswers, Merge!Timeout, Merge!AutoMerge
<1>7. CASE Merge!Recover \/ Merge!Resume \/ Merge!Rework \/ Merge!Crash
  BY <1>7 DEF Merge!Recover, Merge!Resume, Merge!Rework, Merge!Crash, Merge!hostVars
<1>8. QED
  BY <1>1, <1>3, <1>4, <1>5, <1>6, <1>7 DEF Merge!Next

\* So no push of the daemon replaces what a request underway would merge, not even a forced one.
THEOREM MergeSparesRequests == Merge!Spec => PushesSpareRequests
<1>1. MergeInv /\ [Merge!Next]_Merge!mergeVars => [Merge!SparesRequests]_mergeVars
  BY SparesStep
<1>2. QED
  BY <1>1, MergeInvHolds, PTL DEF Merge!Spec, PushesSpareRequests
----------------------------------------------------------------------------
(* The bounds of the journal.                                                 *)

\* A head of the branch: a commit that was offered, and whether a user has built on it.
HeadTo == [src : 0..MaxSource, more : 0..1]

\* No operation names a generation, a commit or a request past its bound.
Within(o) == o.gen <= MaxGen /\ o.src <= MaxSource /\ o.try <= MaxSends /\ o.head \in HeadTo /\ o.plan \in Nat

Numbers ==
  /\ mergeGen \in 1..MaxGen /\ closed \in BOOLEAN
  /\ lostAnswers \in 0..MaxLost /\ ends \in 0..MaxCrashes /\ Len(attempts) <= MaxSends

\* Commits are numbered as they come, each of the pod or of a fix.
Sources == own \cap fixes = {} /\ \E n \in 1..MaxSource : own \cup fixes = 1..n

\* A plan is of a published source, and in the journal once.
Delivered ==
  /\ published \subseteq [src : Merge!Source, gen : 1..MaxGen]
  /\ \A i \in DOMAIN plans : plans[i] \in published
  /\ \A i, j \in DOMAIN plans : plans[i] = plans[j] => i = j

\* A fix is handed over once.
HandedOver ==
  /\ \A i \in DOMAIN handoffs : handoffs[i] \in [src : fixes, gen : 1..MaxGen, prior : DOMAIN plans]
  /\ \A i, j \in DOMAIN handoffs : handoffs[i].src = handoffs[j].src => i = j
  /\ fx.at = "rebase" => \A i \in DOMAIN handoffs : handoffs[i].src # fx.src

Heads == branch \in HeadTo /\ mergedHead \in HeadTo

ApprovalKnows ==
  /\ Within(ap) /\ ap.known = 0
  /\ ap.at \in {"publish", "push", "plan", "merge"} => ap.src \in Merge!Source

PollKnows ==
  /\ Within(pl) /\ (pl.at = "idle" => pl = Merge!NoOp)
  /\ pl.at = "merge" => pl.src \in Merge!Source

FixKnows ==
  /\ Within(fx) /\ fx.known = 0 /\ (fx.at = "idle" => fx = Merge!NoOp)
  /\ fx.at # "idle" => fx.src \in fixes /\ fx.plan \in DOMAIN plans

BoundInv ==
  /\ Numbers /\ Sources /\ Delivered /\ HandedOver /\ Heads
  /\ ApprovalKnows /\ PollKnows /\ FixKnows

\* The bounds, as numbers.
LEMMA BoundNumbers ==
  /\ MaxGen \in Nat \ {0} /\ MaxSource \in Nat \ {0} /\ MaxSends \in Nat /\ MaxLost \in Nat /\ MaxCrashes \in Nat
  /\ Merge!Source = 1..MaxSource
BY MergeBounds DEF Merge!MergeAssumption, Merge!Source

\* Nothing is known to an operation that is not underway.
LEMMA NothingKnown ==
  /\ Within(Merge!NoOp) /\ Merge!NoOp.at = "idle" /\ Merge!NoOp.known = 0 /\ Merge!NoOp.plan = 0
  /\ Merge!NoOp.src = 0
BY BoundNumbers DEF Within, Merge!NoOp, Merge!NoHead, HeadTo

\* The instance counts as the library does.
LEMMA SameCount ==
  ASSUME NEW S
  PROVE  Merge!Cardinality(S) = Cardinality(S)
BY DEF Merge!Cardinality, Cardinality

\* The commits of the pod and of the fixes, and the next one.
LEMMA CommitsNumbered ==
  ASSUME Sources
  PROVE  /\ own \subseteq Merge!Source /\ fixes \subseteq Merge!Source /\ Merge!NewSource \notin own \cup fixes
         /\ Merge!NewSource \in Merge!Source =>
              \E n \in 1..MaxSource : (own \cup fixes) \cup {Merge!NewSource} = 1..n
<1>1. PICK n \in 1..MaxSource : own \cup fixes = 1..n
  BY DEF Sources
<1>2. n \in Nat /\ n <= MaxSource /\ MaxSource \in Nat
  BY BoundNumbers
<1>3. Cardinality(1..n) = n
  BY <1>1, <1>2, FS_Interval
<1>4. Merge!NewSource = n + 1
  <2> DEFINE all == own \cup fixes
  <2>1. all = 1..n
    BY <1>1
  <2>2. Merge!NewSource = Cardinality(all) + 1
    BY SameCount DEF Merge!NewSource
  <2> HIDE DEF all
  <2>3. QED
    BY <1>3, <2>1, <2>2
<1>5. (1..n) \cup {n + 1} = 1..(n + 1)
  BY <1>2
<1>6. QED
  BY <1>1, <1>2, <1>4, <1>5, BoundNumbers

\* The pod's last commit is one of its own.
LEMMA MineIsOwn == ASSUME MergeInv PROVE Merge!Mine \in own /\ Merge!Mine \in Merge!Source
<1>1. own \subseteq 0..MaxSource /\ own # {} /\ own \subseteq Merge!Source
  BY BoundNumbers DEF MergeInv, MergeTypes, PodTypes
<1>2. QED
  BY <1>1, Greatest, BoundNumbers DEF Merge!Mine

\* The pull request's head.
LEMMA HeadRead == ASSUME Heads PROVE Merge!PrHead \in HeadTo
BY DEF Heads, Merge!PrHead

\* A source as a head.
LEMMA SourceHead == ASSUME NEW s \in Merge!Source PROVE Merge!At(s) \in HeadTo
BY BoundNumbers DEF Merge!At, HeadTo

\* A plan that is there already is not added again.
LEMMA PlansApart ==
  ASSUME plans \in Seq(Planned), NEW s \in Nat, NEW g \in Nat,
         \A i, j \in DOMAIN plans : plans[i] = plans[j] => i = j
  PROVE  LET q == Merge!Plans(s, g) IN
         /\ \A i, j \in DOMAIN q : q[i] = q[j] => i = j
         /\ \A i \in DOMAIN q : q[i] = Merge!Plan(s, g) \/ \E j \in DOMAIN plans : q[i] = plans[j]
<1> DEFINE new == Merge!Plan(s, g)
<1>1. new \in Planned /\ Len(plans) \in Nat /\ DOMAIN plans = 1..Len(plans)
  BY DEF Merge!Plan, Planned
<1>2. CASE \E i \in DOMAIN plans : plans[i] = new
  BY <1>2 DEF Merge!Plans
<1>3. CASE ~\E i \in DOMAIN plans : plans[i] = new
  <2>1. Merge!Plans(s, g) = Append(plans, new)
    BY <1>3 DEF Merge!Plans
  <2> HIDE DEF new
  <2> DEFINE q == Append(plans, new)
  <2>2. /\ DOMAIN q = 1..Len(plans) + 1
        /\ q[Len(plans) + 1] = new /\ \A i \in DOMAIN plans : q[i] = plans[i]
    BY <1>1
  <2>3. \A i \in DOMAIN q : i \in DOMAIN plans \/ i = Len(plans) + 1
    BY <1>1, <2>2
  <2> HIDE DEF q
  <2>4. \A i, j \in DOMAIN q : q[i] = q[j] => i = j
    BY <1>3, <2>2, <2>3
  <2>5. \A i \in DOMAIN q : q[i] = new \/ \E j \in DOMAIN plans : q[i] = plans[j]
    BY <2>2, <2>3
  <2>6. Merge!Plans(s, g) = q
    BY <2>1 DEF q
  <2>7. QED
    BY <2>4, <2>5, <2>6 DEF new
<1>4. QED
  BY <1>2, <1>3
----------------------------------------------------------------------------
(* What steps keep of it.                                                     *)

\* Nothing has been numbered but the pod's first commit.
LEMMA InitBound == Merge!Init => BoundInv
<1>1. SUFFICES ASSUME Merge!Init PROVE BoundInv
  OBVIOUS
<1>2. /\ mergeGen = 1 /\ own = {1} /\ fixes = {} /\ published = {} /\ handoffs = <<>> /\ plans = <<>>
      /\ attempts = <<>> /\ closed = FALSE /\ lostAnswers = 0 /\ ends = 0
      /\ ap = Merge!NoOp /\ pl = Merge!NoOp /\ fx = Merge!NoOp
      /\ branch = [src |-> 1, more |-> 0] /\ mergedHead = Merge!NoHead
  BY <1>1 DEF Merge!Init
<1>3. Numbers
  <2>1. Len(attempts) = 0 /\ closed \in BOOLEAN
    BY <1>2
  <2>2. QED
    BY <1>2, <2>1, BoundNumbers DEF Numbers
<1>4. Sources
  <2>1. own \cup fixes = 1..1 /\ 1 \in 1..MaxSource
    BY <1>2, BoundNumbers
  <2>2. QED
    BY <1>2, <2>1 DEF Sources
<1>5. Delivered /\ HandedOver
  BY <1>2, NothingKnown DEF Delivered, HandedOver
<1>6. Heads
  BY <1>2, BoundNumbers DEF Heads, HeadTo, Merge!NoHead
<1>7. ApprovalKnows /\ PollKnows /\ FixKnows
  BY <1>2, NothingKnown DEF ApprovalKnows, PollKnows, FixKnows
<1>8. QED
  BY <1>3, <1>4, <1>5, <1>6, <1>7 DEF BoundInv

\* A fix begins, or a rework ends, with a new commit.
LEMMA SourcesKept ==
  ASSUME MergeInv, BoundInv, [Merge!Next]_Merge!mergeVars
  PROVE  Sources' /\ fixes \subseteq fixes'
<1>1. CASE UNCHANGED <<own, fixes>>
  BY <1>1 DEF BoundInv, Sources
<1>2. CASE Merge!FixBegins
  BY <1>2, CommitsNumbered DEF Merge!FixBegins, BoundInv, Sources
<1>3. CASE Merge!Rework
  <2>1. UNCHANGED fixes /\ (own' = own \/ (Merge!NewSource \in Merge!Source /\ own' = own \cup {Merge!NewSource}))
    BY <1>3 DEF Merge!Rework
  <2>2. QED
    BY <2>1, CommitsNumbered DEF BoundInv, Sources
<1>4. CASE Merge!Approve \/ Merge!ApprovalStep \/ Merge!PollStep
  BY <1>1, <1>4 DEF Merge!Approve, Merge!ApprovalStep, Merge!Prepare, Merge!StartPush, Merge!Push, Merge!PlanMerge,
     Merge!ApproveSends, Merge!ApproveReconciles, Merge!ApproveFinishes, Merge!PollStep, Merge!Poll,
     Merge!PollAdoptsFix, Merge!PollRead, Merge!PollSends, Merge!PollReconciles, Merge!PollFinishes, Merge!podVars
<1>5. CASE Merge!FixStep \/ Merge!HostStep \/ Merge!UserActs
  BY <1>1, <1>5 DEF Merge!FixStep, Merge!FixAdmits, Merge!FixPush, Merge!FixConfirms, Merge!HostStep,
     Merge!HostAnswers, Merge!Timeout, Merge!AutoMerge, Merge!UserActs, Merge!podVars
<1>6. CASE Merge!Recover \/ Merge!Resume \/ Merge!Crash \/ UNCHANGED Merge!mergeVars
  BY <1>1, <1>6 DEF Merge!Recover, Merge!Resume, Merge!Crash, Merge!mergeVars, Merge!podVars
<1>7. QED
  BY <1>2, <1>3, <1>4, <1>5, <1>6 DEF Merge!Next

\* A source is published before it is planned, and planned once.
LEMMA DeliveredKept ==
  ASSUME MergeInv, BoundInv, [Merge!Next]_Merge!mergeVars
  PROVE  Delivered' /\ DOMAIN plans \subseteq DOMAIN plans'
<1> USE DEF BoundInv
<1>0. /\ mergeGen \in 1..MaxGen /\ mergeGen \in Nat /\ Merge!Source \subseteq Nat /\ plans \in Seq(Planned)
      /\ fixes \subseteq Merge!Source /\ handoffs \in Seq(Handoff)
  BY BoundNumbers, CommitsNumbered DEF Numbers, MergeInv, MergeTypes, JournalTypes
<1>1. ASSUME NEW s \in Merge!Source, published' \in {published, published \cup {Merge!Plan(s, mergeGen)}},
             plans' = plans \/ (Merge!Plan(s, mergeGen) \in published' /\ plans' = Merge!Plans(s, mergeGen))
      PROVE  Delivered' /\ DOMAIN plans \subseteq DOMAIN plans'
  <2>1. Merge!Plan(s, mergeGen) \in [src : Merge!Source, gen : 1..MaxGen]
    BY <1>0 DEF Merge!Plan
  <2>2. published' \subseteq [src : Merge!Source, gen : 1..MaxGen] /\ published \subseteq published'
    BY <1>1, <2>1 DEF Delivered
  <2>3. CASE plans' = plans
    BY <2>2, <2>3 DEF Delivered
  <2>4. CASE Merge!Plan(s, mergeGen) \in published' /\ plans' = Merge!Plans(s, mergeGen)
    <3>1. /\ \A i, j \in DOMAIN plans' : plans'[i] = plans'[j] => i = j
          /\ \A i \in DOMAIN plans' :
               plans'[i] = Merge!Plan(s, mergeGen) \/ \E j \in DOMAIN plans : plans'[i] = plans[j]
          /\ DOMAIN plans \subseteq DOMAIN plans'
      <4>1. s \in Nat /\ \A i, j \in DOMAIN plans : plans[i] = plans[j] => i = j
        BY <1>0 DEF Delivered
      <4>2. DOMAIN plans \subseteq DOMAIN Merge!Plans(s, mergeGen)
        BY <1>0, <4>1, PlansGrow
      <4> HIDE DEF BoundInv
      <4>3. LET q == Merge!Plans(s, mergeGen) IN
            /\ \A i, j \in DOMAIN q : q[i] = q[j] => i = j
            /\ \A i \in DOMAIN q : q[i] = Merge!Plan(s, mergeGen) \/ \E j \in DOMAIN plans : q[i] = plans[j]
        BY <1>0, <4>1, PlansApart
      <4>4. QED
        BY <2>4, <4>2, <4>3
    <3>2. QED
      BY <2>2, <2>4, <3>1 DEF Delivered
  <2>5. QED
    BY <1>1, <2>3, <2>4
<1>2. CASE UNCHANGED <<published, plans>>
  BY <1>2 DEF Delivered
<1>3. CASE Merge!Push
  <2>1. ap.src \in Merge!Source /\ UNCHANGED plans
    BY <1>3 DEF Merge!Push, ApprovalKnows
  <2>2. published' \in {published, published \cup {Merge!Plan(ap.src, mergeGen)}}
    BY <1>3 DEF Merge!Push
  <2>3. QED
    BY <1>1, <2>1, <2>2
<1>4. CASE Merge!PlanMerge \/ Merge!ApproveSends
  <2>1. ap.src \in Merge!Source /\ UNCHANGED published
    BY <1>4 DEF Merge!PlanMerge, Merge!ApproveSends, ApprovalKnows
  <2>2. plans' = plans \/ (Merge!Plan(ap.src, mergeGen) \in published /\ plans' = Merge!Plans(ap.src, mergeGen))
    BY <1>4 DEF Merge!PlanMerge, Merge!ApproveSends, Merge!Send, Merge!MayPlan, Merge!Plan
  <2>3. QED
    BY <1>1, <2>1, <2>2
<1>5. CASE Merge!PollSends
  <2>1. pl.src \in Merge!Source /\ UNCHANGED published
    BY <1>5 DEF Merge!PollSends, PollKnows
  <2>2. plans' = plans \/ (Merge!Plan(pl.src, mergeGen) \in published /\ plans' = Merge!Plans(pl.src, mergeGen))
    BY <1>5 DEF Merge!PollSends, Merge!Send, Merge!MayPlan, Merge!Plan
  <2>3. QED
    BY <1>1, <2>1, <2>2
<1>6. CASE Merge!PollAdoptsFix
  <2> DEFINE h == handoffs[pl.known]
  <2>1. pl.known = Merge!LastHandoff(mergeGen) /\ Merge!LastHandoff(mergeGen) # 0
    BY <1>6 DEF Merge!PollAdoptsFix, Merge!PollCurrent, Merge!Unreconciled
  <2>2. pl.known \in DOMAIN handoffs
    BY <1>0, <2>1, LatestHandoff
  <2>3. h.src \in Merge!Source
    BY <1>0, <2>2 DEF HandedOver
  <2>4. published' = published \cup {Merge!Plan(h.src, mergeGen)} /\ plans' = Merge!Plans(h.src, mergeGen)
    BY <1>6 DEF Merge!PollAdoptsFix
  <2> HIDE DEF h
  <2>5. QED
    BY <1>1, <2>3, <2>4
<1>7. CASE Merge!FixConfirms
  <2>1. fx.src \in Merge!Source
    BY <1>0, <1>7 DEF Merge!FixConfirms, FixKnows
  <2>2. \/ UNCHANGED <<published, plans>>
        \/ /\ published' = published \cup {Merge!Plan(fx.src, mergeGen)}
           /\ plans' = plans \/ plans' = Merge!Plans(fx.src, mergeGen)
    BY <1>7 DEF Merge!FixConfirms
  <2>3. QED
    BY <1>1, <1>2, <2>1, <2>2
<1>8. CASE Merge!Approve \/ Merge!Prepare \/ Merge!StartPush \/ Merge!ApproveReconciles \/ Merge!ApproveFinishes
  BY <1>2, <1>8 DEF Merge!Approve, Merge!Prepare, Merge!Refuse, Merge!Proceed, Merge!StartPush,
     Merge!ApproveReconciles, Merge!ApproveFinishes, Merge!journalVars
<1>9. CASE Merge!Poll \/ Merge!PollRead \/ Merge!PollReconciles \/ Merge!PollFinishes \/ Merge!FixBegins
           \/ Merge!FixAdmits \/ Merge!FixPush
  BY <1>2, <1>9 DEF Merge!Poll, Merge!PollRead, Merge!PollReconciles, Merge!PollFinishes, Merge!FixBegins,
     Merge!FixAdmits, Merge!FixPush, Merge!journalVars
<1>10. CASE Merge!HostStep \/ Merge!UserActs
  BY <1>2, <1>10 DEF Merge!HostStep, Merge!HostAnswers, Merge!Timeout, Merge!AutoMerge, Merge!UserActs,
     Merge!journalVars
<1>11. CASE Merge!Recover \/ Merge!Resume \/ Merge!Rework \/ Merge!Crash \/ UNCHANGED Merge!mergeVars
  BY <1>2, <1>11 DEF Merge!Recover, Merge!Resume, Merge!Rework, Merge!Crash, Merge!mergeVars, Merge!journalVars
<1>12. QED
  BY <1>3, <1>4, <1>5, <1>6, <1>7, <1>8, <1>9, <1>10, <1>11
  DEF Merge!Next, Merge!ApprovalStep, Merge!PollStep, Merge!FixStep

\* A fix is handed over by the delivery that begins its push, and only there.
LEMMA HandedOverKept ==
  ASSUME MergeInv, BoundInv, [Merge!Next]_Merge!mergeVars
  PROVE  HandedOver'
<1>0. /\ fixes \subseteq fixes' /\ DOMAIN plans \subseteq DOMAIN plans' /\ fixes \subseteq Merge!Source
      /\ mergeGen \in 1..MaxGen /\ handoffs \in Seq(Handoff) /\ HandedOver
  BY SourcesKept, DeliveredKept, CommitsNumbered DEF BoundInv, Numbers, MergeInv, MergeTypes, JournalTypes
<1>1. ASSUME UNCHANGED handoffs, fx'.at = "rebase" => UNCHANGED fx PROVE HandedOver'
  <2>1. \A i \in DOMAIN handoffs : handoffs[i] \in [src : fixes', gen : 1..MaxGen, prior : DOMAIN plans']
    BY <1>0 DEF HandedOver
  <2>2. QED
    BY <1>0, <1>1, <2>1 DEF HandedOver
<1>2. CASE Merge!FixBegins
  <2>1. UNCHANGED handoffs /\ fx'.src = Merge!NewSource /\ Merge!NewSource \notin fixes
    BY <1>2, CommitsNumbered DEF Merge!FixBegins, Merge!journalVars, Merge!NoOp, BoundInv
  <2>2. \A i \in DOMAIN handoffs : /\ handoffs[i] \in [src : fixes', gen : 1..MaxGen, prior : DOMAIN plans']
                                   /\ handoffs[i].src # Merge!NewSource
    BY <1>0, <2>1 DEF HandedOver
  <2>3. QED
    BY <1>0, <2>1, <2>2 DEF HandedOver
<1>3. CASE Merge!FixAdmits
  <2> DEFINE new == [src |-> fx.src, gen |-> mergeGen, prior |-> fx.plan]
             n == Len(handoffs)
  <2>1. CASE UNCHANGED handoffs
    <3>1. fx' = Merge!NoOp \/ fx'.at = "push"
      BY <1>3 DEF Merge!FixAdmits, MergeInv, MergeTypes, OperationTypes, Operation
    <3>2. QED
      BY <1>1, <2>1, <3>1, NothingKnown
  <2>2. CASE handoffs' = Append(handoffs, new) /\ fx' = [fx EXCEPT !.at = "push"]
    <3>1. /\ new \in [src : fixes, gen : 1..MaxGen, prior : DOMAIN plans] /\ new.src = fx.src
          /\ \A i \in DOMAIN handoffs : handoffs[i].src # fx.src
      BY <1>0, <1>3 DEF Merge!FixAdmits, BoundInv, FixKnows, HandedOver
    <3> HIDE DEF new
    <3>2. /\ n \in Nat /\ DOMAIN handoffs = 1..n /\ DOMAIN handoffs' = 1..n + 1
          /\ handoffs'[n + 1] = new /\ \A i \in 1..n : handoffs'[i] = handoffs[i]
      BY <1>0, <2>2
    <3>3. \A i \in DOMAIN handoffs' : i \in DOMAIN handoffs \/ i = n + 1
      BY <3>2
    <3>4. \A i \in DOMAIN handoffs' : handoffs'[i] \in [src : fixes, gen : 1..MaxGen, prior : DOMAIN plans]
      BY <1>0, <3>1, <3>2, <3>3 DEF HandedOver
    <3>5. [src : fixes, gen : 1..MaxGen, prior : DOMAIN plans]
             \subseteq [src : fixes', gen : 1..MaxGen, prior : DOMAIN plans']
      BY <1>0
    <3>6. \A i, j \in DOMAIN handoffs' : handoffs'[i].src = handoffs'[j].src => i = j
      BY <1>0, <3>1, <3>2, <3>3 DEF HandedOver
    <3>7. fx'.at = "push"
      BY <2>2 DEF MergeInv, MergeTypes, OperationTypes, Operation
    <3>8. QED
      BY <3>4, <3>5, <3>6, <3>7 DEF HandedOver
  <2>3. QED
    BY <1>3, <2>1, <2>2 DEF Merge!FixAdmits
<1>4. CASE Merge!FixPush \/ Merge!FixConfirms
  <2>1. UNCHANGED handoffs /\ (fx' = Merge!NoOp \/ fx'.at = "confirm")
    BY <1>4 DEF Merge!FixPush, Merge!FixConfirms, Merge!journalVars, MergeInv, MergeTypes, OperationTypes, Operation
  <2>2. QED
    BY <1>1, <2>1, NothingKnown
<1>5. CASE Merge!Approve \/ Merge!ApprovalStep
  BY <1>1, <1>5 DEF Merge!Approve, Merge!ApprovalStep, Merge!Prepare, Merge!StartPush, Merge!Push, Merge!PlanMerge,
     Merge!ApproveSends, Merge!ApproveReconciles, Merge!ApproveFinishes, Merge!journalVars
<1>6. CASE Merge!PollStep
  BY <1>1, <1>6 DEF Merge!PollStep, Merge!Poll, Merge!PollAdoptsFix, Merge!PollRead, Merge!PollSends,
     Merge!PollReconciles, Merge!PollFinishes, Merge!journalVars
<1>7. CASE Merge!HostStep \/ Merge!UserActs
  BY <1>1, <1>7 DEF Merge!HostStep, Merge!HostAnswers, Merge!Timeout, Merge!AutoMerge, Merge!UserActs,
     Merge!journalVars
<1>8. CASE Merge!Recover \/ Merge!Resume \/ Merge!Rework \/ Merge!Crash \/ UNCHANGED Merge!mergeVars
  BY <1>1, <1>8, NothingKnown DEF Merge!Recover, Merge!Resume, Merge!Rework, Merge!Crash, Merge!mergeVars,
     Merge!journalVars
<1>9. QED
  BY <1>2, <1>3, <1>4, <1>5, <1>6, <1>7, <1>8 DEF Merge!Next, Merge!FixStep

\* Heads are of sources, with a user's commit at most.
LEMMA HeadsKept == ASSUME MergeInv, BoundInv, [Merge!Next]_Merge!mergeVars PROVE Heads'
<1>0. /\ branch \in HeadTo /\ mergedHead \in HeadTo /\ fixes \subseteq Merge!Source
      /\ [branch EXCEPT !.more = 1] \in HeadTo
  BY CommitsNumbered DEF BoundInv, Heads, HeadTo
<1>1. ASSUME \/ UNCHANGED branch
             \/ \E s \in Merge!Source : branch' = Merge!At(s)
             \/ branch' = [branch EXCEPT !.more = 1],
             UNCHANGED mergedHead \/ mergedHead' = branch
      PROVE  Heads'
  BY <1>0, <1>1, SourceHead DEF Heads
<1>2. CASE Merge!Push
  <2>1. ap.src \in Merge!Source
    BY <1>2 DEF Merge!Push, BoundInv, ApprovalKnows
  <2>2. branch' \in {branch, Merge!At(ap.src)} /\ UNCHANGED mergedHead
    BY <1>2 DEF Merge!Push
  <2>3. QED
    BY <1>1, <2>1, <2>2
<1>3. CASE Merge!FixPush
  <2>1. fx.src \in Merge!Source
    BY <1>0, <1>3 DEF Merge!FixPush, BoundInv, FixKnows
  <2>2. branch' \in {branch, Merge!At(fx.src)} /\ UNCHANGED mergedHead
    BY <1>3 DEF Merge!FixPush
  <2>3. QED
    BY <1>1, <2>1, <2>2
<1>4. CASE Merge!Approve \/ Merge!Prepare \/ Merge!StartPush \/ Merge!PlanMerge \/ Merge!ApproveSends
           \/ Merge!ApproveReconciles \/ Merge!ApproveFinishes
  BY <1>1, <1>4 DEF Merge!Approve, Merge!Prepare, Merge!StartPush, Merge!PlanMerge, Merge!ApproveSends,
     Merge!ApproveReconciles, Merge!ApproveFinishes, Merge!hostVars
<1>5. CASE Merge!PollStep
  BY <1>1, <1>5 DEF Merge!PollStep, Merge!Poll, Merge!PollAdoptsFix, Merge!PollRead, Merge!PollSends,
     Merge!PollReconciles, Merge!PollFinishes, Merge!hostVars
<1>6. CASE Merge!HostStep \/ Merge!UserActs
  BY <1>1, <1>6 DEF Merge!HostStep, Merge!HostAnswers, Merge!Timeout, Merge!AutoMerge, Merge!MergeNow,
     Merge!UserActs, Merge!UserPushes, Merge!UserMerges, Merge!UserCloses, Merge!UserReopens
<1>7. CASE Merge!FixBegins \/ Merge!FixAdmits \/ Merge!FixConfirms
  BY <1>1, <1>7 DEF Merge!FixBegins, Merge!FixAdmits, Merge!FixConfirms, Merge!hostVars
<1>8. CASE Merge!Recover \/ Merge!Resume \/ Merge!Rework \/ Merge!Crash \/ UNCHANGED Merge!mergeVars
  BY <1>1, <1>8 DEF Merge!Recover, Merge!Resume, Merge!Rework, Merge!Crash, Merge!mergeVars, Merge!hostVars
<1>9. QED
  BY <1>2, <1>3, <1>4, <1>5, <1>6, <1>7, <1>8 DEF Merge!Next, Merge!ApprovalStep, Merge!FixStep

\* The approval goes on.
LEMMA ApprovalKnowsKept ==
  ASSUME MergeInv, BoundInv, [Merge!Next]_Merge!mergeVars
  PROVE  ApprovalKnows'
<1>0. /\ ap \in Operation /\ Within(ap) /\ ap.known = 0
      /\ ap.at \in {"publish", "push", "plan", "merge"} => ap.src \in Merge!Source
      /\ ap' \in Operation /\ mergeGen \in 1..MaxGen
  BY StepMerge DEF MergeInv, MergeTypes, OperationTypes, BoundInv, ApprovalKnows, Numbers
<1>1. ASSUME \/ UNCHANGED ap
             \/ ap' = Merge!NoOp
             \/ /\ ap.at \in {"publish", "push", "plan"}
                /\ \E st \in {"push", "plan", "merge"} : ap' = [ap EXCEPT !.at = st]
             \/ \E st \in {"finish", "reconcile"} : ap' = [ap EXCEPT !.at = st]
      PROVE  ApprovalKnows'
  <2>1. CASE UNCHANGED ap
    BY <1>0, <2>1 DEF ApprovalKnows
  <2>2. CASE ap' = Merge!NoOp
    BY <2>2, NothingKnown DEF ApprovalKnows
  <2>3. ASSUME NEW st \in {"push", "plan", "merge"}, ap.at \in {"publish", "push", "plan"},
               ap' = [ap EXCEPT !.at = st]
        PROVE  ApprovalKnows'
    <3>1. /\ ap'.at = st /\ ap'.gen = ap.gen /\ ap'.src = ap.src /\ ap'.try = ap.try /\ ap'.head = ap.head
          /\ ap'.known = ap.known /\ ap'.plan = ap.plan
      BY <1>0, <2>3 DEF Operation
    <3>2. QED
      BY <1>0, <2>3, <3>1 DEF ApprovalKnows, Within
  <2>4. ASSUME NEW st \in {"finish", "reconcile"}, ap' = [ap EXCEPT !.at = st] PROVE ApprovalKnows'
    <3>1. /\ ap'.at = st /\ ap'.gen = ap.gen /\ ap'.src = ap.src /\ ap'.try = ap.try /\ ap'.head = ap.head
          /\ ap'.known = ap.known /\ ap'.plan = ap.plan
      BY <1>0, <2>4 DEF Operation
    <3>2. QED
      BY <1>0, <2>4, <3>1 DEF ApprovalKnows, Within
  <2>5. QED
    BY <1>1, <2>1, <2>2, <2>3, <2>4
<1>2. CASE Merge!Approve
  <2>1. /\ ap' = [Merge!NoOp EXCEPT !.at = "prepare", !.gen = mergeGen, !.plan = Merge!Latest(mergeGen),
                                    !.pr = pr, !.head = Merge!PrHead]
        /\ Merge!PrHead \in HeadTo
    BY <1>2, HeadRead DEF Merge!Approve, BoundInv
  <2>2. ap'.plan \in Nat
    BY <1>0 DEF Operation
  <2>3. /\ ap'.at = "prepare" /\ ap'.gen = mergeGen /\ ap'.src = 0 /\ ap'.try = 0 /\ ap'.known = 0
        /\ ap'.head = Merge!PrHead
    BY <2>1 DEF Merge!NoOp
  <2>4. QED
    BY <1>0, <2>1, <2>2, <2>3, BoundNumbers DEF ApprovalKnows, Within
<1>3. CASE Merge!Prepare
  <2>1. ap' = Merge!NoOp \/ \E st \in {"publish", "finish"} : ap' = [ap EXCEPT !.at = st, !.src = Merge!Mine]
    BY <1>3 DEF Merge!Prepare, Merge!Refuse, Merge!Proceed
  <2>2. ASSUME NEW st \in {"publish", "finish"}, ap' = [ap EXCEPT !.at = st, !.src = Merge!Mine]
        PROVE  ApprovalKnows'
    <3>1. /\ ap'.at = st /\ ap'.gen = ap.gen /\ ap'.src = Merge!Mine /\ ap'.try = ap.try /\ ap'.head = ap.head
          /\ ap'.known = ap.known /\ ap'.plan = ap.plan
      BY <1>0, <2>2 DEF Operation
    <3>2. Merge!Mine \in Merge!Source /\ Merge!Mine <= MaxSource
      BY MineIsOwn, BoundNumbers
    <3>3. QED
      BY <1>0, <2>2, <3>1, <3>2 DEF ApprovalKnows, Within
  <2>3. QED
    BY <1>1, <2>1, <2>2
<1>4. CASE Merge!StartPush \/ Merge!Push \/ Merge!PlanMerge \/ Merge!ApproveReconciles \/ Merge!ApproveFinishes
  BY <1>1, <1>4 DEF Merge!StartPush, Merge!Push, Merge!PlanMerge, Merge!ApproveReconciles, Merge!ApproveFinishes,
     Merge!Fail
<1>5. CASE Merge!ApproveSends
  <2>1. CASE ap' = Merge!NoOp
    BY <1>1, <2>1
  <2>2. ASSUME Merge!Try <= MaxSends,
               ap' = [ap EXCEPT !.at = "waiting", !.try = Merge!Try, !.plan = Merge!PlanOf(ap.src, mergeGen)]
        PROVE  ApprovalKnows'
    <3>1. /\ ap'.at = "waiting" /\ ap'.gen = ap.gen /\ ap'.src = ap.src /\ ap'.try = Merge!Try /\ ap'.head = ap.head
          /\ ap'.known = ap.known
      BY <1>0, <2>2 DEF Operation
    <3>2. ap'.plan \in Nat
      BY <1>0 DEF Operation
    <3>3. QED
      BY <1>0, <2>2, <3>1, <3>2 DEF ApprovalKnows, Within
  <2>3. QED
    BY <1>5, <2>1, <2>2 DEF Merge!ApproveSends, Merge!Fail
<1>6. CASE Merge!PollStep
  BY <1>1, <1>6 DEF Merge!PollStep, Merge!Poll, Merge!PollAdoptsFix, Merge!PollRead, Merge!PollSends,
     Merge!PollReconciles, Merge!PollFinishes
<1>7. CASE Merge!FixBegins \/ Merge!FixStep
  BY <1>1, <1>7 DEF Merge!FixBegins, Merge!FixStep, Merge!FixAdmits, Merge!FixPush, Merge!FixConfirms
<1>8. CASE Merge!HostStep \/ Merge!UserActs
  BY <1>1, <1>8 DEF Merge!HostStep, Merge!HostAnswers, Merge!Timeout, Merge!Answer, Merge!NoAnswer, Merge!AutoMerge,
     Merge!UserActs
<1>9. CASE Merge!Recover \/ Merge!Resume \/ Merge!Rework \/ Merge!Crash \/ UNCHANGED Merge!mergeVars
  BY <1>1, <1>9 DEF Merge!Recover, Merge!Resume, Merge!Rework, Merge!Crash, Merge!mergeVars
<1>10. QED
  BY <1>2, <1>3, <1>4, <1>5, <1>6, <1>7, <1>8, <1>9 DEF Merge!Next, Merge!ApprovalStep

\* The poll goes on.
LEMMA PollKnowsKept ==
  ASSUME MergeInv, BoundInv, [Merge!Next]_Merge!mergeVars
  PROVE  PollKnows'
<1>0. /\ pl \in Operation /\ Within(pl) /\ (pl.at = "idle" => pl = Merge!NoOp)
      /\ pl.at = "merge" => pl.src \in Merge!Source
      /\ pl.at # "idle" => pl.plan \in DOMAIN plans
      /\ pl' \in Operation /\ mergeGen \in 1..MaxGen
  BY StepMerge DEF MergeInv, MergeTypes, OperationTypes, BoundInv, PollKnows, Numbers
<1>1. ASSUME \/ UNCHANGED pl
             \/ pl' = Merge!NoOp
             \/ \E st \in {"finish", "reconcile"} : pl' = [pl EXCEPT !.at = st]
      PROVE  PollKnows'
  <2>1. CASE UNCHANGED pl
    BY <1>0, <2>1 DEF PollKnows
  <2>2. CASE pl' = Merge!NoOp
    BY <2>2, NothingKnown DEF PollKnows
  <2>3. ASSUME NEW st \in {"finish", "reconcile"}, pl' = [pl EXCEPT !.at = st] PROVE PollKnows'
    <3>1. /\ pl'.at = st /\ pl'.gen = pl.gen /\ pl'.src = pl.src /\ pl'.try = pl.try /\ pl'.head = pl.head
          /\ pl'.plan = pl.plan
      BY <1>0, <2>3 DEF Operation
    <3>2. QED
      BY <1>0, <2>3, <3>1 DEF PollKnows, Within
  <2>4. QED
    BY <1>1, <2>1, <2>2, <2>3
<1>2. CASE Merge!Poll
  <2>1. CASE UNCHANGED pl
    BY <1>1, <2>1
  <2>2. CASE pl' = [Merge!NoOp EXCEPT !.at = "read", !.gen = mergeGen, !.plan = Merge!Latest(mergeGen),
                      !.known = Merge!LastHandoff(mergeGen), !.pr = pr, !.head = Merge!PrHead]
    <3>1. pl'.at = "read" /\ pl'.gen = mergeGen /\ pl'.src = 0 /\ pl'.try = 0 /\ pl'.head = Merge!PrHead
      BY <2>2 DEF Merge!NoOp
    <3>2. pl'.plan \in Nat /\ Merge!PrHead \in HeadTo
      BY <1>0, HeadRead DEF Operation, BoundInv
    <3>3. QED
      BY <1>0, <3>1, <3>2, BoundNumbers DEF PollKnows, Within
  <2>3. QED
    BY <1>2, <2>1, <2>2 DEF Merge!Poll
<1>3. CASE Merge!PollAdoptsFix
  <2> DEFINE i == Merge!PlanOf(handoffs[pl.known].src, mergeGen)
  <2>1. pl.at = "read" /\ pl' = [pl EXCEPT !.plan = i]
    BY <1>3 DEF Merge!PollAdoptsFix
  <2> HIDE DEF i
  <2>2. pl'.at = "read" /\ pl'.gen = pl.gen /\ pl'.src = pl.src /\ pl'.try = pl.try /\ pl'.head = pl.head
    BY <1>0, <2>1 DEF Operation
  <2>3. pl'.plan \in Nat
    BY <1>0 DEF Operation
  <2>4. QED
    BY <1>0, <2>2, <2>3 DEF PollKnows, Within
<1>4. CASE Merge!PollRead
  <2>1. ASSUME pl' = [pl EXCEPT !.at = "merge", !.src = plans[pl.plan].src], pl.at = "read"
        PROVE  PollKnows'
    <3>1. plans[pl.plan].src \in Merge!Source
      BY <1>0, <2>1 DEF BoundInv, Delivered
    <3>2. /\ pl'.at = "merge" /\ pl'.gen = pl.gen /\ pl'.src = plans[pl.plan].src /\ pl'.try = pl.try
          /\ pl'.head = pl.head /\ pl'.plan = pl.plan
      BY <1>0, <2>1 DEF Operation
    <3>3. plans[pl.plan].src <= MaxSource
      BY <3>1, BoundNumbers
    <3>4. QED
      BY <1>0, <3>1, <3>2, <3>3 DEF PollKnows, Within
  <2>2. \/ pl' = Merge!NoOp
        \/ pl' = [pl EXCEPT !.at = "finish"]
        \/ pl' = [pl EXCEPT !.at = "merge", !.src = plans[pl.plan].src] /\ pl.at = "read"
    BY <1>4 DEF Merge!PollRead, Merge!EndPoll
  <2>3. QED
    BY <1>1, <2>1, <2>2
<1>5. CASE Merge!PollSends
  <2>1. CASE pl' = Merge!NoOp
    BY <1>1, <2>1
  <2>2. ASSUME Merge!Try <= MaxSends, pl' = [pl EXCEPT !.at = "waiting", !.try = Merge!Try] PROVE PollKnows'
    <3>1. /\ pl'.at = "waiting" /\ pl'.gen = pl.gen /\ pl'.src = pl.src /\ pl'.try = Merge!Try
          /\ pl'.head = pl.head /\ pl'.plan \in Nat
      BY <1>0, <2>2 DEF Operation
    <3>2. QED
      BY <1>0, <2>2, <3>1 DEF PollKnows, Within
  <2>3. QED
    BY <1>5, <2>1, <2>2 DEF Merge!PollSends, Merge!EndPoll
<1>6. CASE Merge!PollReconciles \/ Merge!PollFinishes
  BY <1>1, <1>6 DEF Merge!PollReconciles, Merge!PollFinishes, Merge!EndPoll
<1>7. CASE Merge!Approve \/ Merge!ApprovalStep
  BY <1>1, <1>7 DEF Merge!Approve, Merge!ApprovalStep, Merge!Prepare, Merge!StartPush, Merge!Push, Merge!PlanMerge,
     Merge!ApproveSends, Merge!ApproveReconciles, Merge!ApproveFinishes
<1>8. CASE Merge!FixBegins \/ Merge!FixStep
  BY <1>1, <1>8 DEF Merge!FixBegins, Merge!FixStep, Merge!FixAdmits, Merge!FixPush, Merge!FixConfirms
<1>9. CASE Merge!HostStep \/ Merge!UserActs
  BY <1>1, <1>9 DEF Merge!HostStep, Merge!HostAnswers, Merge!Timeout, Merge!Answer, Merge!NoAnswer, Merge!EndPoll,
     Merge!AutoMerge, Merge!UserActs
<1>10. CASE Merge!Recover \/ Merge!Resume \/ Merge!Rework \/ Merge!Crash \/ UNCHANGED Merge!mergeVars
  BY <1>1, <1>10 DEF Merge!Recover, Merge!Resume, Merge!Rework, Merge!Crash, Merge!mergeVars
<1>11. QED
  BY <1>2, <1>3, <1>4, <1>5, <1>6, <1>7, <1>8, <1>9, <1>10 DEF Merge!Next, Merge!PollStep

\* The delivery of a fix goes on.
LEMMA FixKnowsKept ==
  ASSUME MergeInv, BoundInv, [Merge!Next]_Merge!mergeVars
  PROVE  FixKnows'
<1>0. /\ fx \in Operation /\ FixKnows /\ fx' \in Operation /\ mergeGen \in 1..MaxGen
      /\ fixes \subseteq fixes' /\ DOMAIN plans \subseteq DOMAIN plans' /\ plans \in Seq(Planned)
  BY StepMerge, SourcesKept, DeliveredKept DEF MergeInv, MergeTypes, OperationTypes, JournalTypes, BoundInv, Numbers
<1>1. ASSUME \/ UNCHANGED fx
             \/ fx' = Merge!NoOp
             \/ fx.at # "idle" /\ \E st \in {"push", "confirm"} : fx' = [fx EXCEPT !.at = st]
      PROVE  FixKnows'
  <2>1. CASE UNCHANGED fx
    BY <1>0, <2>1 DEF FixKnows
  <2>2. CASE fx' = Merge!NoOp
    BY <2>2, NothingKnown DEF FixKnows
  <2>3. ASSUME fx.at # "idle", NEW st \in {"push", "confirm"}, fx' = [fx EXCEPT !.at = st] PROVE FixKnows'
    <3>1. /\ fx'.at = st /\ fx'.gen = fx.gen /\ fx'.src = fx.src /\ fx'.try = fx.try /\ fx'.head = fx.head
          /\ fx'.known = fx.known /\ fx'.plan = fx.plan
      BY <1>0, <2>3 DEF Operation
    <3>2. QED
      BY <1>0, <2>3, <3>1 DEF FixKnows, Within
  <2>4. QED
    BY <1>1, <2>1, <2>2, <2>3
<1>2. CASE Merge!FixBegins
  <2>1. /\ fx' = [Merge!NoOp EXCEPT !.at = "rebase", !.gen = mergeGen, !.plan = Merge!Latest(mergeGen),
                                    !.src = Merge!NewSource]
        /\ Merge!NewSource \in Merge!Source /\ Merge!NewSource \in fixes' /\ Merge!Latest(mergeGen) # 0
    BY <1>2 DEF Merge!FixBegins
  <2>2. Merge!Latest(mergeGen) \in DOMAIN plans
    BY <1>0, <2>1, LatestPlan
  <2>3. /\ fx'.at = "rebase" /\ fx'.gen = mergeGen /\ fx'.src = Merge!NewSource /\ fx'.try = 0 /\ fx'.known = 0
        /\ fx'.head = Merge!NoHead /\ fx'.plan = Merge!Latest(mergeGen)
    BY <2>1 DEF Merge!NoOp
  <2>4. fx'.plan \in Nat /\ Merge!NoHead \in HeadTo
    BY <1>0, BoundNumbers DEF Operation, Merge!NoHead, HeadTo
  <2>5. QED
    BY <1>0, <2>1, <2>2, <2>3, <2>4, BoundNumbers DEF FixKnows, Within
<1>3. CASE Merge!FixStep
  BY <1>1, <1>3 DEF Merge!FixStep, Merge!FixAdmits, Merge!FixPush, Merge!FixConfirms
<1>4. CASE Merge!Approve \/ Merge!ApprovalStep
  BY <1>1, <1>4 DEF Merge!Approve, Merge!ApprovalStep, Merge!Prepare, Merge!StartPush, Merge!Push, Merge!PlanMerge,
     Merge!ApproveSends, Merge!ApproveReconciles, Merge!ApproveFinishes
<1>5. CASE Merge!PollStep
  BY <1>1, <1>5 DEF Merge!PollStep, Merge!Poll, Merge!PollAdoptsFix, Merge!PollRead, Merge!PollSends,
     Merge!PollReconciles, Merge!PollFinishes
<1>6. CASE Merge!HostStep \/ Merge!UserActs
  BY <1>1, <1>6 DEF Merge!HostStep, Merge!HostAnswers, Merge!Timeout, Merge!AutoMerge, Merge!UserActs
<1>7. CASE Merge!Recover \/ Merge!Resume \/ Merge!Rework \/ Merge!Crash \/ UNCHANGED Merge!mergeVars
  BY <1>1, <1>7 DEF Merge!Recover, Merge!Resume, Merge!Rework, Merge!Crash, Merge!mergeVars
<1>8. QED
  BY <1>2, <1>3, <1>4, <1>5, <1>6, <1>7 DEF Merge!Next

\* The counters stop at their bounds.
LEMMA NumbersKept ==
  ASSUME MergeInv, BoundInv, [Merge!Next]_Merge!mergeVars
  PROVE  Numbers'
<1>0. Numbers /\ attempts \in Seq(Attempt) /\ MaxLost \in Nat /\ MaxCrashes \in Nat /\ MaxGen \in Nat
      /\ MaxSends \in Nat
  BY BoundNumbers DEF MergeInv, MergeTypes, JournalTypes, BoundInv
<1>1. ASSUME UNCHANGED mergeGen \/ (mergeGen < MaxGen /\ mergeGen' = mergeGen + 1),
             UNCHANGED lostAnswers \/ (lostAnswers < MaxLost /\ lostAnswers' = lostAnswers + 1),
             UNCHANGED ends \/ (ends < MaxCrashes /\ ends' = ends + 1),
             UNCHANGED closed \/ closed' \in BOOLEAN,
             Len(attempts') <= MaxSends
      PROVE  Numbers'
  BY <1>0, <1>1 DEF Numbers
<1>2. Len(attempts) <= MaxSends
  BY <1>0 DEF Numbers
<1>3. ASSUME NEW k, NEW answer, Merge!Seen(k, answer) PROVE Len(attempts') <= MaxSends
  <2>1. attempts' = [attempts EXCEPT ![k].seen = answer]
    BY <1>3 DEF Merge!Seen
  <2>2. DOMAIN attempts' = DOMAIN attempts
    BY <2>1
  <2>3. attempts' \in Seq(Attempt)
    BY StepMerge DEF MergeInv, MergeTypes, JournalTypes
  <2>4. Len(attempts') = Len(attempts)
    BY <1>0, <2>2, <2>3
  <2>5. QED
    BY <1>2, <2>4
<1>4. ASSUME NEW i, NEW head, Merge!RecordMerged(i, head) PROVE Len(attempts') <= MaxSends
  BY <1>2, <1>3, <1>4 DEF Merge!RecordMerged
<1>5. ASSUME NEW s, NEW g, Merge!Send(s, g), Merge!Try <= MaxSends PROVE Len(attempts') <= MaxSends
  <2> DEFINE new == [plan |-> Merge!PlanOf(s, g), seen |-> "none", recovered |-> FALSE]
  <2>1. attempts' = Append(attempts, new)
    BY <1>5 DEF Merge!Send
  <2> HIDE DEF new
  <2>2. Len(attempts') = Merge!Try
    BY <1>0, <2>1 DEF Merge!Try
  <2>3. QED
    BY <1>5, <2>2
<1>6. ASSUME NEW i, NEW head, NEW b \in BOOLEAN, Merge!ObserveStatus(i, head, b)
      PROVE  UNCHANGED closed \/ closed' \in BOOLEAN
  BY <1>6 DEF Merge!ObserveStatus
<1>7. CASE Merge!Approve \/ Merge!StartPush \/ Merge!Push \/ Merge!PlanMerge \/ Merge!ApproveFinishes
  BY <1>1, <1>2, <1>7 DEF Merge!Approve, Merge!StartPush, Merge!Push, Merge!PlanMerge, Merge!ApproveFinishes,
     Merge!journalVars, Merge!podVars, Merge!boundVars
<1>8. CASE Merge!Prepare
  <2>1. UNCHANGED attempts \/ Merge!RecordMerged(ap.plan, ap.head)
    BY <1>8 DEF Merge!Prepare, Merge!Refuse
  <2>2. UNCHANGED closed \/ \E b \in BOOLEAN : Merge!ObserveStatus(ap.plan, ap.head, b)
    BY <1>8 DEF Merge!Prepare
  <2>3. UNCHANGED <<mergeGen, lostAnswers, ends>>
    BY <1>8 DEF Merge!Prepare, Merge!boundVars
  <2>4. QED
    BY <1>1, <1>2, <1>4, <1>6, <2>1, <2>2, <2>3
<1>9. CASE Merge!ApproveSends \/ Merge!PollSends
  <2>1. UNCHANGED attempts \/ (Merge!Try <= MaxSends /\ \E s, g : Merge!Send(s, g))
    BY <1>9 DEF Merge!ApproveSends, Merge!PollSends
  <2>2. UNCHANGED <<mergeGen, lostAnswers, ends, closed>>
    BY <1>9 DEF Merge!ApproveSends, Merge!PollSends, Merge!podVars, Merge!boundVars
  <2>3. QED
    BY <1>1, <1>2, <1>5, <2>1, <2>2
<1>10. CASE Merge!ApproveReconciles \/ Merge!PollReconciles
  <2>1. UNCHANGED attempts \/ \E i : Merge!RecordMerged(i, Merge!PrHead)
    BY <1>10 DEF Merge!ApproveReconciles, Merge!PollReconciles
  <2>2. UNCHANGED closed \/ \E i : Merge!ObserveStatus(i, Merge!PrHead, TRUE)
    BY <1>10 DEF Merge!ApproveReconciles, Merge!PollReconciles
  <2>3. UNCHANGED <<mergeGen, lostAnswers, ends>>
    BY <1>10 DEF Merge!ApproveReconciles, Merge!PollReconciles, Merge!podVars, Merge!boundVars
  <2>4. QED
    BY <1>1, <1>2, <1>4, <1>6, <2>1, <2>2, <2>3
<1>11. CASE Merge!Poll \/ Merge!PollAdoptsFix \/ Merge!PollFinishes
  BY <1>1, <1>2, <1>11 DEF Merge!Poll, Merge!PollAdoptsFix, Merge!PollFinishes, Merge!journalVars, Merge!podVars,
     Merge!boundVars
<1>12. CASE Merge!PollRead
  <2>1. UNCHANGED attempts \/ Merge!RecordMerged(pl.plan, pl.head)
    BY <1>12 DEF Merge!PollRead
  <2>2. UNCHANGED closed \/ \E b \in BOOLEAN : Merge!ObserveStatus(pl.plan, pl.head, b)
    BY <1>12 DEF Merge!PollRead
  <2>3. UNCHANGED <<mergeGen, lostAnswers, ends>>
    BY <1>12 DEF Merge!PollRead, Merge!boundVars
  <2>4. QED
    BY <1>1, <1>2, <1>4, <1>6, <2>1, <2>2, <2>3
<1>13. CASE Merge!FixBegins \/ Merge!FixStep
  BY <1>1, <1>2, <1>13 DEF Merge!FixBegins, Merge!FixStep, Merge!FixAdmits, Merge!FixPush, Merge!FixConfirms,
     Merge!journalVars, Merge!podVars, Merge!boundVars
<1>14. ASSUME NEW k \in flying, Merge!HostAnswers(k) \/ Merge!Timeout(k) PROVE Numbers'
  <2>1. UNCHANGED attempts \/ \E answer : Merge!Seen(k, answer)
    BY <1>14, AnswerGoesOn, NoAnswerGoesOn DEF Merge!HostAnswers, Merge!Timeout
  <2>2. /\ UNCHANGED <<mergeGen, ends, closed>>
        /\ UNCHANGED lostAnswers \/ (lostAnswers < MaxLost /\ lostAnswers' = lostAnswers + 1)
    BY <1>14 DEF Merge!HostAnswers, Merge!Timeout, Merge!boundVars
  <2>3. QED
    BY <1>1, <1>2, <1>3, <2>1, <2>2
<1>15. CASE Merge!AutoMerge \/ Merge!UserActs \/ Merge!Resume \/ Merge!Rework \/ Merge!Crash
            \/ UNCHANGED Merge!mergeVars
  BY <1>1, <1>2, <1>15 DEF Merge!AutoMerge, Merge!UserActs, Merge!Resume, Merge!Rework, Merge!Crash,
     Merge!mergeVars, Merge!journalVars, Merge!podVars, Merge!boundVars
<1>16. CASE Merge!Recover
  <2> DEFINE k == Merge!MaxOf(Merge!Attempts(Merge!Latest(mergeGen)))
  <2>1. attempts' = [attempts EXCEPT ![k].recovered = TRUE]
    BY <1>16 DEF Merge!Recover
  <2> HIDE DEF k
  <2>2. attempts' \in Seq(Attempt)
    BY StepMerge DEF MergeInv, MergeTypes, JournalTypes
  <2>3. Len(attempts') = Len(attempts)
    BY <1>0, <2>1, <2>2
  <2>4. UNCHANGED <<mergeGen, lostAnswers, ends, closed>>
    BY <1>16 DEF Merge!Recover, Merge!podVars, Merge!boundVars
  <2>5. QED
    BY <1>1, <1>2, <2>3, <2>4
<1>17. QED
  BY <1>7, <1>8, <1>9, <1>10, <1>11, <1>12, <1>13, <1>14, <1>15, <1>16
  DEF Merge!Next, Merge!ApprovalStep, Merge!PollStep, Merge!HostStep

\* Every step keeps the bounds.
LEMMA StepBound == MergeInv /\ BoundInv /\ [Merge!Next]_Merge!mergeVars => BoundInv'
BY NumbersKept, SourcesKept, DeliveredKept, HandedOverKept, HeadsKept, ApprovalKnowsKept, PollKnowsKept,
   FixKnowsKept DEF BoundInv
----------------------------------------------------------------------------
(* How long the journal gets.                                                 *)

\* The numbers up to n are n.
LEMMA CountTo == ASSUME NEW n \in Nat PROVE IsFiniteSet(1..n) /\ Cardinality(1..n) = n
<1>1. IsFiniteSet(1..n) /\ Cardinality(1..n) = IF 1 > n THEN 0 ELSE n - 1 + 1
  BY FS_Interval
<1>2. QED
  BY <1>1

\* There are no more plans than sources in generations.
LEMMA PlansBounded == ASSUME MergeInv, BoundInv PROVE Len(plans) <= MaxGen * MaxSource
<1> DEFINE n == Len(plans)
           pairs == Merge!Source \X (1..MaxGen)
           f == [i \in 1..n |-> <<plans[i].src, plans[i].gen>>]
<1>1. /\ n \in Nat /\ DOMAIN plans = 1..n /\ MaxGen \in Nat \ {0} /\ MaxSource \in Nat \ {0}
      /\ Merge!Source = 1..MaxSource
      /\ \A i \in 1..n : plans[i] \in [src : Merge!Source, gen : 1..MaxGen]
      /\ \A i, j \in 1..n : plans[i] = plans[j] => i = j
  BY BoundNumbers DEF MergeInv, MergeTypes, JournalTypes, BoundInv, Delivered
<1>2. f \in Injection(1..n, pairs)
  <2>1. f \in [1..n -> pairs]
    BY <1>1
  <2>2. ASSUME NEW i \in 1..n, NEW j \in 1..n, f[i] = f[j] PROVE i = j
    <3>1. plans[i].src = plans[j].src /\ plans[i].gen = plans[j].gen
      BY <2>2
    <3>2. plans[i] = plans[j]
      BY <1>1, <3>1
    <3>3. QED
      BY <1>1, <3>2
  <2>3. QED
    BY <2>1, <2>2 DEF Injection, IsInjective
<1>3. IsFiniteSet(pairs) /\ Cardinality(pairs) = MaxSource * MaxGen
  <2>1. IsFiniteSet(1..MaxSource) /\ Cardinality(1..MaxSource) = MaxSource
    BY <1>1, CountTo
  <2>2. IsFiniteSet(1..MaxGen) /\ Cardinality(1..MaxGen) = MaxGen
    BY <1>1, CountTo
  <2> DEFINE S == 1..MaxSource
             T == 1..MaxGen
  <2>3. pairs = S \X T
    BY <1>1
  <2> HIDE DEF pairs
  <2>4. IsFiniteSet(S) /\ IsFiniteSet(T) /\ Cardinality(S) = MaxSource /\ Cardinality(T) = MaxGen
    BY <2>1, <2>2
  <2> HIDE DEF S, T
  <2>5. IsFiniteSet(S \X T) /\ Cardinality(S \X T) = Cardinality(S) * Cardinality(T)
    BY <2>4, FS_Product
  <2>6. QED
    BY <2>3, <2>4, <2>5
<1> HIDE DEF f, pairs
<1>4. Cardinality(1..n) <= Cardinality(pairs)
  BY <1>2, <1>3, FS_Injection
<1>5. Cardinality(1..n) = n
  BY <1>1, CountTo
<1>6. MaxSource * MaxGen = MaxGen * MaxSource
  BY <1>1
<1>7. QED
  BY <1>3, <1>4, <1>5, <1>6

\* There are no more handoffs than sources.
LEMMA HandoffsBounded == ASSUME MergeInv, BoundInv PROVE Len(handoffs) <= MaxSource
<1> DEFINE n == Len(handoffs)
           f == [i \in 1..n |-> handoffs[i].src]
<1>1. /\ n \in Nat /\ DOMAIN handoffs = 1..n /\ MaxSource \in Nat \ {0}
      /\ \A i \in 1..n : handoffs[i].src \in 1..MaxSource
      /\ \A i, j \in 1..n : handoffs[i].src = handoffs[j].src => i = j
  BY BoundNumbers, CommitsNumbered DEF MergeInv, MergeTypes, JournalTypes, BoundInv, HandedOver
<1>2. f \in Injection(1..n, 1..MaxSource)
  BY <1>1 DEF Injection, IsInjective
<1>3. IsFiniteSet(1..MaxSource) /\ Cardinality(1..MaxSource) = MaxSource
  BY <1>1, CountTo
<1> HIDE DEF f
<1>4. Cardinality(1..n) <= Cardinality(1..MaxSource)
  BY <1>2, <1>3, FS_Injection
<1>5. Cardinality(1..n) = n
  BY <1>1, CountTo
<1>6. QED
  BY <1>3, <1>4, <1>5

\* An operation within the bounds, as the invariant has it.
LEMMA WithinOps ==
  ASSUME NEW o \in Operation, Within(o), o.plan \in 0..MaxGen * MaxSource, o.known \in 0..MaxSource
  PROVE  o \in Merge!Ops
<1>1. o.gen \in 0..MaxGen /\ o.src \in 0..MaxSource /\ o.try \in 0..MaxSends
  BY BoundNumbers DEF Within, Operation
<1>2. /\ o = [at |-> o.at, gen |-> o.gen, src |-> o.src, plan |-> o.plan, try |-> o.try, known |-> o.known,
              pr |-> o.pr, head |-> o.head]
      /\ o.at \in Steps /\ o.pr \in PrState
  BY DEF Operation
<1>3. o.head \in [src : 0..MaxSource, more : 0..1]
  BY DEF Within, HeadTo
<1>4. QED
  BY <1>1, <1>2, <1>3 DEF Merge!Ops, Steps, PrState

\* The pod, the journal, the operations and the host keep their types and their bounds: a
\* commit is offered, planned and handed over once, so the journal stays as short as they are few.
THEOREM MergeTypeOK == Merge!Spec => []Merge!TypeOK
<1> DEFINE Inv == MergeInv /\ BoundInv
<1>1. Merge!Init => Inv
  BY InitMerge, InitBound
<1>2. Inv /\ [Merge!Next]_Merge!mergeVars => Inv'
  BY StepMerge, StepBound
<1>3. Inv => Merge!TypeOK
  <2> SUFFICES ASSUME MergeInv, BoundInv PROVE Merge!TypeOK
    OBVIOUS
  <2>1. /\ MaxGen * MaxSource \in Nat /\ MaxSource \in Nat
        /\ Len(plans) \in Nat /\ DOMAIN plans = 1..Len(plans) /\ Len(plans) <= MaxGen * MaxSource
        /\ Len(handoffs) \in Nat /\ Len(handoffs) <= MaxSource
    BY BoundNumbers, PlansBounded, HandoffsBounded DEF MergeInv, MergeTypes, JournalTypes
  <2>2. \A i \in DOMAIN plans : i \in 0..MaxGen * MaxSource
    <3> DEFINE m == MaxGen * MaxSource
    <3>1. m \in Nat /\ Len(plans) <= m
      BY <2>1
    <3> HIDE DEF m
    <3>2. \A i \in 1..Len(plans) : i \in 0..m
      BY <2>1, <3>1
    <3>3. QED
      BY <2>1, <3>2 DEF m
  <2>3. 0 \in 0..MaxGen * MaxSource /\ 0 \in 0..MaxSource
    <3> DEFINE m == MaxGen * MaxSource
    <3>1. m \in Nat
      BY <2>1
    <3> HIDE DEF m
    <3>2. 0 \in 0..m
      BY <3>1
    <3>3. QED
      BY <2>1, <3>2 DEF m
  <2>4. ap \in Merge!Ops
    BY <2>2, <2>3, WithinOps DEF MergeInv, MergeTypes, OperationTypes, BoundInv, ApprovalKnows
  <2>5. pl \in Merge!Ops
    <3>1. pl.plan \in 0..MaxGen * MaxSource
      BY <2>2, <2>3, NothingKnown DEF MergeInv, MergeTypes, OperationTypes, BoundInv, PollKnows
    <3>2. pl.known \in 0..MaxSource
      <4>1. CASE pl.at = "idle"
        BY <2>3, <4>1, NothingKnown DEF BoundInv, PollKnows
      <4>2. CASE pl.at # "idle"
        BY <2>1, <4>2 DEF MergeInv, MergeTypes, OperationTypes, Operation, FixAhead
      <4>3. QED
        BY <4>1, <4>2
    <3>3. QED
      BY <3>1, <3>2, WithinOps DEF MergeInv, MergeTypes, OperationTypes, BoundInv, PollKnows
  <2>6. fx \in Merge!Ops
    <3>1. fx.plan \in 0..MaxGen * MaxSource
      BY <2>2, <2>3, NothingKnown DEF BoundInv, FixKnows
    <3>2. QED
      BY <2>3, <3>1, WithinOps DEF MergeInv, MergeTypes, OperationTypes, BoundInv, FixKnows
  <2>7. fixes \subseteq Merge!Source \ own
    BY CommitsNumbered DEF BoundInv, Sources
  <2>8. \A k \in DOMAIN attempts :
          attempts[k] \in [plan : DOMAIN plans, seen : {"none", "refused", "scheduled", "merged"},
                           recovered : BOOLEAN]
    <3>1. ASSUME NEW k \in DOMAIN attempts
          PROVE  attempts[k] \in [plan : DOMAIN plans, seen : {"none", "refused", "scheduled", "merged"},
                                  recovered : BOOLEAN]
      <4>1. attempts[k] \in Attempt /\ attempts[k].plan \in DOMAIN plans
        BY <3>1 DEF MergeInv, MergeTypes, JournalTypes
      <4>2. QED
        BY <4>1 DEF Attempt, Seens
    <3>2. QED
      BY <3>1
  <2>9. /\ published \subseteq [src : Merge!Source, gen : 1..MaxGen]
        /\ \A i \in DOMAIN handoffs : handoffs[i] \in [src : fixes, gen : 1..MaxGen, prior : DOMAIN plans]
        /\ \A i \in DOMAIN plans : plans[i] \in published
    BY DEF BoundInv, Delivered, HandedOver
  <2>10. /\ mergeGen \in 1..MaxGen /\ closed \in BOOLEAN /\ lostAnswers \in 0..MaxLost
         /\ ends \in 0..MaxCrashes /\ {branch, mergedHead} \subseteq [src : 0..MaxSource, more : 0..1]
    BY DEF BoundInv, Numbers, Heads, HeadTo
  <2>11. QED
    BY <2>4, <2>5, <2>6, <2>7, <2>8, <2>9, <2>10
    DEF Merge!TypeOK, MergeInv, MergeTypes, PodTypes, JournalTypes, HostTypes, PrState
<1> HIDE DEF Inv
<1>4. QED
  BY <1>1, <1>2, <1>3, PTL DEF Merge!Spec
-----------------------------------------------------------------------------
(* The halves together.                                                        *)

\* A behaviour of the instance that the run checks is one of each half, so what is proved
\* of the halves holds of it.
THEOREM HalvesAreParts == HalvesSpec => Spec /\ Merge!Spec
<1>1. HalvesInit => Init /\ Merge!Init
  BY DEF HalvesInit
<1>2. [HalvesNext]_<<half, mergeVars, deliveryVars>> => [Next]_deliveryVars /\ [Merge!Next]_Merge!mergeVars
  BY DEF HalvesNext, mergeVars, Merge!mergeVars, Merge!podVars, Merge!journalVars, Merge!hostVars,
         Merge!boundVars
<1>3. QED
  BY <1>1, <1>2, PTL DEF HalvesSpec, Spec, Merge!Spec

\* So the instance that the run checks has every safety property it is checked for,
\* whatever the values of its constants.
THEOREM DeliverySafe ==
  HalvesSpec => []OneRequest /\ []MergedIsReal /\ PushesSpareRequests /\ CreatesOnce
BY HalvesAreParts, MergeOneRequest, MergeMergedIsReal, MergeSparesRequests, DeliveryCreatesOnce, PTL
=============================================================================
