--------------------------- MODULE RetryLedgerProofs --------------------------
(* What RetryLedger promises for any number of pods, inputs, retries,          *)
(* authorizations, generations and attempts.                                   *)
EXTENDS RetryLedger, FiniteSetTheorems, SequenceTheorems, TLAPS

Attempt ==
  [pod : Pod, input : Input,
   kind : {None, "transient", "changed_conditions", "override"}, failure : Nat,
   due : BOOLEAN, started : BOOLEAN,
   outcome : {None, "pass", "transient", "nonretryable", "cancelled", "unknown"},
   box : {None, "dispatched", "recorded", "published", "unverified"}]

CallRecord ==
  [at : {"idle", "captured", "waiting", "running", "returned"},
   attempt : 0..MaxAttempts, left : 0..Budget, input : Input \cup {None}]

\* A call that holds an attempt open.
Owner(c) == call[c].at \in {"waiting", "running"}

\* Only the last attempt of the task may be open.
OpenIsLast == \A i \in DOMAIN attempts : attempts[i].outcome = None => i = Len(attempts)

\* A call that waits or runs has an open attempt, and no other call has it.
OwnersOwn ==
  /\ \A c \in Call : Owner(c) =>
       /\ call[c].attempt \in DOMAIN attempts
       /\ attempts[call[c].attempt].outcome = None
       /\ (call[c].at = "running") <=> (attempts[call[c].attempt].box = "dispatched")
  /\ \A c, d \in Call : Owner(c) /\ Owner(d) => c = d

\* A call that returned has an attempt with an outcome.
ReturnedEnded == \A c \in Call : call[c].at = "returned" =>
  call[c].attempt \in DOMAIN attempts /\ attempts[call[c].attempt].outcome # None

\* A call in progress has inputs.
InputsKnown == \A c \in Call : call[c].at # "idle" => call[c].input \in Input

\* No execution is running while an attempt waits to start.
WaitsAlone == \A c \in Call : call[c].at = "waiting" => running = {}

Alone == running \subseteq DOMAIN attempts /\ \A i, j \in running : i = j

\* The inductive invariant of the executions.  Admission asks the ledger, never the
\* sandbox: OneExecution needs RunningIsHeld, and that the waiting attempt is alone.
RetryInv == TypeOK /\ OpenIsLast /\ OwnersOwn /\ ReturnedEnded /\ WaitsAlone /\ Alone /\ InputsKnown
            /\ RunningIsHeld /\ OpenIsOwned
----------------------------------------------------------------------------
(* How a step changes the attempts.                                          *)

\* The attempts keep their number and type when one of them gets new fields.
LEMMA UpdateAttempt ==
  ASSUME NEW s \in Seq(Attempt), NEW i \in DOMAIN s, NEW e \in Attempt
  PROVE  /\ [s EXCEPT ![i] = e] \in Seq(Attempt)
         /\ Len([s EXCEPT ![i] = e]) = Len(s)
         /\ DOMAIN [s EXCEPT ![i] = e] = DOMAIN s
         /\ \A j \in DOMAIN s : [s EXCEPT ![i] = e][j] = IF j = i THEN e ELSE s[j]
<1>1. i \in 1..Len(s)
  BY LenProperties
<1> QED BY <1>1, ExceptSeq, LenProperties

\* Facts about the attempts that every step uses.
LEMMA Attempts ==
  ASSUME TypeOK
  PROVE  /\ attempts \in Seq(Attempt) /\ Len(attempts) \in Nat
         /\ DOMAIN attempts = 1..Len(attempts)
         /\ \A i \in DOMAIN attempts : attempts[i] \in Attempt
         /\ DOMAIN attempts \subseteq 1..MaxAttempts
<1>1. attempts \in Seq(Attempt) /\ Len(attempts) <= MaxAttempts
  BY DEF TypeOK, Attempt
<1> QED BY <1>1, LenProperties, ElementOfSeq, RetryAssumption

\* The records of a call that takes inputs, moves on, or takes its attempt.
LEMMA CapturedCall ==
  ASSUME NEW r \in CallRecord, NEW l \in 0..Budget, NEW i \in Input \cup {None}
  PROVE  [r EXCEPT !.at = "captured", !.left = l, !.input = i] \in CallRecord
BY DEF CallRecord

\* A call that starts to run or returns.
LEMMA MovedCall ==
  ASSUME NEW r \in CallRecord,
         NEW at \in {"idle", "captured", "waiting", "running", "returned"}
  PROVE  [r EXCEPT !.at = at] \in CallRecord
BY DEF CallRecord

\* A call that was given its attempt.
LEMMA AdmittedCall ==
  ASSUME NEW r \in CallRecord, NEW a \in 0..MaxAttempts
  PROVE  [r EXCEPT !.at = "waiting", !.attempt = a] \in CallRecord
BY DEF CallRecord

\* A call that goes round its loop again.
LEMMA RetriedCall ==
  ASSUME NEW r \in CallRecord, NEW l \in 0..Budget, NEW i \in Input \cup {None}, NEW a \in 0..MaxAttempts
  PROVE  [r EXCEPT !.at = "captured", !.left = l, !.attempt = a, !.input = i] \in CallRecord
BY DEF CallRecord

\* Nothing was admitted yet.
LEMMA InitRetry == Init => RetryInv
<1> SUFFICES ASSUME Init PROVE RetryInv
  OBVIOUS
<1>1. attempts \in Seq(Attempt) /\ Len(attempts) = 0 /\ DOMAIN attempts = {}
  BY DEF Init
<1>2. \A c \in Call : call[c].at = "idle"
  BY DEF Init, Idle
<1>3. TypeOK
  BY <1>1, RetryAssumption DEF Init, TypeOK, Attempt, Idle, NoGrant, None
<1>4. OpenIsLast /\ OwnersOwn /\ ReturnedEnded /\ WaitsAlone /\ Alone /\ InputsKnown
      /\ RunningIsHeld /\ OpenIsOwned
  BY <1>1, <1>2 DEF Init, InputsKnown, OpenIsLast, OwnersOwn, Owner, ReturnedEnded, WaitsAlone, Alone, RunningIsHeld, OpenIsOwned
<1> QED BY <1>3, <1>4 DEF RetryInv

\* A step that leaves attempts and executions alone and makes no call own an attempt.
LEMMA QuietRetry ==
  ASSUME RetryInv, UNCHANGED <<attempts, running>>, TypeOK',
         \A c \in Call : \/ call'[c] = call[c]
                         \/ ~Owner(c) /\ call'[c].at = "idle"
                         \/ ~Owner(c) /\ call'[c].at = "captured" /\ call'[c].input \in Input
  PROVE  RetryInv'
<1>1. \A c \in Call : (Owner(c)' <=> Owner(c)) /\ (Owner(c) => call'[c] = call[c])
      /\ (call'[c].at = "returned" => call'[c] = call[c])
  BY DEF Owner
<1>2. OpenIsLast' /\ Alone' /\ RunningIsHeld'
  BY DEF RetryInv, OpenIsLast, Alone, RunningIsHeld
<1>5. InputsKnown'
  BY DEF RetryInv, InputsKnown
<1>3. OwnersOwn' /\ ReturnedEnded' /\ WaitsAlone'
  BY <1>1 DEF RetryInv, OwnersOwn, ReturnedEnded, WaitsAlone, Owner
<1>4. OpenIsOwned'
  BY <1>1 DEF RetryInv, OpenIsOwned, Owner
<1> QED BY <1>2, <1>3, <1>4, <1>5 DEF RetryInv
----------------------------------------------------------------------------
(* One lemma per action.                                                     *)

\* A call that captures its inputs, or is refused, owns no attempt.
LEMMA BeginRetry == ASSUME RetryInv, NEW c \in Call, Begin(c) \/ Refused(c) PROVE RetryInv'
<1>1. Idle \in CallRecord /\ Idle.at = "idle"
  BY RetryAssumption DEF Idle, CallRecord
<1>2. call \in [Call -> CallRecord] /\ input \in Input
  BY DEF RetryInv, TypeOK, CallRecord
<1>3. call[c].at \in {"idle", "captured"}
  BY <1>1 DEF Begin, Refused
<1>4. PICK r \in CallRecord :
        /\ call' = [call EXCEPT ![c] = r]
        /\ r.at = "idle" \/ (r.at = "captured" /\ r.input = input)
  <2>1. CASE Refused(c)
    BY <1>1, <2>1 DEF Refused
  <2>2. CASE Begin(c)
    <3>1. Budget \in 0..Budget /\ input \in Input \cup {None}
      BY <1>2, RetryAssumption
    <3> DEFINE e == [Idle EXCEPT !.at = "captured", !.left = Budget, !.input = input]
    <3>2. e \in CallRecord
      BY <1>1, <1>2, <3>1, CapturedCall
    <3>3. e.at = "captured" /\ e.input = input
      BY <1>1, <1>2 DEF CallRecord
    <3>4. call' = [call EXCEPT ![c] = e]
      BY <2>2 DEF Begin
    <3> HIDE DEF e
    <3> QED BY <3>2, <3>3, <3>4
  <2> QED BY <2>1, <2>2
<1>5. TypeOK'
  BY <1>2, <1>4 DEF RetryInv, TypeOK, CallRecord, Begin, Refused, podVars
<1>6. \A d \in Call : \/ call'[d] = call[d]
                      \/ ~Owner(d) /\ call'[d].at = "idle"
                      \/ ~Owner(d) /\ call'[d].at = "captured" /\ call'[d].input \in Input
  BY <1>2, <1>3, <1>4 DEF Owner
<1> QED BY <1>5, <1>6, QuietRetry DEF Begin, Refused

\* Operators and edits leave attempts, calls and executions alone.
LEMMA WorldRetry ==
  ASSUME RetryInv,
         \/ \E p \in Pod : NewGeneration(p) \/ Decision(p)
         \/ \E i \in Input : Edit(i)
         \/ \E p \in Pod : \E k \in Key : Authorize(p, k)
  PROVE  RetryInv'
<1>0. LatestFailure \in 0..MaxAttempts
  BY Attempts, RetryAssumption DEF RetryInv, LatestFailure, TypeOK
<1>1. TypeOK'
  <2>1. CASE \E p \in Pod : NewGeneration(p)
    BY <2>1, RetryAssumption DEF NewGeneration, RetryInv, TypeOK
  <2>2. CASE \E p \in Pod : Decision(p)
    BY <2>2 DEF Decision, RetryInv, TypeOK
  <2>3. CASE \E i \in Input : Edit(i)
    BY <2>3 DEF Edit, RetryInv, TypeOK
  <2>4. CASE \E p \in Pod : \E k \in Key : Authorize(p, k)
    BY <2>4, <1>0, RetryAssumption DEF Authorize, RetryInv, TypeOK, podVars
  <2> QED BY <2>1, <2>2, <2>3, <2>4
<1>2. UNCHANGED <<attempts, running, call>>
  BY DEF NewGeneration, Decision, Edit, Authorize
<1> QED BY <1>1, <1>2, QuietRetry

\* An admission appends the one open attempt, for the call that asked.
LEMMA AdmitRetryInv ==
  ASSUME RetryInv, NEW c \in Call, NEW kind \in {None, "transient", "changed_conditions", "override"},
         Admit(c, kind),
         grant' \in [Key -> [pod : Pod \cup {None}, failure : 0..MaxAttempts, use : 0..MaxAttempts]]
  PROVE  RetryInv'
<1> DEFINE n == Len(attempts)
           e == [pod |-> c[1], input |-> call[c].input, kind |-> kind,
                 failure |-> LatestFailure, due |-> kind # "transient", started |-> FALSE,
                 outcome |-> None, box |-> None]
           r == [call[c] EXCEPT !.at = "waiting", !.attempt = n + 1]
<1>1. /\ attempts \in Seq(Attempt) /\ n \in Nat /\ DOMAIN attempts = 1..n
      /\ \A i \in DOMAIN attempts : attempts[i] \in Attempt
  BY Attempts DEF RetryInv
<1>2. call \in [Call -> CallRecord] /\ c[1] \in Pod /\ call[c] \in CallRecord
  BY DEF RetryInv, TypeOK, CallRecord, Call
<1>3. e \in Attempt
  <2>1. LatestFailure \in Nat
    BY <1>1 DEF LatestFailure
  <2>2. call[c].input \in Input
    BY DEF RetryInv, InputsKnown, Admit
  <2> QED BY <1>2, <2>1, <2>2 DEF Attempt, None
<1>4. e.outcome = None /\ e.box = None
  OBVIOUS
<1>5. n + 1 \in 0..MaxAttempts
  BY <1>1, RetryAssumption DEF Admit
<1>6. /\ attempts' \in Seq(Attempt) /\ Len(attempts') = n + 1
      /\ attempts'[n + 1] = e /\ \A i \in 1..n : attempts'[i] = attempts[i]
  <2>1. attempts' = Append(attempts, e)
    BY DEF Admit
  <2> HIDE DEF e
  <2>2. Append(attempts, e) \in Seq(Attempt) /\ Len(Append(attempts, e)) = n + 1
    BY <1>1, <1>3, AppendProperties
  <2>3. Append(attempts, e)[n + 1] = e /\ \A i \in 1..n : Append(attempts, e)[i] = attempts[i]
    BY <1>1, <1>3, AppendProperties
  <2> QED BY <2>1, <2>2, <2>3
<1>7. DOMAIN attempts' = 1..(n + 1)
  BY <1>6, LenProperties
<1>8. r \in CallRecord
  BY <1>2, <1>5, AdmittedCall
<1>9. r.at = "waiting" /\ r.attempt = n + 1 /\ r.input = call[c].input
  BY <1>2 DEF CallRecord
<1>10. call' = [call EXCEPT ![c] = r]
  BY <1>2 DEF Admit
<1> HIDE DEF e, r
<1>11. call' \in [Call -> CallRecord] /\ call'[c] = r /\ \A d \in Call : d # c => call'[d] = call[d]
  BY <1>2, <1>8, <1>10
<1>12. TypeOK'
  BY <1>5, <1>6, <1>11 DEF RetryInv, TypeOK, Attempt, CallRecord, Admit, podVars
<1>13. \A i \in 1..n : attempts[i].outcome # None
  BY <1>1 DEF RetryInv, OpenIsLast, LatestEnded, Admit
<1>14. \A d \in Call : ~Owner(d)
  BY <1>1, <1>13 DEF RetryInv, OwnersOwn
<1>15. running = {}
  BY <1>1 DEF RetryInv, RunningIsHeld, TaskSettled, Admit, Alone, None
<1>16. UNCHANGED running
  BY DEF Admit
<1>17. \A d \in Call : Owner(d)' => d = c
  BY <1>11, <1>14 DEF Owner
<1>18. OpenIsLast' /\ Alone' /\ RunningIsHeld' /\ WaitsAlone'
  BY <1>6, <1>7, <1>13, <1>15, <1>16 DEF OpenIsLast, Alone, RunningIsHeld, WaitsAlone
<1>19. OwnersOwn' /\ OpenIsOwned'
  BY <1>1, <1>4, <1>6, <1>7, <1>9, <1>11, <1>13, <1>17 DEF OwnersOwn, OpenIsOwned, Owner, None
<1>20. ReturnedEnded'
  <2>1. \A d \in Call : call'[d].at = "returned" => d # c /\ call'[d] = call[d]
    BY <1>9, <1>11
  <2>2. \A d \in Call : call[d].at = "returned" => call[d].attempt \in 1..n /\ attempts[call[d].attempt].outcome # None
    BY <1>1 DEF RetryInv, ReturnedEnded
  <2>3. 1..n \subseteq 1..(n + 1)
    BY <1>1
  <2> QED BY <1>6, <1>7, <2>1, <2>2, <2>3 DEF ReturnedEnded
<1>21. InputsKnown'
  BY <1>9, <1>11 DEF RetryInv, InputsKnown, Admit
<1> QED BY <1>12, <1>18, <1>19, <1>20, <1>21 DEF RetryInv

\* The four reasons for an admission.
LEMMA AdmissionRetry ==
  ASSUME RetryInv, NEW c \in Call,
         AdmitFirst(c) \/ AdmitRetry(c) \/ AdmitChanged(c) \/ \E k \in Key : AdmitGranted(c, k)
  PROVE  RetryInv'
<1>0. grant \in [Key -> [pod : Pod \cup {None}, failure : 0..MaxAttempts, use : 0..MaxAttempts]]
  BY DEF RetryInv, TypeOK
<1>1. CASE AdmitFirst(c)
  BY <1>0, <1>1, AdmitRetryInv DEF AdmitFirst
<1>2. CASE AdmitRetry(c)
  BY <1>0, <1>2, AdmitRetryInv DEF AdmitRetry
<1>3. CASE AdmitChanged(c)
  BY <1>0, <1>3, AdmitRetryInv DEF AdmitChanged
<1>4. ASSUME NEW k \in Key, AdmitGranted(c, k) PROVE RetryInv'
  <2>1. Len(attempts) + 1 \in 0..MaxAttempts
    BY <1>4, Attempts, RetryAssumption DEF AdmitGranted, Admit, RetryInv
  <2>2. grant' \in [Key -> [pod : Pod \cup {None}, failure : 0..MaxAttempts, use : 0..MaxAttempts]]
    BY <1>0, <1>4, <2>1 DEF AdmitGranted
  <2> QED BY <1>4, <2>2, AdmitRetryInv DEF AdmitGranted
<1> QED BY <1>1, <1>2, <1>3, <1>4

\* The cooldown of an attempt, and the end of an execution nobody waits for, leave the
\* outcomes and dispatches of the attempts as they are.
LEMMA ElapseRetry ==
  ASSUME RetryInv, NEW i \in 1..MaxAttempts, Elapse(i) \/ OrphanEnds(i)
  PROVE  RetryInv'
<1>0. /\ attempts \in Seq(Attempt) /\ \A j \in DOMAIN attempts : attempts[j] \in Attempt
  BY Attempts DEF RetryInv
<1>1. /\ attempts' \in Seq(Attempt) /\ Len(attempts') = Len(attempts)
      /\ DOMAIN attempts' = DOMAIN attempts
      /\ \A j \in DOMAIN attempts : /\ attempts'[j].outcome = attempts[j].outcome
                                   /\ attempts'[j].box = attempts[j].box
  <2>1. CASE OrphanEnds(i)
    BY <1>0, <2>1 DEF OrphanEnds
  <2>2. CASE Elapse(i)
    <3> DEFINE e == [attempts[i] EXCEPT !.due = TRUE]
    <3>1. i \in DOMAIN attempts /\ attempts' = [attempts EXCEPT ![i] = e]
      BY <2>2 DEF Elapse
    <3>2. e \in Attempt /\ e.outcome = attempts[i].outcome /\ e.box = attempts[i].box
      BY <1>0, <3>1 DEF Attempt
    <3> HIDE DEF e
    <3> QED BY <1>0, <3>1, <3>2, UpdateAttempt
  <2> QED BY <2>1, <2>2
<1>2. running' \subseteq running /\ UNCHANGED call
  BY DEF Elapse, OrphanEnds
<1>3. TypeOK'
  BY <1>1, <1>2 DEF RetryInv, TypeOK, Attempt, Elapse, OrphanEnds, podVars
<1>4. OpenIsLast' /\ Alone' /\ RunningIsHeld'
  BY <1>1, <1>2 DEF RetryInv, OpenIsLast, Alone, RunningIsHeld
<1>5. OwnersOwn' /\ OpenIsOwned' /\ ReturnedEnded' /\ WaitsAlone' /\ InputsKnown'
  BY <1>1, <1>2 DEF RetryInv, OwnersOwn, OpenIsOwned, ReturnedEnded, WaitsAlone, InputsKnown, Owner
<1> QED BY <1>3, <1>4, <1>5 DEF RetryInv

\* The one call that owns the open attempt moves on, and with it the attempt.
LEMMA OwnerRetry ==
  ASSUME RetryInv, NEW c \in Call, Owner(c), NEW e \in Attempt, NEW r \in CallRecord,
         attempts' = [attempts EXCEPT ![call[c].attempt] = e], call' = [call EXCEPT ![c] = r],
         UNCHANGED <<podVars, grant>>,
         running' \subseteq running \cup {call[c].attempt},
         r.at = "idle" \/ (r.attempt = call[c].attempt /\ r.input = call[c].input),
         \/ r.at = "running" /\ e.outcome = None /\ e.box = "dispatched" /\ running = {}
         \/ r.at \in {"idle", "returned"} /\ e.outcome # None /\ running' \subseteq running,
         call[c].attempt \in running' => e.box \in {"dispatched", "unverified"}
  PROVE  RetryInv'
<1> DEFINE i == call[c].attempt
<1>1. /\ attempts \in Seq(Attempt) /\ i \in DOMAIN attempts /\ Len(attempts) \in Nat
      /\ DOMAIN attempts = 1..Len(attempts) /\ i \in 1..MaxAttempts
      /\ attempts[i].outcome = None /\ i = Len(attempts)
  BY Attempts DEF RetryInv, OwnersOwn, OpenIsLast
<1>2. /\ attempts' \in Seq(Attempt) /\ Len(attempts') = Len(attempts)
      /\ DOMAIN attempts' = DOMAIN attempts /\ attempts'[i] = e
      /\ \A j \in DOMAIN attempts : j # i => attempts'[j] = attempts[j]
  BY <1>1, UpdateAttempt
<1>3. /\ call \in [Call -> CallRecord] /\ call' \in [Call -> CallRecord]
      /\ call'[c] = r /\ \A d \in Call : d # c => call'[d] = call[d] /\ ~Owner(d)
  BY DEF RetryInv, TypeOK, CallRecord, OwnersOwn
<1>4. TypeOK'
  BY <1>1, <1>2, <1>3 DEF RetryInv, TypeOK, Attempt, CallRecord, podVars
<1>5. \A j \in DOMAIN attempts : j # i => attempts[j].outcome # None
  BY <1>1 DEF RetryInv, OpenIsLast
<1>6. OpenIsLast'
  BY <1>1, <1>2, <1>5 DEF OpenIsLast
<1>7. Alone' /\ RunningIsHeld'
  BY <1>1, <1>2 DEF RetryInv, Alone, RunningIsHeld
<1>8. OwnersOwn' /\ WaitsAlone'
  BY <1>1, <1>2, <1>3 DEF OwnersOwn, WaitsAlone, Owner
<1>9. OpenIsOwned'
  BY <1>1, <1>2, <1>3, <1>5 DEF OpenIsOwned
<1>10. ReturnedEnded'
  BY <1>1, <1>2, <1>3 DEF RetryInv, ReturnedEnded
<1>11. InputsKnown'
  BY <1>3 DEF RetryInv, InputsKnown, Owner
<1> QED BY <1>4, <1>6, <1>7, <1>8, <1>9, <1>10, <1>11 DEF RetryInv

\* The attempt and the record of a call that owns one.
LEMMA OwnedTypes ==
  ASSUME RetryInv, NEW c \in Call, Owner(c)
  PROVE  attempts[call[c].attempt] \in Attempt /\ call[c] \in CallRecord
         /\ call \in [Call -> CallRecord] /\ call[c].attempt \in DOMAIN attempts
BY Attempts DEF RetryInv, OwnersOwn, TypeOK, CallRecord

\* Start: the waiting attempt is dispatched and the only one that executes.
LEMMA StartRetry == ASSUME RetryInv, NEW c \in Call, Start(c) PROVE RetryInv'
<1> DEFINE i == call[c].attempt
           e == [attempts[i] EXCEPT !.started = TRUE, !.box = "dispatched"]
           r == [call[c] EXCEPT !.at = "running"]
<1>1. Owner(c) /\ running = {}
  BY DEF Start, Owner, RetryInv, WaitsAlone
<1>2. attempts[i] \in Attempt /\ call[c] \in CallRecord /\ attempts[i].outcome = None
  BY <1>1, OwnedTypes DEF RetryInv, OwnersOwn
<1>3. e \in Attempt /\ e.outcome = None /\ e.box = "dispatched"
  BY <1>2 DEF Attempt
<1>4. r \in CallRecord
  BY <1>2, MovedCall
<1>5. r.at = "running" /\ r.attempt = i /\ r.input = call[c].input
  BY <1>2 DEF CallRecord
<1>6. attempts' = [attempts EXCEPT ![i] = e] /\ call' = [call EXCEPT ![c] = r]
  BY DEF Start
<1>7. running' \subseteq running \cup {i} /\ UNCHANGED <<podVars, grant>>
  BY DEF Start
<1> HIDE DEF e, r
<1> QED BY <1>1, <1>3, <1>4, <1>5, <1>6, <1>7, OwnerRetry

\* A waiting call that gives up settles its attempt.
LEMMA CancelRetry == ASSUME RetryInv, NEW c \in Call, CancelWait(c) PROVE RetryInv'
<1> DEFINE i == call[c].attempt
           e == [attempts[i] EXCEPT !.outcome = "cancelled"]
<1>1. Owner(c) /\ running = {}
  BY DEF CancelWait, Owner, RetryInv, WaitsAlone
<1>2. attempts[i] \in Attempt
  BY <1>1, OwnedTypes
<1>3. e \in Attempt /\ e.outcome # None
  BY <1>2 DEF Attempt, None
<1>4. Idle \in CallRecord /\ Idle.at = "idle"
  BY RetryAssumption DEF Idle, CallRecord
<1>5. attempts' = [attempts EXCEPT ![i] = e] /\ call' = [call EXCEPT ![c] = Idle]
      /\ running' = running /\ UNCHANGED <<podVars, grant>>
  BY DEF CancelWait
<1> HIDE DEF e
<1> QED BY <1>1, <1>3, <1>4, <1>5, OwnerRetry

\* A return settles the attempt, and holds its dispatch unless the execution ended.
LEMMA ReturnRetry ==
  ASSUME RetryInv, NEW c \in Call, NEW res \in Result, Return(c, res)
  PROVE  RetryInv'
<1> DEFINE i == call[c].attempt
           o == IF res = "unverified" THEN "nonretryable" ELSE res
           e == [attempts[i] EXCEPT !.outcome = o, !.box = BoxOf(res)]
           r == [call[c] EXCEPT !.at = "returned"]
<1>1. Owner(c)
  BY DEF Return, Owner
<1>2. attempts[i] \in Attempt /\ call[c] \in CallRecord
  BY <1>1, OwnedTypes
<1>3. o \in {"pass", "transient", "nonretryable", "cancelled"}
      /\ BoxOf(res) \in {"unverified", "recorded"} /\ (res = "unverified" => BoxOf(res) = "unverified")
  BY DEF Result, BoxOf
<1>4. e \in Attempt /\ e.outcome # None /\ e.box = BoxOf(res)
  <2> HIDE DEF o
  <2> QED BY <1>2, <1>3 DEF Attempt, None
<1>5. r \in CallRecord
  BY <1>2, MovedCall
<1>6. r.at = "returned" /\ r.attempt = i /\ r.input = call[c].input
  BY <1>2 DEF CallRecord
<1>7. attempts' = [attempts EXCEPT ![i] = e] /\ call' = [call EXCEPT ![c] = r]
  BY DEF Return
<1>8. running' \subseteq running /\ (i \in running' => res = "unverified") /\ UNCHANGED <<podVars, grant>>
  BY DEF Return
<1> HIDE DEF e, r
<1> QED BY <1>1, <1>3, <1>4, <1>5, <1>6, <1>7, <1>8, OwnerRetry

\* A published call leaves its loop, or goes round again without an attempt.
LEMMA PublishRetry == ASSUME RetryInv, NEW c \in Call, Publish(c) PROVE RetryInv'
<1> DEFINE i == call[c].attempt
           e == [attempts[i] EXCEPT !.box = "published"]
<1>1. /\ attempts \in Seq(Attempt) /\ i \in DOMAIN attempts /\ attempts[i] \in Attempt
      /\ attempts[i].outcome # None /\ DOMAIN attempts \subseteq 1..MaxAttempts
      /\ Len(attempts) \in Nat
  BY Attempts DEF RetryInv, ReturnedEnded, Publish
<1>2. call \in [Call -> CallRecord] /\ call[c] \in CallRecord /\ input \in Input
  BY DEF RetryInv, TypeOK, CallRecord
<1>3. /\ attempts' \in Seq(Attempt) /\ Len(attempts') = Len(attempts)
      /\ DOMAIN attempts' = DOMAIN attempts
      /\ \A j \in DOMAIN attempts : attempts'[j].outcome = attempts[j].outcome
      /\ \A j \in DOMAIN attempts :
           attempts'[j].box = attempts[j].box \/ (j = i /\ attempts[j].box = "recorded")
  <2>1. CASE attempts[i].box # "recorded"
    BY <1>1, <2>1 DEF Publish
  <2>2. CASE attempts[i].box = "recorded"
    <3>1. e \in Attempt /\ e.outcome = attempts[i].outcome
      BY <1>1 DEF Attempt
    <3>2. attempts' = [attempts EXCEPT ![i] = e]
      BY <2>2 DEF Publish
    <3> HIDE DEF e
    <3> QED BY <1>1, <2>2, <3>1, <3>2, UpdateAttempt
  <2> QED BY <2>1, <2>2
<1>4. PICK r \in CallRecord :
        /\ call' = [call EXCEPT ![c] = r]
        /\ r.at = "idle" \/ (r.at = "captured" /\ r.input \in Input)
  <2>1. CASE call' = [call EXCEPT ![c] = Idle]
    <3>1. Idle \in CallRecord /\ Idle.at = "idle"
      BY RetryAssumption DEF Idle, CallRecord
    <3> QED BY <2>1, <3>1
  <2>2. CASE ~(call' = [call EXCEPT ![c] = Idle])
    <3> DEFINE l == call[c].left - 1
               r == [call[c] EXCEPT !.at = "captured", !.left = l, !.attempt = 0, !.input = input]
    <3>1. call[c].left > 0 /\ call' = [call EXCEPT ![c] = r]
      BY <2>2 DEF Publish, MayRetry
    <3>2. l \in 0..Budget /\ input \in Input \cup {None} /\ 0 \in 0..MaxAttempts
      BY <1>2, <3>1, RetryAssumption DEF CallRecord
    <3>3. r \in CallRecord
      <4> HIDE DEF l
      <4> QED BY <1>2, <3>2, RetriedCall
    <3>4. r.at = "captured" /\ r.input = input
      BY <1>2 DEF CallRecord
    <3> HIDE DEF r
    <3> QED BY <1>2, <3>1, <3>3, <3>4
  <2> QED BY <2>1, <2>2
<1>5. /\ call' \in [Call -> CallRecord] /\ call'[c] = r
      /\ \A d \in Call : d # c => call'[d] = call[d]
  BY <1>2, <1>4
<1>6. UNCHANGED <<podVars, grant, running>> /\ call[c].at = "returned"
  BY DEF Publish
<1>7. TypeOK'
  BY <1>3, <1>5, <1>6 DEF RetryInv, TypeOK, Attempt, CallRecord, podVars
<1>8. OpenIsLast' /\ Alone' /\ RunningIsHeld'
  BY <1>3, <1>6 DEF RetryInv, OpenIsLast, Alone, RunningIsHeld
<1>9. \A d \in Call : (Owner(d)' <=> Owner(d)) /\ (Owner(d) => d # c /\ call[d].attempt # i)
  BY <1>1, <1>4, <1>5, <1>6 DEF RetryInv, OwnersOwn, Owner
<1>10. OwnersOwn' /\ WaitsAlone'
  BY <1>3, <1>5, <1>6, <1>9 DEF RetryInv, OwnersOwn, WaitsAlone, Owner
<1>11. OpenIsOwned'
  BY <1>3, <1>5, <1>9 DEF RetryInv, OpenIsOwned, Owner
<1>12. ReturnedEnded' /\ InputsKnown'
  BY <1>3, <1>4, <1>5, <1>6 DEF RetryInv, ReturnedEnded, InputsKnown
<1> QED BY <1>7, <1>8, <1>10, <1>11, <1>12 DEF RetryInv

\* A restart settles the open attempt and forgets every call; executions go on.
LEMMA RestartRetry == ASSUME RetryInv, Restart PROVE RetryInv'
<1>0. /\ attempts \in Seq(Attempt) /\ Len(attempts) \in Nat
      /\ DOMAIN attempts = 1..Len(attempts)
      /\ \A j \in DOMAIN attempts : attempts[j] \in Attempt
  BY Attempts DEF RetryInv
<1>1. /\ attempts' \in Seq(Attempt) /\ Len(attempts') = Len(attempts)
      /\ DOMAIN attempts' = DOMAIN attempts
      /\ \A j \in DOMAIN attempts : attempts'[j].outcome # None /\ attempts'[j].box = attempts[j].box
  <2>1. \A j \in DOMAIN attempts : Interrupted[j] \in Attempt
    BY <1>0 DEF Interrupted, Attempt
  <2>2. Interrupted \in [1..Len(attempts) -> Attempt]
    BY <1>0, <2>1 DEF Interrupted
  <2>3. Interrupted \in Seq(Attempt)
    BY <1>0, <2>2
  <2>4. Len(Interrupted) = Len(attempts) /\ DOMAIN Interrupted = DOMAIN attempts
    BY <1>0, <2>2, <2>3, LenProperties
  <2>5. \A j \in DOMAIN attempts : Interrupted[j].outcome # None /\ Interrupted[j].box = attempts[j].box
    BY <1>0 DEF Interrupted, Attempt, None
  <2> QED BY <2>3, <2>4, <2>5 DEF Restart
<1>2. Idle \in CallRecord /\ Idle.at = "idle"
  BY RetryAssumption DEF Idle, CallRecord
<1>3. call' \in [Call -> CallRecord] /\ (\A d \in Call : call'[d].at = "idle") /\ UNCHANGED <<podVars, grant, running>>
  BY <1>2 DEF Restart
<1>4. TypeOK'
  BY <1>1, <1>3 DEF RetryInv, TypeOK, Attempt, CallRecord, podVars
<1>5. OpenIsLast' /\ Alone' /\ RunningIsHeld' /\ OpenIsOwned'
  BY <1>1, <1>3 DEF RetryInv, OpenIsLast, Alone, RunningIsHeld, OpenIsOwned
<1>6. OwnersOwn' /\ ReturnedEnded' /\ WaitsAlone' /\ InputsKnown'
  BY <1>3 DEF OwnersOwn, ReturnedEnded, WaitsAlone, InputsKnown, Owner
<1> QED BY <1>4, <1>5, <1>6 DEF RetryInv
----------------------------------------------------------------------------
\* Every step keeps the invariant.
LEMMA StepRetry == ASSUME RetryInv, [Next]_retryVars PROVE RetryInv'
<1>1. CASE UNCHANGED retryVars
  <2>1. TypeOK' /\ UNCHANGED <<attempts, running, call>>
    BY <1>1 DEF retryVars, podVars, RetryInv, TypeOK
  <2> QED BY <2>1, QuietRetry
<1>2. ASSUME NEW c \in Call, CallStep(c) PROVE RetryInv'
  BY <1>2, BeginRetry, AdmissionRetry, StartRetry, CancelRetry, ReturnRetry DEF CallStep
<1>3. CASE WorldStep
  BY <1>3, WorldRetry, ElapseRetry DEF WorldStep
<1> QED BY <1>1, <1>2, <1>3, PublishRetry, RestartRetry DEF Next

\* RetryInv is an invariant of the ledger.
LEMMA RetryInvariant == Spec => []RetryInv
BY InitRetry, StepRetry, PTL DEF Spec

\* Types of the ledger and of its calls, for any number of pods and attempts.
THEOREM RetryTypeOK == Spec => []TypeOK
BY RetryInvariant, PTL DEF RetryInv

\* An execution that may still be running is held by its dispatch, across restarts
\* (validation-execution-ledger.ts).
THEOREM RetryRunningIsHeld == Spec => []RunningIsHeld
BY RetryInvariant, PTL DEF RetryInv

\* One validation of a task executes at a time, whatever its pods, generations and the
\* daemon's restarts (validation-execution.ts).
THEOREM RetryOneExecution == Spec => []OneExecution
<1>1. RetryInv => OneExecution
  <2> SUFFICES ASSUME RetryInv PROVE Cardinality(running) <= 1
    BY DEF OneExecution
  <2>1. CASE running = {}
    BY <2>1, FS_EmptySet
  <2>2. ASSUME NEW i \in running PROVE Cardinality(running) <= 1
    <3>1. running = {i}
      BY DEF RetryInv, Alone
    <3>2. Cardinality({i}) = 1
      BY FS_Singleton
    <3> QED BY <3>1, <3>2
  <2> QED BY <2>1, <2>2
<1> QED BY <1>1, RetryInvariant, PTL

\* Every open attempt has a call that will settle it, after a restart too
\* (task-retry-ledger.ts).
THEOREM RetryOpenIsOwned == Spec => []OpenIsOwned
BY RetryInvariant, PTL DEF RetryInv
----------------------------------------------------------------------------
(* The retry budget.                                                         *)

Transients == {i \in DOMAIN attempts : attempts[i].kind = "transient"}

\* The automatic retries are finitely many.
LEMMA TransientsFinite == ASSUME RetryInv PROVE IsFiniteSet(Transients)
<1>1. Transients \subseteq 1..Len(attempts) /\ Len(attempts) \in Nat
  BY Attempts DEF RetryInv, Transients
<1>2. IsFiniteSet(1..Len(attempts))
  BY <1>1, FS_Interval
<1> QED BY <1>1, <1>2, FS_Subset

\* Why an attempt was admitted after the failure before it: nothing failed, the inputs
\* had changed, or an authorization was spent on it - or it is an automatic retry.
Admitted == \A i \in DOMAIN attempts :
  /\ attempts[i].failure < i
  /\ attempts[i].kind = None => attempts[i].failure = 0
  /\ attempts[i].kind = "changed_conditions" /\ attempts[i].failure # 0 =>
       attempts[attempts[i].failure].input # attempts[i].input
  /\ attempts[i].kind = "override" => \E k \in Key : grant[k].use = i

\* An authorization that was not given was not spent.
GrantsFresh == \A k \in Key : grant[k].failure = 0 => grant[k].use = 0

\* The inductive invariant of the budget: retries are counted over all attempts of the
\* task, and every other attempt says why it is none.
BudgetInv == RetryInv /\ Admitted /\ GrantsFresh /\ Cardinality(Transients) <= Budget

\* What an attempt was admitted for never changes.
SameReasons ==
  /\ DOMAIN attempts' = DOMAIN attempts
  /\ \A i \in DOMAIN attempts : /\ attempts'[i].kind = attempts[i].kind
                               /\ attempts'[i].failure = attempts[i].failure
                               /\ attempts'[i].input = attempts[i].input

\* The admission of a call, for any reason.
Admission(c) ==
  AdmitFirst(c) \/ AdmitRetry(c) \/ AdmitChanged(c) \/ \E k \in Key : AdmitGranted(c, k)

\* Only an admission adds an attempt or spends an authorization.
LEMMA ReasonsKept ==
  ASSUME RetryInv, GrantsFresh, [Next]_retryVars, \A c \in Call : ~Admission(c)
  PROVE  SameReasons /\ GrantsFresh' /\ \A k \in Key : grant[k].use # 0 => grant'[k] = grant[k]
<1>0. /\ attempts \in [1..Len(attempts) -> Attempt] /\ DOMAIN attempts = 1..Len(attempts)
      /\ grant \in [Key -> [pod : Pod \cup {None}, failure : 0..MaxAttempts, use : 0..MaxAttempts]]
  BY Attempts, LenProperties DEF RetryInv, TypeOK
<1>1. CASE UNCHANGED <<attempts, grant>>
  BY <1>1 DEF SameReasons, GrantsFresh
<1>2. ASSUME NEW c \in Call, Start(c) PROVE SameReasons /\ UNCHANGED grant
  <2>1. call[c].attempt \in DOMAIN attempts
    BY <1>2 DEF Start, RetryInv, OwnersOwn, Owner
  <2> QED BY <1>0, <1>2, <2>1 DEF Start, SameReasons, Attempt
<1>3. ASSUME NEW c \in Call, CancelWait(c) PROVE SameReasons /\ UNCHANGED grant
  BY <1>0, <1>3 DEF CancelWait, SameReasons, Attempt
<1>4. ASSUME NEW c \in Call, NEW res \in Result, Return(c, res) PROVE SameReasons /\ UNCHANGED grant
  <2>1. call[c].attempt \in DOMAIN attempts
    BY <1>4 DEF Return, RetryInv, OwnersOwn, Owner
  <2>2. attempts' = [attempts EXCEPT ![call[c].attempt] =
          [attempts[call[c].attempt] EXCEPT !.outcome = IF res = "unverified" THEN "nonretryable" ELSE res,
                                            !.box = BoxOf(res)]]
    BY <1>4 DEF Return
  <2> QED BY <1>0, <1>4, <2>1, <2>2 DEF Return, SameReasons, Attempt
<1>5. ASSUME NEW c \in Call, Publish(c) PROVE SameReasons /\ UNCHANGED grant
  <2>1. UNCHANGED grant /\ (\/ UNCHANGED attempts
                           \/ attempts' = [attempts EXCEPT ![call[c].attempt].box = "published"])
    BY <1>5 DEF Publish
  <2>2. call[c].attempt \in DOMAIN attempts
    BY <1>5 DEF Publish, RetryInv, ReturnedEnded
  <2>3. CASE UNCHANGED attempts
    BY <2>1, <2>3 DEF SameReasons
  <2>4. CASE attempts' = [attempts EXCEPT ![call[c].attempt].box = "published"]
    <3>1. SameReasons
      BY <1>0, <2>2, <2>4 DEF SameReasons, Attempt
    <3> QED BY <2>1, <3>1
  <2> QED BY <2>1, <2>3, <2>4
<1>6. ASSUME NEW i \in 1..MaxAttempts, Elapse(i) PROVE SameReasons /\ UNCHANGED grant
  BY <1>0, <1>6 DEF Elapse, SameReasons, Attempt
<1>7. ASSUME Restart PROVE SameReasons /\ UNCHANGED grant
  BY <1>0, <1>7 DEF Restart, Interrupted, SameReasons, Attempt
<1>8. ASSUME NEW p \in Pod, NEW k \in Key, Authorize(p, k)
      PROVE  SameReasons /\ GrantsFresh' /\ \A l \in Key : grant[l].use # 0 => grant'[l] = grant[l]
  <2>1. grant[k].use = 0 /\ grant' = [grant EXCEPT ![k] = [pod |-> p, failure |-> LatestFailure, use |-> 0]]
    BY <1>8 DEF Authorize, GrantsFresh
  <2>2. SameReasons
    BY <1>8 DEF Authorize, SameReasons
  <2> QED BY <1>0, <2>1, <2>2 DEF GrantsFresh
<1>9. ASSUME UNCHANGED grant PROVE GrantsFresh' /\ \A k \in Key : grant[k].use # 0 => grant'[k] = grant[k]
  BY <1>9 DEF GrantsFresh
<1>10. CASE \/ \E c \in Call : CallStep(c)
            \/ WorldStep
  <2>1. CASE \E c \in Call : CallStep(c)
    BY <1>1, <1>2, <1>3, <1>4, <1>9, <2>1 DEF CallStep, Admission, Begin, Refused
  <2>2. CASE WorldStep
    BY <1>1, <1>6, <1>8, <1>9, <2>2 DEF WorldStep, OrphanEnds, NewGeneration, Decision, Edit, podVars
  <2> QED BY <1>10, <2>1, <2>2
<1>11. CASE UNCHANGED retryVars
  BY <1>1, <1>11 DEF retryVars
<1> QED BY <1>5, <1>7, <1>9, <1>10, <1>11 DEF Next, Restart

\* No attempt, no retry.
LEMMA BudgetInit == Init => BudgetInv
<1> SUFFICES ASSUME Init PROVE BudgetInv
  OBVIOUS
<1>1. DOMAIN attempts = {} /\ \A k \in Key : grant[k].use = 0
  BY DEF Init, NoGrant
<1>2. Transients = {} /\ Cardinality(Transients) <= Budget
  BY <1>1, FS_EmptySet, RetryAssumption DEF Transients
<1> QED BY <1>1, <1>2, InitRetry DEF BudgetInv, Admitted, GrantsFresh

\* A step that adds no attempt and takes back no authorization keeps the budget.
LEMMA BudgetKept ==
  ASSUME BudgetInv, RetryInv', SameReasons, GrantsFresh',
         \A k \in Key : grant[k].use # 0 => grant'[k] = grant[k]
  PROVE  BudgetInv'
<1>0. DOMAIN attempts = 1..Len(attempts) /\ Len(attempts) \in Nat
  BY Attempts DEF BudgetInv, RetryInv
<1>1. Transients' = Transients
  BY DEF Transients, SameReasons
<1>2. Admitted'
  <2> SUFFICES ASSUME NEW i \in DOMAIN attempts
               PROVE  /\ attempts'[i].failure < i
                      /\ attempts'[i].kind = None => attempts'[i].failure = 0
                      /\ attempts'[i].kind = "changed_conditions" /\ attempts'[i].failure # 0 =>
                           attempts'[attempts'[i].failure].input # attempts'[i].input
                      /\ attempts'[i].kind = "override" => \E k \in Key : grant'[k].use = i
    BY DEF Admitted, SameReasons
  <2>1. attempts'[i].kind = attempts[i].kind /\ attempts'[i].failure = attempts[i].failure
        /\ attempts'[i].input = attempts[i].input
    BY DEF SameReasons
  <2>2. attempts[i].failure \in Nat
    BY Attempts DEF BudgetInv, RetryInv, Attempt
  <2>3. attempts[i].failure < i
    BY DEF BudgetInv, Admitted
  <2>4. attempts[i].failure # 0 => attempts[i].failure \in DOMAIN attempts
    BY <1>0, <2>2, <2>3
  <2>5. attempts[i].failure # 0 =>
          attempts'[attempts[i].failure].input = attempts[attempts[i].failure].input
    BY <2>4 DEF SameReasons
  <2>6. i # 0
    BY <1>0
  <2>7. \A k \in Key : grant[k].use = i => grant'[k].use = i
    BY <2>6
  <2> QED BY <2>1, <2>3, <2>5, <2>7 DEF BudgetInv, Admitted
<1> QED BY <1>1, <1>2 DEF BudgetInv

\* An admission: a retry counts, and anything else says why it is none.
LEMMA BudgetAdmission ==
  ASSUME BudgetInv, RetryInv', NEW c \in Call, Admission(c)
  PROVE  BudgetInv'
<1> DEFINE n == Len(attempts)
<1>0. /\ attempts \in Seq(Attempt) /\ DOMAIN attempts = 1..n /\ n \in Nat
      /\ grant \in [Key -> [pod : Pod \cup {None}, failure : 0..MaxAttempts, use : 0..MaxAttempts]]
      /\ Budget \in Nat
  BY Attempts, RetryAssumption DEF BudgetInv, RetryInv, TypeOK
<1>1. PICK kind \in {None, "transient", "changed_conditions", "override"} :
        /\ Admit(c, kind)
        /\ kind = None => LatestFailure = 0
        /\ kind = "transient" => Retries(c[1]) < Budget
        /\ kind = "changed_conditions" => attempts[LatestFailure].input # call[c].input
        /\ IF kind = "override" THEN \E k \in Key : k \in Grants(c[1]) /\ grant' = [grant EXCEPT ![k].use = n + 1]
                                ELSE UNCHANGED grant
  <2>1. CASE AdmitFirst(c)
    BY <2>1 DEF AdmitFirst, None
  <2>2. CASE AdmitRetry(c)
    BY <2>2 DEF AdmitRetry, None
  <2>3. CASE AdmitChanged(c)
    BY <2>3 DEF AdmitChanged, None
  <2>4. ASSUME NEW k \in Key, AdmitGranted(c, k)
        PROVE  /\ Admit(c, "override") /\ k \in Grants(c[1])
               /\ grant' = [grant EXCEPT ![k].use = n + 1]
    BY <2>4 DEF AdmitGranted
  <2>5. CASE \E k \in Key : AdmitGranted(c, k)
    BY <2>4, <2>5 DEF None
  <2> QED BY <2>1, <2>2, <2>3, <2>5 DEF Admission
<1> DEFINE a == [pod |-> c[1], input |-> call[c].input, kind |-> kind,
                 failure |-> LatestFailure, due |-> kind # "transient", started |-> FALSE,
                 outcome |-> None, box |-> None]
<1>2. attempts' = Append(attempts, a)
  BY <1>1 DEF Admit
<1>3. a.kind = kind /\ a.failure = LatestFailure /\ a.input = call[c].input
  OBVIOUS
<1> HIDE DEF a
<1>4. /\ DOMAIN attempts' = 1..(n + 1) /\ attempts'[n + 1] = a
      /\ \A i \in 1..n : attempts'[i] = attempts[i]
  <2>1. attempts' \in Seq(Attempt) /\ a \in Attempt
    <3>1. TypeOK'
      BY DEF RetryInv
    <3>2. attempts' \in Seq(Attempt)
      BY <3>1 DEF TypeOK, Attempt
    <3>3. c[1] \in Pod /\ call[c].input \in Input /\ LatestFailure \in Nat
      BY <1>0, <1>1 DEF Call, Admit, BudgetInv, RetryInv, InputsKnown, LatestFailure
    <3>4. a \in Attempt
      BY <3>3 DEF a, Attempt, None
    <3> QED BY <3>2, <3>4
  <2> QED BY <1>0, <1>2, <2>1, AppendProperties
<1>5. LatestFailure \in 0..n
  BY <1>0 DEF LatestFailure
<1>6. \A k \in Key : grant[k].use # 0 => grant'[k] = grant[k]
  BY <1>0, <1>1 DEF Grants
<1>7. GrantsFresh'
  BY <1>0, <1>1 DEF Grants, GrantsFresh, BudgetInv
<1>8. Admitted'
  <2> SUFFICES ASSUME NEW i \in 1..(n + 1)
               PROVE  /\ attempts'[i].failure < i
                      /\ attempts'[i].kind = None => attempts'[i].failure = 0
                      /\ attempts'[i].kind = "changed_conditions" /\ attempts'[i].failure # 0 =>
                           attempts'[attempts'[i].failure].input # attempts'[i].input
                      /\ attempts'[i].kind = "override" => \E k \in Key : grant'[k].use = i
    BY <1>4 DEF Admitted
  <2>1. CASE i \in 1..n
    <3>1. attempts[i].failure \in Nat /\ attempts[i].failure < i
      BY <1>0, <2>1, Attempts DEF BudgetInv, RetryInv, Attempt, Admitted
    <3>2. attempts[i].failure # 0 => attempts[i].failure \in 1..n
      BY <1>0, <2>1, <3>1
    <3>3. \A k \in Key : grant[k].use = i => grant'[k].use = i
      BY <1>6, <2>1
    <3> QED BY <1>0, <1>4, <2>1, <3>1, <3>2, <3>3 DEF BudgetInv, Admitted
  <2>2. CASE i = n + 1
    <3>1. kind = "override" => \E k \in Key : grant'[k].use = n + 1
      BY <1>0, <1>1
    <3>2. LatestFailure # 0 => attempts'[LatestFailure] = attempts[LatestFailure]
      BY <1>0, <1>4, <1>5
    <3>3. LatestFailure < n + 1
      BY <1>0, <1>5
    <3> QED BY <1>1, <1>3, <1>4, <2>2, <3>1, <3>2, <3>3
  <2> QED BY <1>0, <2>1, <2>2
<1>9. Cardinality(Transients)' <= Budget
  <2>1. IsFiniteSet(Transients) /\ n + 1 \notin Transients
    BY <1>0, TransientsFinite DEF Transients, BudgetInv
  <2>2. CASE kind = "transient"
    <3>1. Transients' = Transients \cup {n + 1}
      BY <1>0, <1>3, <1>4, <2>2 DEF Transients
    <3>2. Cardinality(Transients') = Cardinality(Transients) + 1
      BY <2>1, <3>1, FS_AddElement
    <3>3. Cardinality(Transients) < Budget /\ Cardinality(Transients) \in Nat
      BY <1>1, <2>1, <2>2, FS_CardinalityType DEF Retries, Transients
    <3> QED BY <1>0, <3>2, <3>3
  <2>3. CASE kind # "transient"
    <3>1. Transients' = Transients
      BY <1>0, <1>3, <1>4, <2>3 DEF Transients
    <3> QED BY <3>1 DEF BudgetInv
  <2> QED BY <2>2, <2>3
<1> QED BY <1>7, <1>8, <1>9 DEF BudgetInv

\* Every blind retry is one of the automatic retries that the admissions count.
LEMMA BlindIsTransient == BudgetInv => BlindRetries \subseteq Transients
<1> SUFFICES ASSUME BudgetInv, NEW i \in BlindRetries PROVE i \in Transients
  OBVIOUS
<1>1. /\ i \in DOMAIN attempts /\ attempts[i].failure # 0
      /\ attempts[attempts[i].failure].input = attempts[i].input
      /\ \A k \in Key : grant[k].use # i
  BY DEF BlindRetries, GrantOf
<1>2. attempts[i].kind \in {None, "transient", "changed_conditions", "override"}
  BY <1>1, Attempts DEF BudgetInv, RetryInv, Attempt
<1> QED BY <1>1, <1>2 DEF BudgetInv, Admitted, Transients

\* BudgetInv is an invariant of the ledger.
LEMMA BudgetInvariant == Spec => []BudgetInv
<1>1. ASSUME BudgetInv, [Next]_retryVars PROVE BudgetInv'
  <2>1. RetryInv'
    BY <1>1, StepRetry DEF BudgetInv
  <2>2. CASE \E c \in Call : Admission(c)
    BY <1>1, <2>1, <2>2, BudgetAdmission
  <2>3. CASE \A c \in Call : ~Admission(c)
    BY <1>1, <2>1, <2>3, ReasonsKept, BudgetKept DEF BudgetInv
  <2> QED BY <2>2, <2>3
<1> QED BY <1>1, BudgetInit, PTL DEF Spec

\* Inputs that failed are validated again without a human at most Budget times in the
\* life of a task, for any number of pods, generations, authorizations and restarts
\* (task-retry-ledger.ts, evaluate).
THEOREM RetryBudgetHolds == Spec => []BudgetHolds
<1>1. BudgetInv => BudgetHolds
  <2> SUFFICES ASSUME BudgetInv PROVE Cardinality(BlindRetries) <= Budget
    BY DEF BudgetHolds
  <2>1. IsFiniteSet(Transients)
    BY TransientsFinite DEF BudgetInv
  <2>2. /\ IsFiniteSet(BlindRetries) /\ Cardinality(BlindRetries) <= Cardinality(Transients)
        /\ Cardinality(BlindRetries) \in Nat /\ Cardinality(Transients) \in Nat
    BY <2>1, BlindIsTransient, FS_Subset, FS_CardinalityType
  <2> QED BY <2>2, RetryAssumption DEF BudgetInv
<1> QED BY <1>1, BudgetInvariant, PTL
============================================================================
