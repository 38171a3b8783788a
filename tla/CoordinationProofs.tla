-------------------------- MODULE CoordinationProofs ------------------------
(* Proofs about the four parts of MCCoordination, for every value of the       *)
(* constants: the keyed promise queue, the polls of a pod, the pods that wait   *)
(* for other pods, and the event stream to the desktop client.                  *)
EXTENDS MCCoordination, TLAPS

----------------------------------------------------------------------------
(* The promise queue per key.                                                 *)

\* Types, without the sequences that only the refinement uses.
Types ==
  /\ key \in [Call -> Key \cup {NoKey}]
  /\ after \in [Call -> Call \cup {None}]
  /\ phase \in [Call -> {"unmade", "chained", "running", "resolved", "rejected", "returned"}]
  /\ locks \in [Key -> Call \cup {None}]

\* A call is chained to an earlier one.
Backwards == \A c \in Call : after[c] < c

\* The calls made are an initial segment, and have keys.
Prefix == \A c \in Call :
  /\ (key[c] = NoKey) <=> (phase[c] = "unmade")
  /\ phase[c] = "unmade" => after[c] = None
  /\ phase[c] # "unmade" => \A d \in Call : d < c => phase[d] # "unmade"

\* A slot holds a call of its key that is the last one not settled, or a later one.
Slots == \A k \in Key :
  /\ locks[k] # None => key[locks[k]] = k /\ phase[locks[k]] # "returned"
  /\ \A d \in Call : key[d] = k /\ ~Settled(d) => locks[k] # None /\ d <= locks[k]

\* What a call is chained to covers every earlier call of its key that is not settled.
Chain == \A c \in Call :
  /\ after[c] # None => key[after[c]] = key[c]
  /\ \A d \in Call : d < c /\ key[d] = key[c] /\ phase[c] # "unmade" /\ ~Settled(d) =>
       after[c] # None /\ d <= after[c]

\* A call whose function has begun has only settled calls before it.
Order == \A c \in Call : phase[c] \notin {"unmade", "chained"} =>
  \A d \in Call : d < c /\ key[d] = key[c] => Settled(d)

\* The inductive invariant.
QueueInv == Types /\ Backwards /\ Prefix /\ Slots /\ Chain /\ Order

\* No call has been made.
LEMMA InitQueue == Init => QueueInv
BY QueueAssumption DEF Init, QueueInv, Types, Backwards, Prefix, Slots, Chain, Order, Settled, Call, None

\* A call chains itself to the last of its key.
LEMMA RunQueue ==
  ASSUME QueueInv, NEW c \in Call, NEW k \in Key, Run(c, k)
  PROVE  QueueInv'
<1>0. MaxCalls \in Nat /\ NoKey \notin Key
  BY QueueAssumption
<1>1. /\ key' = [key EXCEPT ![c] = k] /\ after' = [after EXCEPT ![c] = locks[k]]
      /\ phase' = [phase EXCEPT ![c] = "chained"] /\ locks' = [locks EXCEPT ![k] = c]
      /\ phase[c] = "unmade" /\ key[c] = NoKey
      /\ \A d \in Call : d < c => phase[d] # "unmade"
  BY DEF Run, Made, QueueInv, Prefix
<1>2. \A d \in Call : phase[d] # "unmade" => d < c
  BY <1>0, <1>1 DEF QueueInv, Prefix, Call
<1>3. \A d \in Call : d # c => (key'[d] = key[d] /\ after'[d] = after[d] /\ phase'[d] = phase[d])
  BY <1>1 DEF QueueInv, Types
<1>4. key'[c] = k /\ after'[c] = locks[k] /\ phase'[c] = "chained" /\ locks'[k] = c
  BY <1>1 DEF QueueInv, Types
<1>5. Types' /\ Backwards'
  <2>1. Types'
    BY <1>1 DEF QueueInv, Types
  <2>2. locks[k] < c
    <3>1. CASE locks[k] = None
      BY <3>1, <1>0 DEF Call, None
    <3>2. CASE locks[k] # None
      BY <3>2, <1>2, <1>0 DEF QueueInv, Slots, Types, Prefix
    <3>3. QED
      BY <3>1, <3>2
  <2>3. QED
    BY <2>1, <2>2, <1>3, <1>4 DEF QueueInv, Backwards
<1>6. Prefix'
  BY <1>0, <1>1, <1>2, <1>3, <1>4 DEF QueueInv, Prefix, Call
<1>7. Slots'
  <2>1. \A j \in Key : j # k => locks'[j] = locks[j]
    BY <1>1 DEF QueueInv, Types
  <2>2. SUFFICES ASSUME NEW j \in Key
                 PROVE  /\ locks'[j] # None => key'[locks'[j]] = j /\ phase'[locks'[j]] # "returned"
                        /\ \A d \in Call : key'[d] = j /\ ~Settled(d)' => locks'[j] # None /\ d <= locks'[j]
    BY DEF Slots
  <2>3. CASE j = k
    BY <2>3, <1>0, <1>2, <1>3, <1>4 DEF QueueInv, Prefix, Call, None
  <2>4. CASE j # k
    <3>1. locks[j] # c
      BY <1>0, <1>1 DEF QueueInv, Slots, Types, Call, None
    <3>2. QED
      BY <2>4, <2>1, <3>1, <1>0, <1>3, <1>4 DEF QueueInv, Slots, Settled, Types
  <2>5. QED
    BY <2>3, <2>4
<1>8. Chain'
  <2>1. SUFFICES ASSUME NEW e \in Call
                 PROVE  /\ after'[e] # None => key'[after'[e]] = key'[e]
                        /\ \A d \in Call : d < e /\ key'[d] = key'[e] /\ phase'[e] # "unmade" /\ ~Settled(d)' =>
                             after'[e] # None /\ d <= after'[e]
    BY DEF Chain
  <2>2. CASE e = c
    <3>1. locks[k] # None => locks[k] \in Call /\ locks[k] # c /\ key[locks[k]] = k
      BY <1>0, <1>1 DEF QueueInv, Slots, Types
    <3>2. \A d \in Call : d < c => d # c
      BY <1>0 DEF Call
    <3>3. QED
      BY <2>2, <3>1, <3>2, <1>3, <1>4 DEF QueueInv, Slots, Settled
  <2>3. CASE e # c
    <3>1. phase[e] # "unmade" => e < c
      BY <1>2
    <3>2. after[e] # None => after[e] \in Call /\ key[after[e]] = key[e]
      BY DEF QueueInv, Chain, Types
    <3>3. CASE phase[e] = "unmade"
      <4>1. key[e] = NoKey /\ phase'[e] = "unmade"
        BY <3>3, <2>3, <1>3 DEF QueueInv, Prefix
      <4>2. after'[e] = None
        BY <3>3, <2>3, <1>3 DEF QueueInv, Prefix
      <4>3. QED
        BY <4>1, <4>2
    <3>4. CASE phase[e] # "unmade"
      <4>1. after[e] # None => after[e] # c
        BY <3>1, <3>2, <3>4, <1>0 DEF QueueInv, Backwards, Call
      <4>2. \A d \in Call : d < e => d # c
        BY <3>1, <3>4, <1>0 DEF Call
      <4>3. QED
        BY <4>1, <4>2, <3>2, <2>3, <1>3 DEF QueueInv, Chain, Settled
    <3>5. QED
      BY <3>3, <3>4
  <2>4. QED
    BY <2>2, <2>3
<1>9. Order'
  <2>1. SUFFICES ASSUME NEW e \in Call, phase'[e] \notin {"unmade", "chained"}, NEW d \in Call, d < e,
                        key'[d] = key'[e]
                 PROVE  Settled(d)'
    BY DEF Order
  <2>2. e # c
    BY <2>1, <1>4
  <2>3. e < c /\ d # c
    BY <2>1, <2>2, <1>0, <1>2, <1>3 DEF Call
  <2>4. QED
    BY <2>1, <2>2, <2>3, <1>3 DEF QueueInv, Order, Settled
<1>10. QED
  BY <1>5, <1>6, <1>7, <1>8, <1>9 DEF QueueInv

\* It begins, settles or returns.
LEMMA StepQueue ==
  ASSUME QueueInv, NEW c \in Call, Begin(c) \/ Settle(c) \/ Return(c)
  PROVE  QueueInv'
<1>0. MaxCalls \in Nat /\ NoKey \notin Key
  BY QueueAssumption
<1>1. key' = key /\ after' = after
  BY DEF Begin, Settle, Return
<1>2. phase[c] # "unmade" /\ key[c] \in Key
  BY DEF Begin, Settle, Return, QueueInv, Prefix, Types
<1>3. \A d \in Call : d # c => phase'[d] = phase[d]
  BY DEF Begin, Settle, Return, QueueInv, Types
<1>4. phase'[c] \in {"running", "resolved", "rejected", "returned"}
  BY DEF Begin, Settle, Return, QueueInv, Types
<1>5. \A d \in Call : Settled(d) => Settled(d)'
  <2>1. Settled(c) => Settled(c)'
    BY DEF Begin, Settle, Return, QueueInv, Types, Settled
  <2>2. QED
    BY <2>1, <1>3 DEF Settled
<1>6. Types' /\ Backwards'
  <2>1. locks' \in [Key -> Call \cup {None}]
    BY <1>2 DEF Begin, Settle, Return, QueueInv, Types
  <2>2. phase' \in [Call -> {"unmade", "chained", "running", "resolved", "rejected", "returned"}]
    BY DEF Begin, Settle, Return, QueueInv, Types
  <2>3. QED
    BY <2>1, <2>2, <1>1 DEF QueueInv, Types, Backwards
<1>7. Prefix'
  BY <1>1, <1>2, <1>3, <1>4 DEF QueueInv, Prefix
<1>8. Order'
  <2>1. SUFFICES ASSUME NEW e \in Call, phase'[e] \notin {"unmade", "chained"}, NEW d \in Call, d < e,
                        key[d] = key[e]
                 PROVE  Settled(d)
    BY <1>1, <1>5 DEF Order
  <2>2. CASE phase[e] \notin {"unmade", "chained"}
    BY <2>1, <2>2 DEF QueueInv, Order
  <2>3. CASE phase[e] \in {"unmade", "chained"}
    <3>1. e = c /\ phase[c] = "chained" /\ Begin(c)
      BY <2>1, <2>3, <1>3, <1>2 DEF Begin, Settle, Return
    <3>2. after[c] # None => Settled(after[c]) /\ after[c] \in Call /\ key[after[c]] = key[c]
      BY <3>1 DEF Begin, QueueInv, Types, Chain
    <3>3. ~Settled(d) => after[c] # None /\ d <= after[c]
      BY <2>1, <3>1 DEF QueueInv, Chain
    <3>4. after[c] # None => phase[after[c]] \notin {"unmade", "chained"}
      BY <3>2 DEF Settled
    <3>5. ASSUME ~Settled(d) PROVE FALSE
      <4>1. after[c] # None /\ after[c] \in Call /\ d < after[c]
        BY <3>2, <3>3, <3>5, <1>0 DEF Call
      <4>2. QED
        BY <4>1, <3>2, <3>4, <3>5, <2>1, <3>1 DEF QueueInv, Order
    <3>6. QED
      BY <3>5
  <2>4. QED
    BY <2>2, <2>3
<1>9. Chain'
  <2>1. \A e \in Call : (phase'[e] # "unmade") => (phase[e] # "unmade")
    BY <1>2, <1>3
  <2>2. QED
    BY <1>1, <1>5, <2>1 DEF QueueInv, Chain
<1>10. Slots'
  <2>1. CASE Begin(c) \/ Settle(c)
    <3>1. locks' = locks
      BY <2>1 DEF Begin, Settle
    <3>2. \A d \in Call : phase'[d] = "returned" => phase[d] = "returned"
      BY <2>1, <1>3 DEF Begin, Settle, QueueInv, Types
    <3>3. QED
      BY <3>1, <3>2, <1>1, <1>5 DEF QueueInv, Slots, Types
  <2>2. CASE Return(c)
    <3>1. /\ locks' = [locks EXCEPT ![key[c]] = IF @ = c THEN None ELSE @]
          /\ phase[c] \in {"resolved", "rejected"}
      BY <2>2 DEF Return
    <3>2. SUFFICES ASSUME NEW k \in Key
                   PROVE  /\ locks'[k] # None => key[locks'[k]] = k /\ phase'[locks'[k]] # "returned"
                          /\ \A d \in Call : key[d] = k /\ ~Settled(d)' => locks'[k] # None /\ d <= locks'[k]
      BY <1>1 DEF Slots
    <3>3. \A d \in Call : key[d] = k /\ ~Settled(d) => locks[k] # None /\ d <= locks[k]
      BY DEF QueueInv, Slots
    <3>4. locks[k] # None => locks[k] \in Call /\ key[locks[k]] = k /\ phase[locks[k]] # "returned"
      BY DEF QueueInv, Slots, Types
    <3>5. CASE k = key[c] /\ locks[k] = c
      <4>1. locks'[k] = None
        BY <3>1, <3>5 DEF QueueInv, Types
      <4>2. \A d \in Call : key[d] = k => Settled(d)
        <5>1. Settled(c)
          BY <3>1 DEF Settled
        <5>2. SUFFICES ASSUME NEW d \in Call, key[d] = k, ~Settled(d) PROVE FALSE
          OBVIOUS
        <5>3. d < c
          BY <5>1, <5>2, <3>3, <3>5, <1>0 DEF Call
        <5>4. QED
          BY <5>2, <5>3, <3>1, <3>5 DEF QueueInv, Order
      <4>3. QED
        BY <4>1, <4>2, <1>5
    <3>6. CASE ~(k = key[c] /\ locks[k] = c)
      <4>1. locks'[k] = locks[k]
        BY <3>1, <3>6, <1>2 DEF QueueInv, Types
      <4>2. locks[k] # None => locks[k] # c
        BY <3>4, <3>6
      <4>3. QED
        BY <4>1, <4>2, <3>3, <3>4, <1>3, <1>5
    <3>7. QED
      BY <3>5, <3>6
  <2>3. QED
    BY <2>1, <2>2
<1>11. QED
  BY <1>6, <1>7, <1>8, <1>9, <1>10 DEF QueueInv

LEMMA StutterQueue == QueueInv /\ UNCHANGED queueVars => QueueInv'
BY DEF queueVars, QueueInv, Types, Backwards, Prefix, Slots, Chain, Order, Settled

\* The chain of promises, with its slots, is as QueueInv says in every reachable state.
THEOREM QueueInvariant == Spec => []QueueInv
<1>1. QueueInv /\ [Next]_queueVars => QueueInv'
  BY RunQueue, StepQueue, StutterQueue DEF Next
<1>2. QED
  BY <1>1, InitQueue, PTL DEF Spec

\* The queue's map and promises have their types, and no call waits for a later one.
THEOREM QueueTypeCorrect == Spec => []TypeOK
<1>1. QueueInv => TypeOK
  BY DEF QueueInv, Types, Backwards, TypeOK
<1>2. QED
  BY <1>1, QueueInvariant, PTL

\* KeyedPromiseQueue.run: two sections of one key never overlap.
THEOREM QueueExclusive == Spec => []Exclusive
<1>1. QueueInv => Exclusive
  <2>1. SUFFICES ASSUME QueueInv, NEW k \in Key, NEW c \in Running(k), NEW d \in Running(k), c # d
                 PROVE  FALSE
    BY DEF Exclusive
  <2>2. /\ c \in Call /\ key[c] = k /\ phase[c] = "running"
        /\ d \in Call /\ key[d] = k /\ phase[d] = "running"
    BY DEF Running
  <2>3. ~Settled(c) /\ ~Settled(d)
    BY <2>2 DEF Settled
  <2>4. c < d \/ d < c
    BY <2>1, <2>2, QueueAssumption DEF Call
  <2>5. QED
    BY <2>1, <2>2, <2>3, <2>4 DEF QueueInv, Order
<1>2. QED
  BY <1>1, QueueInvariant, PTL

\* The finally block: a slot never outlives the call it belongs to.
THEOREM QueueSlotsActive == Spec => []SlotsAreActive
<1>1. QueueInv => SlotsAreActive
  BY DEF QueueInv, Slots, SlotsAreActive
<1>2. QED
  BY <1>1, QueueInvariant, PTL

----------------------------------------------------------------------------
(* The polls of a pod.                                                        *)

\* The bounds of the polls.
LEMMA PollBounds == Polls!PollingAssumption
BY PartsAssumption

\* An unsettled operation is the recorded one, and there is no other.
OpInv == Polls!TypeOK /\ \A k \in PollKey :
  /\ \A one \in operations[k] : running[k] = one.id
  /\ \A one, other \in operations[k] : one = other

\* No operation is recorded or unsettled at first.
LEMMA InitPolls == Polls!Init => OpInv
BY PollBounds DEF Polls!PollingAssumption, Polls!Init, OpInv, Polls!TypeOK, Polls!None, Polls!Owner

\* tick() creates an operation only where none is recorded, so where none is unsettled.
LEMMA TickKeeps ==
  ASSUME OpInv, NEW k \in PollKey, NEW o \in Polls!Owner, NEW now \in Nat, NEW ops \in SUBSET Polls!Operation,
         \A op \in ops : now = op.id, \A op, other \in ops : op = other,
         Polls!Tick(k, o, now, ops)
  PROVE  /\ running' \in [PollKey -> Nat] /\ created' \in [PollKey -> Nat]
         /\ operations' \in [PollKey -> SUBSET Polls!Operation]
         /\ \A j \in PollKey :
              /\ \A one \in operations'[j] : running'[j] = one.id
              /\ \A one, other \in operations'[j] : one = other
<1>1. CASE now # Polls!None
  <2>1. /\ running' = [running EXCEPT ![k] = now] /\ operations' = [operations EXCEPT ![k] = ops]
        /\ UNCHANGED created
    BY <1>1 DEF Polls!Tick
  <2>2. \A j \in PollKey : j # k => running'[j] = running[j] /\ operations'[j] = operations[j]
    BY <2>1 DEF OpInv, Polls!TypeOK
  <2>3. running'[k] = now /\ operations'[k] = ops
    BY <2>1 DEF OpInv, Polls!TypeOK
  <2>4. QED
    BY <2>1, <2>2, <2>3 DEF OpInv, Polls!TypeOK
<1>2. CASE now = Polls!None
  <2> DEFINE new == [id |-> created[k] + 1, owner |-> o, begun |-> FALSE]
  <2>1. ops = {}
    BY <1>2 DEF Polls!None, Polls!Operation
  <2>2. new \in Polls!Operation /\ new.id = created[k] + 1
    BY DEF Polls!Operation, OpInv, Polls!TypeOK
  <2>3. /\ created' = [created EXCEPT ![k] = @ + 1]
        /\ running' = [running EXCEPT ![k] = new.id]
        /\ operations' = [operations EXCEPT ![k] = {new}]
    BY <1>2, <2>1 DEF Polls!Tick
  <2> HIDE DEF new
  <2>4. QED
    BY <2>2, <2>3 DEF OpInv, Polls!TypeOK
<1>3. QED
  BY <1>1, <1>2

\* Every step of the coordinator keeps it.
LEMMA StepPolls == ASSUME OpInv, [Polls!Next]_Polls!pollVars PROVE OpInv'
<1> USE PollBounds DEF Polls!PollingAssumption
<1>1. ASSUME NEW k \in PollKey, Polls!Start(k) PROVE OpInv'
  <2>1. made[k] + 1 \in Polls!Owner /\ running[k] \in Nat /\ operations[k] \in SUBSET Polls!Operation
    BY <1>1 DEF Polls!Start, OpInv, Polls!TypeOK, Polls!Owner
  <2>2. Polls!Tick(k, made[k] + 1, running[k], operations[k])
    BY <1>1 DEF Polls!Start
  <2>3. /\ registered' \in [PollKey -> Polls!Owner \cup {Polls!None}] /\ made' \in [PollKey -> 0..MaxOwners]
        /\ ticks' \in [PollKey -> [Polls!Owner -> 0..MaxTicks]]
    BY <1>1, <2>1 DEF Polls!Start, OpInv, Polls!TypeOK
  <2>4. /\ \A one \in operations[k] : running[k] = one.id
        /\ \A one, other \in operations[k] : one = other
    BY DEF OpInv
  <2>5. /\ running' \in [PollKey -> Nat] /\ created' \in [PollKey -> Nat]
        /\ operations' \in [PollKey -> SUBSET Polls!Operation]
        /\ \A j \in PollKey :
             /\ \A one \in operations'[j] : running'[j] = one.id
             /\ \A one, other \in operations'[j] : one = other
    BY <2>1, <2>2, <2>4, TickKeeps
  <2>6. QED
    BY <2>3, <2>5 DEF OpInv, Polls!TypeOK
<1>2. ASSUME NEW k \in PollKey, Polls!Fire(k) PROVE OpInv'
  <2>1. registered[k] \in Polls!Owner /\ running[k] \in Nat /\ operations[k] \in SUBSET Polls!Operation
    BY <1>2 DEF Polls!Fire, OpInv, Polls!TypeOK
  <2>2. Polls!Tick(k, registered[k], running[k], operations[k])
    BY <1>2 DEF Polls!Fire
  <2>3. /\ registered' \in [PollKey -> Polls!Owner \cup {Polls!None}] /\ made' \in [PollKey -> 0..MaxOwners]
        /\ ticks' \in [PollKey -> [Polls!Owner -> 0..MaxTicks]]
    BY <1>2, <2>1 DEF Polls!Fire, OpInv, Polls!TypeOK
  <2>4. /\ \A one \in operations[k] : running[k] = one.id
        /\ \A one, other \in operations[k] : one = other
    BY DEF OpInv
  <2>5. /\ running' \in [PollKey -> Nat] /\ created' \in [PollKey -> Nat]
        /\ operations' \in [PollKey -> SUBSET Polls!Operation]
        /\ \A j \in PollKey :
             /\ \A one \in operations'[j] : running'[j] = one.id
             /\ \A one, other \in operations'[j] : one = other
    BY <2>1, <2>2, <2>4, TickKeeps
  <2>6. QED
    BY <2>3, <2>5 DEF OpInv, Polls!TypeOK
<1>3. ASSUME NEW k \in PollKey, Polls!Stop(k) \/ \E op \in operations[k] : Polls!StopOwn(k, op) PROVE OpInv'
  BY <1>3 DEF Polls!Stop, Polls!StopOwn, OpInv, Polls!TypeOK
<1>4. ASSUME NEW k \in PollKey, NEW op \in operations[k], Polls!Begin(k, op) PROVE OpInv'
  <2> DEFINE begun == [op EXCEPT !.begun = TRUE]
  <2>1. op \in Polls!Operation /\ running[k] = op.id
    BY DEF OpInv, Polls!TypeOK
  <2>2. begun \in Polls!Operation /\ begun.id = op.id
    BY <2>1 DEF Polls!Operation
  <2>3. operations[k] = {op}
    BY DEF OpInv
  <2>4. operations' = [operations EXCEPT ![k] = {begun}]
    BY <1>4, <2>3 DEF Polls!Begin
  <2> HIDE DEF begun
  <2>5. UNCHANGED <<registered, made, running, created, ticks>>
    BY <1>4 DEF Polls!Begin
  <2>6. QED
    BY <2>1, <2>2, <2>4, <2>5 DEF OpInv, Polls!TypeOK
<1>5. ASSUME NEW k \in PollKey, NEW op \in operations[k], Polls!Finish(k, op) PROVE OpInv'
  <2>1. running[k] = op.id /\ operations[k] \ {op} = {}
    BY DEF OpInv
  <2>2. UNCHANGED <<registered, made, ticks>>
    BY <1>5 DEF Polls!Finish
  <2>3. CASE registered[k] \notin {Polls!None, op.owner}
    <3>1. Polls!Tick(k, registered[k], Polls!None, {})
      BY <1>5, <2>1, <2>3 DEF Polls!Finish
    <3>2. registered[k] \in Polls!Owner /\ Polls!None \in Nat /\ {} \in SUBSET Polls!Operation
      BY <2>3 DEF OpInv, Polls!TypeOK, Polls!None
    <3>3. /\ running' \in [PollKey -> Nat] /\ created' \in [PollKey -> Nat]
          /\ operations' \in [PollKey -> SUBSET Polls!Operation]
          /\ \A j \in PollKey :
               /\ \A one \in operations'[j] : running'[j] = one.id
               /\ \A one, other \in operations'[j] : one = other
      BY <3>1, <3>2, TickKeeps
    <3>4. QED
      BY <2>2, <3>3 DEF OpInv, Polls!TypeOK
  <2>4. CASE registered[k] \in {Polls!None, op.owner}
    <3>1. /\ running' = [running EXCEPT ![k] = Polls!None]
          /\ operations' = [operations EXCEPT ![k] = {}] /\ UNCHANGED created
      BY <1>5, <2>1, <2>4 DEF Polls!Finish
    <3>2. QED
      BY <2>2, <3>1 DEF OpInv, Polls!TypeOK, Polls!None
  <2>5. QED
    BY <2>3, <2>4
<1>6. CASE UNCHANGED Polls!pollVars
  BY <1>6 DEF Polls!pollVars, OpInv, Polls!TypeOK
<1>7. QED
  BY <1>1, <1>2, <1>3, <1>4, <1>5, <1>6 DEF Polls!Next

\* The maps of the polling coordinator have their types, for any number of pods,
\* registrations and timer firings.
THEOREM PollsTypeOK == Polls!Spec => []Polls!TypeOK
<1>1. OpInv => Polls!TypeOK
  BY DEF OpInv
<1>2. QED
  BY <1>1, InitPolls, StepPolls, PTL DEF Polls!Spec

\* Stop and start never let two operations of a pod overlap, and the one underway is the
\* one recorded: tick() and the finally block of polling-coordinator.ts.
THEOREM PollsOneOperation == Polls!Spec => []OneOperation
<1>1. OpInv => OneOperation
  BY DEF OpInv, OneOperation, Polls!OneOperation
<1>2. QED
  BY <1>1, InitPolls, StepPolls, PTL DEF Polls!Spec
----------------------------------------------------------------------------
(* The pods that wait for other pods.                                         *)

\* The graph of the pods, and their kinds.
LEMMA SeriesBounds == Series!SeriesAssumption
BY PartsAssumption

\* What a dependent needs of a parent before it may start.
DeliveredTo(d, p) == IF d \in Shared THEN "complete" \in reached[p] ELSE reached[p] # {}

\* A pod at work, or past it, is one that started; the status of a delivered pod is one it
\* reached; the queue and the pods started have only pods whose parents were delivered.
SeriesInv ==
  /\ Series!TypeOK
  /\ \A p \in Pod : status[p] \in Series!Delivered => status[p] \in reached[p]
  /\ \A p \in Pod : status[p] \notin {"absent", "queued"} => p \in started
  /\ \A d \in queue \cup started : \A p \in Parents[d] : DeliveredTo(d, p)

\* No pod is admitted at first.
LEMMA InitSeries == Series!Init => SeriesInv
BY SeriesBounds DEF Series!SeriesAssumption, Series!Init, SeriesInv, Series!TypeOK, Series!Delivered

\* The waits of a dependent end when its parents were delivered, also at startup.
LEMMA WaitEnds ==
  ASSUME SeriesInv, NEW d \in Pod, Series!Ready(d, Series!Needed(d)) \/ Series!Ready(d, Series!NeededAtStartup(d)),
         NEW p \in Parents[d]
  PROVE  DeliveredTo(d, p)
<1>1. p \in Pod
  BY SeriesBounds DEF Series!SeriesAssumption
<1>2. status[p] \in Series!Delivered /\ (d \in Shared => status[p] = "complete")
  BY DEF Series!Ready, Series!Needed, Series!NeededAtStartup, Series!Delivered
<1>3. QED
  BY <1>1, <1>2 DEF SeriesInv, DeliveredTo

\* Every step of a series keeps it: also a rework of a pod that once ran, and the
\* rehydration at startup, which does not ask for waitForMerge.
LEMMA StepSeries == ASSUME SeriesInv, [Series!Next]_Series!seriesVars PROVE SeriesInv'
<1>1. /\ Parents \in [Pod -> SUBSET Pod] /\ MaxRounds \in Nat \ {0}
  BY SeriesBounds DEF Series!SeriesAssumption
<1>2. ASSUME NEW p \in Pod, Series!Trigger(p) PROVE SeriesInv'
  <2>1. \A d \in Series!Triggered(p) : d \in Pod /\ status[d] = "queued" /\ \A q \in Parents[d] : DeliveredTo(d, q)
    BY WaitEnds DEF Series!Triggered
  <2>2. QED
    BY <1>2, <2>1 DEF Series!Trigger, SeriesInv, Series!TypeOK, DeliveredTo
<1>3. ASSUME NEW p \in Pod, Series!Admit(p) PROVE SeriesInv'
  <2>1. /\ status' = [status EXCEPT ![p] = "queued"] /\ rounds' = [rounds EXCEPT ![p] = 1]
        /\ queue' = IF Parents[p] = {} THEN queue \cup {p} ELSE queue
        /\ UNCHANGED <<reached, started>> /\ trigger' \subseteq trigger \cup Parents[p]
    BY <1>3 DEF Series!Admit
  <2>2. 1 \in 0..MaxRounds
    BY <1>1, <1>3 DEF Series!Admit
  <2>3. QED
    BY <1>1, <2>1, <2>2 DEF SeriesInv, Series!TypeOK, DeliveredTo, Series!Delivered
<1>4. ASSUME NEW p \in Pod, Series!Begin(p) PROVE SeriesInv'
  BY <1>4 DEF Series!Begin, SeriesInv, Series!TypeOK, DeliveredTo, Series!Delivered
<1>5. ASSUME NEW p \in Pod, Series!Fail(p) PROVE SeriesInv'
  BY <1>5 DEF Series!Fail, SeriesInv, Series!TypeOK, DeliveredTo, Series!Delivered
<1>6. ASSUME NEW p \in Pod, Series!Again(p) PROVE SeriesInv'
  BY <1>1, <1>6 DEF Series!Again, SeriesInv, Series!TypeOK, DeliveredTo, Series!Delivered
<1>7. ASSUME NEW p \in Pod, Series!Delete(p) PROVE SeriesInv'
  BY <1>7 DEF Series!Delete, SeriesInv, Series!TypeOK, DeliveredTo, Series!Delivered
<1>8. ASSUME NEW p \in Pod, NEW s \in Series!Delivered, Series!Deliver(p, s)
      \/ Series!DeliverQuietly(p, s) PROVE SeriesInv'
  <2>1. Series!Reach(p, s) /\ trigger' \subseteq trigger \cup {p} /\ status[p] \notin {"absent", "queued"}
        /\ UNCHANGED <<queue, rounds, started>>
    BY <1>8 DEF Series!Deliver, Series!DeliverQuietly
  <2>2. QED
    BY <2>1 DEF Series!Reach, SeriesInv, Series!TypeOK, DeliveredTo, Series!Delivered
<1>9. CASE Series!Restart
  <2>1. \A d \in Series!Rehydrated : d \in Pod /\ status[d] = "queued" /\ \A q \in Parents[d] : DeliveredTo(d, q)
    BY WaitEnds DEF Series!Rehydrated
  <2>2. QED
    BY <1>9, <2>1 DEF Series!Restart, SeriesInv, Series!TypeOK, DeliveredTo
<1>10. CASE UNCHANGED Series!seriesVars
  BY <1>10 DEF Series!seriesVars, Series!podVars, SeriesInv, Series!TypeOK, DeliveredTo
<1>11. QED
  BY <1>2, <1>3, <1>4, <1>5, <1>6, <1>7, <1>8, <1>9, <1>10 DEF Series!Next

\* No dependent runs before its parents were delivered (admission-dependents.ts), for
\* every graph of pods, not only for acyclic ones.
THEOREM SeriesStartsAfterParents == Series!Spec => []StartsAfterParents
<1>1. SeriesInv => StartsAfterParents
  BY DEF SeriesInv, StartsAfterParents, Series!StartsAfterParents, DeliveredTo
<1>2. QED
  BY <1>1, InitSeries, StepSeries, PTL DEF Series!Spec

\* Types of the dependents and of what they wait for.
THEOREM SeriesTypeOK == Series!Spec => []Series!TypeOK
<1>1. SeriesInv => Series!TypeOK
  BY DEF SeriesInv
<1>2. QED
  BY <1>1, InitSeries, StepSeries, PTL DEF Series!Spec
----------------------------------------------------------------------------
(* The event stream to the desktop client.                                     *)

\* The sizes of pages and replays.
LEMMA StreamBounds == Stream!ReplayAssumption
BY PartsAssumption

\* Frames, with a number for their event.
Frames == [type : {"event"}, id : Nat] \cup [type : {"complete", "truncated"}, id : {0}]

\* The client has the event, or has it on its way.
Has(e) == e \in got \/ Stream!Coming(e)

\* Types of the stream; no position is past the last event.
StreamTypes ==
  /\ events \in Nat /\ lastEventId \in 0..events /\ base \in 0..events /\ since \in Nat
  /\ connected \in BOOLEAN /\ subscribed \in BOOLEAN /\ caught \in BOOLEAN
  /\ wire \in Seq(Frames) /\ \A f \in Stream!Range(wire) : f.id \in 0..events
  /\ replay \in [on : BOOLEAN, cursor : 0..events, sent : 0..MaxReplay]

\* The client subscribes first, and nothing of a connection outlives it.
Connection ==
  /\ inbox \in {<<>>, <<"subscribe_all">>, <<"replay">>, <<"subscribe_all", "replay">>}
  /\ inbox = <<"replay">> => subscribed
  /\ caught => subscribed
  /\ ~connected => ~subscribed /\ inbox = <<>> /\ wire = <<>> /\ ~replay.on

\* What a replay has sent, what its end promises, and what the client was told.
Promises ==
  /\ replay.on => subscribed /\ \A e \in 1..replay.cursor : e > base => Has(e)
  /\ Stream!Signal("complete") \in Stream!Range(wire) => subscribed /\ \A e \in 1..events : e > base => Has(e)
  /\ Stream!Signal("truncated") \in Stream!Range(wire) => subscribed
  /\ CaughtUp

\* The inductive invariant of the stream.
StreamInv == StreamTypes /\ Connection /\ Promises

\* The elements of an extended sequence.
LEMMA RangeAppend ==
  ASSUME NEW S, NEW s \in Seq(S), NEW x \in S
  PROVE  /\ Append(s, x) \in Seq(S) /\ Stream!Range(Append(s, x)) = Stream!Range(s) \cup {x}
<1>1. Append(s, x) \in Seq(S) /\ Len(Append(s, x)) = Len(s) + 1 /\ Len(s) \in Nat
  OBVIOUS
<1>2. Append(s, x)[Len(s) + 1] = x /\ \A i \in 1..Len(s) : Append(s, x)[i] = s[i]
  OBVIOUS
<1>3. DOMAIN Append(s, x) = 1..Len(s) + 1 /\ DOMAIN s = 1..Len(s)
  BY <1>1
<1>4. QED
  BY <1>1, <1>2, <1>3 DEF Stream!Range

\* The elements of a concatenation.
LEMMA RangeConcat ==
  ASSUME NEW S, NEW s \in Seq(S), NEW t \in Seq(S)
  PROVE  s \o t \in Seq(S) /\ Stream!Range(s \o t) = Stream!Range(s) \cup Stream!Range(t)
<1>1. s \o t \in Seq(S)
  OBVIOUS
<1>2. ASSUME NEW x \in Stream!Range(s) PROVE x \in Stream!Range(s \o t)
  BY <1>2 DEF Stream!Range
<1>3. ASSUME NEW x \in Stream!Range(t) PROVE x \in Stream!Range(s \o t)
  <2>1. PICK i \in 1..Len(t) : x = t[i]
    BY <1>3 DEF Stream!Range
  <2>2. /\ Len(s) + i \in 1..Len(s \o t) /\ (s \o t)[Len(s) + i] = t[i]
    BY <2>1
  <2>3. QED
    BY <2>1, <2>2, <1>1 DEF Stream!Range
<1>4. ASSUME NEW x \in Stream!Range(s \o t) PROVE x \in Stream!Range(s) \cup Stream!Range(t)
  BY <1>4 DEF Stream!Range
<1>5. QED
  BY <1>1, <1>2, <1>3, <1>4

\* The elements that remain when the head is taken.
LEMMA RangeTail ==
  ASSUME NEW S, NEW s \in Seq(S), s # <<>>
  PROVE  /\ Tail(s) \in Seq(S) /\ Head(s) \in S /\ Head(s) \in Stream!Range(s)
         /\ Stream!Range(s) \ {Head(s)} \subseteq Stream!Range(Tail(s))
            /\ Stream!Range(Tail(s)) \subseteq Stream!Range(s)
<1>1. Len(s) \in Nat /\ Len(s) > 0 /\ Head(s) = s[1] /\ Tail(s) \in Seq(S) /\ Len(Tail(s)) = Len(s) - 1
  OBVIOUS
<1>2. \A i \in 1..Len(s) - 1 : Tail(s)[i] = s[i + 1]
  OBVIOUS
<1>3. ASSUME NEW x \in Stream!Range(s), x # Head(s) PROVE x \in Stream!Range(Tail(s))
  <2>1. PICK i \in 1..Len(s) : x = s[i]
    BY DEF Stream!Range
  <2>2. i # 1
    BY <2>1, <1>1, <1>3
  <2>3. i - 1 \in 1..Len(s) - 1 /\ Tail(s)[i - 1] = x
    BY <2>1, <2>2, <1>1, <1>2
  <2>4. DOMAIN Tail(s) = 1..Len(s) - 1
    BY <1>1
  <2>5. QED
    BY <2>3, <2>4 DEF Stream!Range
<1>4. QED
  BY <1>1, <1>2, <1>3 DEF Stream!Range

\* How many events the next page of a replay has.
LEMMA CountBounds ==
  ASSUME NEW r \in [on : BOOLEAN, cursor : 0..events, sent : 0..MaxReplay], events \in Nat
  PROVE  /\ Stream!Count(r) \in 0..events - r.cursor /\ r.sent + Stream!Count(r) \in 0..MaxReplay
         /\ Stream!Count(r) = 0 => r.cursor = events \/ r.sent >= MaxReplay
BY StreamBounds DEF Stream!ReplayAssumption, Stream!Count, Stream!Least

\* Nothing is stored or connected at first.
LEMMA InitStream == Stream!Init => StreamInv
<1>1. Stream!Range(<<>>) = {}
  BY DEF Stream!Range
<1>2. MaxReplay \in Nat
  BY StreamBounds DEF Stream!ReplayAssumption
<1>3. Stream!Init => StreamTypes
  <2>1. <<>> \in Seq(Frames) /\ Stream!NoReplay \in [on : BOOLEAN, cursor : 0..0, sent : 0..MaxReplay]
    BY <1>2 DEF Stream!NoReplay
  <2>2. ASSUME Stream!Init PROVE connected \in BOOLEAN /\ subscribed \in BOOLEAN /\ caught \in BOOLEAN
    BY <2>2, Zenon DEF Stream!Init
  <2>3. ASSUME Stream!Init PROVE events \in Nat /\ lastEventId \in 0..events /\ base \in 0..events /\ since \in Nat
    BY <2>3 DEF Stream!Init
  <2>4. ASSUME Stream!Init PROVE replay = Stream!NoReplay /\ events = 0 /\ wire = <<>>
    BY <2>4 DEF Stream!Init
  <2>5. QED
    BY <1>1, <2>1, <2>2, <2>4, <2>3 DEF StreamTypes
<1>4. Stream!Init => Connection /\ Promises
  BY <1>1 DEF Stream!Init, Stream!NoReplay, Connection, Promises, CaughtUp, Stream!CaughtUp
<1>5. QED
  BY <1>3, <1>4 DEF StreamInv

\* A page, or the end, of a replay that has sent what it says it has.
LEMMA PageKeeps ==
  ASSUME StreamTypes, NEW r \in [on : BOOLEAN, cursor : 0..events, sent : 0..MaxReplay],
         \A e \in 1..r.cursor : e > base => Has(e), subscribed, UNCHANGED <<events, base, got>>,
         Stream!Signal("complete") \in Stream!Range(wire) => \A e \in 1..events : e > base => Has(e),
         Stream!ReplayPage(r)
  PROVE  /\ wire' \in Seq(Frames) /\ Stream!Range(wire) \subseteq Stream!Range(wire')
         /\ \A f \in Stream!Range(wire') : f.id \in 0..events
         /\ replay' \in [on : BOOLEAN, cursor : 0..events, sent : 0..MaxReplay]
         /\ replay'.on => \A e \in 1..replay'.cursor : e > base => Has(e)'
         /\ Stream!Signal("complete") \in Stream!Range(wire') => \A e \in 1..events : e > base => Has(e)'
<1>1. /\ Stream!Count(r) \in 0..events - r.cursor /\ r.sent + Stream!Count(r) \in 0..MaxReplay
      /\ Stream!Count(r) = 0 => r.cursor = events \/ r.sent >= MaxReplay
      /\ events \in Nat /\ r.cursor \in 0..events /\ MaxReplay \in Nat
  BY CountBounds, StreamBounds DEF StreamTypes, Stream!ReplayAssumption
<1>2. CASE Stream!Count(r) = 0
  <2>1. replay' = Stream!NoReplay /\ wire' = wire \o Stream!Ending(r)
    BY <1>2 DEF Stream!ReplayPage
  <2>2. PICK t \in {"complete", "truncated"} :
          Stream!Ending(r) = <<Stream!Signal(t)>> /\ (t = "complete" => r.cursor = events)
    BY <1>1, <1>2 DEF Stream!Ending
  <2>3. Stream!Signal(t) \in Frames /\ Stream!Signal(t).id = 0 /\ Stream!Signal(t).type = t
    BY DEF Stream!Signal, Frames
  <2>4. Stream!Ending(r) \in Seq(Frames) /\ Stream!Range(Stream!Ending(r)) = {Stream!Signal(t)}
    BY <2>2, <2>3 DEF Stream!Range
  <2>5. wire' \in Seq(Frames) /\ Stream!Range(wire') = Stream!Range(wire) \cup {Stream!Signal(t)}
    BY <2>1, <2>4, RangeConcat DEF StreamTypes
  <2>6. \A e : Has(e) => Has(e)'
    BY <2>5 DEF Has, Stream!Coming
  <2>7. Stream!Signal("complete") \in Stream!Range(wire') => \A e \in 1..events : e > base => Has(e)'
    <3>1. ASSUME Stream!Signal("complete") \in Stream!Range(wire')
          PROVE t = "complete" \/ Stream!Signal("complete") \in Stream!Range(wire)
      BY <2>3, <2>5, <3>1 DEF Stream!Signal
    <3>2. QED
      BY <2>2, <2>6, <3>1
  <2>8. QED
    BY <1>1, <2>1, <2>3, <2>5, <2>7 DEF Stream!NoReplay, StreamTypes
<1>3. CASE Stream!Count(r) # 0
  <2> DEFINE n == Stream!Count(r)
             page == [i \in 1..n |-> Stream!Frame(r.cursor + i)]
  <2>1. wire' = wire \o page /\ replay' = [on |-> TRUE, cursor |-> r.cursor + n, sent |-> r.sent + n]
    BY <1>3 DEF Stream!ReplayPage
  <2>2. n \in Nat /\ r.cursor + n \in 0..events
    BY <1>1
  <2>3. \A i \in 1..n : /\ Stream!Frame(r.cursor + i) \in Frames /\ Stream!Frame(r.cursor + i).id \in 0..events
                        /\ Stream!Frame(r.cursor + i).type = "event"
    BY <1>1, <2>2 DEF Stream!Frame, Frames
  <2>4. page \in Seq(Frames) /\ Stream!Range(page) = {Stream!Frame(r.cursor + i) : i \in 1..n}
    BY <2>2, <2>3 DEF Stream!Range
  <2>5. wire' \in Seq(Frames) /\ Stream!Range(wire') = Stream!Range(wire) \cup Stream!Range(page)
    BY <2>1, <2>4, RangeConcat DEF StreamTypes
  <2>6. \A e : Has(e) => Has(e)'
    BY <2>5 DEF Has, Stream!Coming
  <2>7. \A e \in 1..r.cursor + n : e > base => Has(e)'
    <3>1. SUFFICES ASSUME NEW e \in 1..r.cursor + n, e > base PROVE Has(e)'
      OBVIOUS
    <3>2. CASE e <= r.cursor
      BY <1>1, <2>6, <3>1, <3>2
    <3>3. CASE e > r.cursor
      <4>1. e - r.cursor \in 1..n /\ e = r.cursor + (e - r.cursor)
        BY <1>1, <2>2, <3>1, <3>3
      <4>2. Stream!Frame(e) \in Stream!Range(page)
        BY <2>4, <4>1
      <4>3. QED
        BY <2>5, <4>2 DEF Has, Stream!Coming
    <3>4. QED
      BY <1>1, <2>2, <3>2, <3>3
  <2>8. Stream!Signal("complete") \in Stream!Range(wire') => Stream!Signal("complete") \in Stream!Range(wire)
    BY <2>3, <2>4, <2>5 DEF Stream!Signal
  <2> HIDE DEF n, page
  <2>9. replay'.cursor = r.cursor + n
    BY <2>1
  <2>10. replay' \in [on : BOOLEAN, cursor : 0..events, sent : 0..MaxReplay]
    BY <1>1, <2>1, <2>2 DEF n
  <2>11. QED
    BY <2>2, <2>3, <2>4, <2>5, <2>6, <2>7, <2>8, <2>9, <2>10 DEF StreamTypes
<1>4. QED
  BY <1>2, <1>3

\* A stored event reaches a client that is subscribed.
LEMMA EmitKeeps == ASSUME StreamInv, Stream!Emit PROVE StreamInv'
<1> USE DEF StreamInv
<1>1. events \in Nat /\ events' = events + 1
  BY DEF Stream!Emit, StreamTypes
<1>2. Stream!Frame(events + 1) \in Frames /\ Stream!Frame(events + 1).id \in 0..events'
      /\ Stream!Frame(events + 1).type = "event"
  BY <1>1 DEF Stream!Frame, Frames
<1>3. /\ wire' \in Seq(Frames) /\ Stream!Range(wire) \subseteq Stream!Range(wire')
      /\ Stream!Range(wire') \subseteq Stream!Range(wire) \cup {Stream!Frame(events + 1)}
      /\ subscribed => Stream!Frame(events + 1) \in Stream!Range(wire')
  BY <1>2, RangeAppend DEF Stream!Emit, StreamTypes
<1>4. (\A e : Has(e) => Has(e)') /\ (subscribed => \A e : e = events + 1 => Has(e)')
  BY <1>3 DEF Stream!Emit, Has, Stream!Coming, Stream!clientVars
<1>5. UNCHANGED <<connected, subscribed, inbox, replay, lastEventId, got, caught, base, since>>
  BY DEF Stream!Emit, Stream!clientVars
<1>6. StreamTypes'
  BY <1>1, <1>2, <1>3, <1>5 DEF StreamTypes
<1>7. Connection'
  BY <1>5 DEF Stream!Emit, Connection
<1>8. \A t \in {"complete", "truncated"} : Stream!Signal(t) \in Stream!Range(wire')
      => Stream!Signal(t) \in Stream!Range(wire)
  BY <1>2, <1>3 DEF Stream!Signal
<1>9. \A e \in 1..events' : e \in 1..events \/ e = events + 1
  BY <1>1
<1>10. CaughtUp'
  BY <1>4, <1>5, <1>9 DEF Promises, CaughtUp, Stream!CaughtUp, Stream!Expected, Has
<1>11. Promises'
  BY <1>4, <1>5, <1>8, <1>9, <1>10 DEF Promises
<1>12. QED
  BY <1>6, <1>7, <1>11

\* The next page of a replay, or its end.
LEMMA ReplayKeeps ==
  ASSUME StreamInv, Stream!NextPage
  PROVE  StreamInv'
<1> USE DEF StreamInv
<1>1. /\ replay.on /\ subscribed /\ Stream!ReplayPage(replay)
      /\ UNCHANGED <<events, connected, subscribed, inbox, lastEventId, got, caught, base, since>>
  BY DEF Stream!NextPage, Stream!clientVars, Promises
<1>2. /\ wire' \in Seq(Frames) /\ Stream!Range(wire) \subseteq Stream!Range(wire')
      /\ \A f \in Stream!Range(wire') : f.id \in 0..events
      /\ replay' \in [on : BOOLEAN, cursor : 0..events, sent : 0..MaxReplay]
      /\ replay'.on => \A e \in 1..replay'.cursor : e > base => Has(e)'
      /\ Stream!Signal("complete") \in Stream!Range(wire') => \A e \in 1..events : e > base => Has(e)'
  BY <1>1, PageKeeps DEF StreamTypes, Promises
<1>3. StreamTypes'
  BY <1>1, <1>2 DEF StreamTypes
<1>4. Connection'
  BY <1>1 DEF Connection
<1>5. CaughtUp'
  BY <1>1, <1>2 DEF Promises, CaughtUp, Stream!CaughtUp, Stream!Expected, Stream!Coming
<1>6. QED
  BY <1>1, <1>2, <1>3, <1>4, <1>5 DEF Promises

\* The daemon handles a subscription or a request for a replay.
LEMMA HandleKeeps == ASSUME StreamInv, Stream!Handle PROVE StreamInv'
<1> USE DEF StreamInv
<1>1. /\ UNCHANGED <<events, connected, lastEventId, got, base>>
      /\ inbox # <<>> /\ inbox' = Tail(inbox) /\ connected
  BY DEF Stream!Handle, Connection
<1>2. inbox' \in {<<>>, <<"subscribe_all">>, <<"replay">>, <<"subscribe_all", "replay">>}
  <2>1. /\ Tail(<<"subscribe_all">>) = <<>> /\ Tail(<<"replay">>) = <<>>
        /\ Tail(<<"subscribe_all", "replay">>) = <<"replay">>
    OBVIOUS
  <2>2. QED
    BY <1>1, <2>1 DEF Connection
<1>3. CASE Head(inbox) = "subscribe_all"
  <2>1. /\ subscribed' = TRUE /\ UNCHANGED <<replay, wire>>
        /\ caught' = (caught \/ base = 0) /\ since' = IF base = 0 THEN events ELSE since
    BY <1>3 DEF Stream!Handle
  <2>2. StreamTypes'
    BY <1>1, <2>1 DEF StreamTypes
  <2>3. CaughtUp'
    BY <1>1, <2>1 DEF StreamTypes, Connection, Promises, CaughtUp, Stream!CaughtUp, Stream!Expected,
       Stream!Coming
  <2>4. QED
    BY <1>1, <1>2, <2>1, <2>2, <2>3 DEF Connection, Promises, Has, Stream!Coming
<1>4. CASE Head(inbox) = "replay"
  <2> DEFINE r == [on |-> TRUE, cursor |-> base, sent |-> 0]
  <2>1. /\ inbox = <<"replay">> /\ subscribed /\ Stream!ReplayPage(r) /\ inbox' = <<>>
        /\ UNCHANGED <<subscribed, caught, since>>
    BY <1>1, <1>4 DEF Stream!Handle, Connection
  <2>2. r \in [on : BOOLEAN, cursor : 0..events, sent : 0..MaxReplay]
    BY StreamBounds DEF Stream!ReplayAssumption, StreamTypes
  <2>3. \A e \in 1..r.cursor : e > base => Has(e)
    BY DEF StreamTypes
  <2> HIDE DEF r
  <2>4. /\ wire' \in Seq(Frames) /\ Stream!Range(wire) \subseteq Stream!Range(wire')
        /\ \A f \in Stream!Range(wire') : f.id \in 0..events
        /\ replay' \in [on : BOOLEAN, cursor : 0..events, sent : 0..MaxReplay]
        /\ replay'.on => \A e \in 1..replay'.cursor : e > base => Has(e)'
        /\ Stream!Signal("complete") \in Stream!Range(wire') => \A e \in 1..events : e > base => Has(e)'
    BY <1>1, <2>1, <2>2, <2>3, PageKeeps DEF Promises
  <2>5. StreamTypes'
    BY <1>1, <2>1, <2>4 DEF StreamTypes
  <2>6. CaughtUp'
    BY <1>1, <2>1, <2>4 DEF Promises, CaughtUp, Stream!CaughtUp, Stream!Expected, Stream!Coming
  <2>7. QED
    BY <1>1, <2>1, <2>4, <2>5, <2>6 DEF Connection, Promises
<1>5. QED
  BY <1>3, <1>4 DEF Stream!Handle

\* The client takes a frame; one that says the replay ended makes good its promise.
LEMMA ReceiveKeeps == ASSUME StreamInv, Stream!Receive PROVE StreamInv'
<1> USE DEF StreamInv
<1>1. /\ UNCHANGED <<events, connected, subscribed, inbox, replay, base, since>>
      /\ wire # <<>> /\ wire' = Tail(wire)
  BY DEF Stream!Receive
<1>2. /\ wire' \in Seq(Frames) /\ Head(wire) \in Frames /\ Head(wire) \in Stream!Range(wire)
      /\ Stream!Range(wire) \ {Head(wire)} \subseteq Stream!Range(wire')
         /\ Stream!Range(wire') \subseteq Stream!Range(wire)
  BY <1>1, RangeTail DEF StreamTypes
<1>3. got \subseteq got' /\ \A e : Head(wire) = Stream!Frame(e) => e \in got'
  BY DEF Stream!Receive, Stream!Frame
<1>4. \A e : Has(e) => Has(e)'
  BY <1>2, <1>3 DEF Has, Stream!Coming
<1>5. lastEventId' \in 0..events
  BY <1>2 DEF Stream!Receive, Stream!Track, StreamTypes, Frames
<1>6. caught' \in BOOLEAN /\ (caught' => subscribed)
  <2>1. \A t \in {"complete", "truncated"} : Head(wire).type = t => Head(wire) = Stream!Signal(t)
    BY <1>2 DEF Frames, Stream!Signal
  <2>2. caught' = caught \/ (caught' = TRUE /\ Head(wire).type \in {"complete", "truncated"})
    BY DEF Stream!Receive
  <2>3. Head(wire).type \in {"complete", "truncated"} => subscribed
    BY <1>2, <2>1 DEF Promises
  <2>4. QED
    <3>1. caught \in BOOLEAN /\ (caught => subscribed)
      BY DEF Connection, StreamTypes
    <3>2. CASE caught' = caught
      BY <3>1, <3>2
    <3>3. CASE caught' = TRUE /\ subscribed
      BY <3>3
    <3>4. QED
      BY <2>2, <2>3, <3>2, <3>3
<1>7. StreamTypes'
  BY <1>1, <1>2, <1>5, <1>6 DEF StreamTypes
<1>8. Connection'
  BY <1>1, <1>6 DEF Connection
<1>9. CaughtUp'
  <2>1. CASE caught
    BY <1>1, <1>4, <2>1 DEF Promises, CaughtUp, Stream!CaughtUp, Stream!Expected, Has
  <2>2. CASE Head(wire).type = "complete"
    <3>1. Head(wire) = Stream!Signal("complete")
      BY <1>2, <2>2 DEF Frames, Stream!Signal
    <3>2. QED
      BY <1>1, <1>2, <1>4, <3>1 DEF Promises, CaughtUp, Stream!CaughtUp, Stream!Expected, Has
  <2>3. CASE Head(wire).type = "truncated"
    BY <1>1, <2>3 DEF Stream!Receive, Stream!Refreshed, CaughtUp, Stream!CaughtUp, Stream!Expected
  <2>4. CASE Head(wire).type = "event" /\ ~caught
    BY <2>4 DEF Stream!Receive, CaughtUp, Stream!CaughtUp
  <2>5. QED
    BY <2>1, <2>2, <2>3, <2>4 DEF Stream!Receive
<1>10. QED
  BY <1>1, <1>2, <1>4, <1>7, <1>8, <1>9 DEF Promises

\* A connection of the desktop begins, or any connection ends.
LEMMA ConnectKeeps == ASSUME StreamInv, Desktop, Stream!Connect \/ Stream!Drop PROVE StreamInv'
<1> USE DEF StreamInv
<1>1. Stream!Range(<<>>) = {}
  BY DEF Stream!Range
<1>2. CASE Stream!Connect
  <2>1. /\ UNCHANGED <<events, subscribed, wire, replay, lastEventId, got, caught, since>>
        /\ ~subscribed /\ ~caught /\ ~replay.on /\ wire = <<>> /\ connected' = TRUE /\ base' = lastEventId
        /\ inbox' \in {<<"subscribe_all">>, <<"subscribe_all", "replay">>}
    BY <1>2 DEF Stream!Connect, Connection, Stream!Hello
  <2>2. StreamTypes'
    BY <2>1 DEF StreamTypes
  <2>3. Connection'
    BY <2>1 DEF Connection
  <2>4. QED
    BY <1>1, <2>1, <2>2, <2>3 DEF Promises, CaughtUp, Stream!CaughtUp
<1>3. CASE Stream!Drop
  <2>1. /\ UNCHANGED <<events, lastEventId, got, base, since>> /\ replay' = Stream!NoReplay
        /\ ~connected' /\ ~subscribed' /\ ~caught' /\ inbox' = <<>> /\ wire' = <<>>
        /\ connected' \in BOOLEAN /\ subscribed' \in BOOLEAN /\ caught' \in BOOLEAN
    BY <1>3 DEF Stream!Drop
  <2>2. StreamTypes'
    BY <1>1, <2>1, StreamBounds DEF Stream!ReplayAssumption, StreamTypes, Stream!NoReplay
  <2>3. Connection'
    BY <2>1 DEF Connection, Stream!NoReplay
  <2>4. QED
    BY <1>1, <2>1, <2>2, <2>3 DEF Promises, CaughtUp, Stream!CaughtUp, Stream!NoReplay
<1>4. QED
  BY <1>2, <1>3

\* Every step of the stream keeps the invariant, for a client that subscribes first.
LEMMA StepStream == ASSUME StreamInv, Desktop, [Stream!Next]_Stream!streamVars PROVE StreamInv'
<1>1. CASE UNCHANGED Stream!streamVars
  BY <1>1 DEF Stream!streamVars, Stream!connectionVars, Stream!clientVars, StreamInv, StreamTypes,
     Connection, Promises, CaughtUp, Stream!CaughtUp, Stream!Expected, Has, Stream!Coming
<1>2. QED
  BY <1>1, EmitKeeps, HandleKeeps, ReplayKeeps, ReceiveKeeps, ConnectKeeps DEF Stream!Next

\* Once the desktop is told that its replay ended it has every event after its position, or
\* has it on its way (websocket.ts, EventSocket.swift): for pages, limits and event counts
\* of any size.  It rests on the desktop subscribing before it asks for its replay.
THEOREM StreamCaughtUp == ASSUME Desktop PROVE Stream!Spec => []CaughtUp
<1>1. StreamInv /\ [Stream!Next]_Stream!streamVars => StreamInv'
  BY StepStream
<1>2. StreamInv => CaughtUp
  BY DEF StreamInv, Promises
<1>3. QED
  BY <1>1, <1>2, InitStream, PTL DEF Stream!Spec
----------------------------------------------------------------------------
(* The types of the stream, for both clients.                                 *)

\* Frames about the first n events.
FramesTo(n) == [type : {"event"}, id : 1..n] \cup [type : {"complete", "truncated"}, id : {0}]

\* No number names an event that was not stored.
StreamTyped ==
  /\ events \in 0..MaxEvents /\ {lastEventId, base, since} \subseteq 0..events /\ drops \in 0..MaxDrops
  /\ {connected, subscribed, caught} \subseteq BOOLEAN
  /\ inbox \in Seq({"subscribe_all", "replay"}) /\ got \subseteq 1..events
  /\ wire \in Seq(FramesTo(events))
  /\ replay \in [on : BOOLEAN, cursor : 0..events, sent : 0..MaxReplay]

\* Sequences over a set are sequences over a larger one.
LEMMA SeqGrows == ASSUME NEW S, NEW T, S \subseteq T PROVE Seq(S) \subseteq Seq(T)
OBVIOUS

\* Frames stay frames when events are stored.
LEMMA FramesGrow ==
  ASSUME NEW m \in Nat, NEW n \in Nat, m <= n
  PROVE  FramesTo(m) \subseteq FramesTo(n) /\ Seq(FramesTo(m)) \subseteq Seq(FramesTo(n))
<1>1. FramesTo(m) \subseteq FramesTo(n)
  BY DEF FramesTo
<1>2. QED
  BY <1>1, SeqGrows

\* A page, or the end, of a replay.
LEMMA PageTyped ==
  ASSUME StreamTyped, NEW r \in [on : BOOLEAN, cursor : 0..events, sent : 0..MaxReplay],
         Stream!ReplayPage(r)
  PROVE  /\ wire' \in Seq(FramesTo(events))
         /\ replay' \in [on : BOOLEAN, cursor : 0..events, sent : 0..MaxReplay]
<1>1. /\ events \in Nat /\ r.cursor \in 0..events /\ MaxReplay \in Nat /\ wire \in Seq(FramesTo(events))
  BY StreamBounds DEF StreamTyped, Stream!ReplayAssumption
<1>2. Stream!Count(r) \in 0..events - r.cursor /\ r.sent + Stream!Count(r) \in 0..MaxReplay
  BY <1>1, CountBounds
<1>3. CASE Stream!Count(r) = 0
  <2>1. replay' = Stream!NoReplay /\ wire' = wire \o Stream!Ending(r)
    BY <1>3 DEF Stream!ReplayPage
  <2>2. Stream!Ending(r) \in Seq(FramesTo(events))
    BY DEF Stream!Ending, Stream!Signal, FramesTo
  <2>3. wire \o Stream!Ending(r) \in Seq(FramesTo(events))
    BY <1>1, <2>2
  <2>4. QED
    BY <1>1, <2>1, <2>3 DEF Stream!NoReplay
<1>4. CASE Stream!Count(r) # 0
  <2> DEFINE n == Stream!Count(r)
             page == [i \in 1..n |-> Stream!Frame(r.cursor + i)]
  <2>1. wire' = wire \o page /\ replay' = [on |-> TRUE, cursor |-> r.cursor + n, sent |-> r.sent + n]
    BY <1>4 DEF Stream!ReplayPage
  <2>2. n \in Nat /\ \A i \in 1..n : r.cursor + i \in 1..events
    BY <1>1, <1>2
  <2>3. \A i \in 1..n : Stream!Frame(r.cursor + i) \in FramesTo(events)
    BY <2>2 DEF Stream!Frame, FramesTo
  <2>4. page \in Seq(FramesTo(events))
    BY <2>2, <2>3
  <2>5. r.cursor + n \in 0..events
    BY <1>1, <1>2
  <2> HIDE DEF page
  <2>6. wire \o page \in Seq(FramesTo(events))
    BY <1>1, <2>4
  <2>7. QED
    BY <1>2, <2>1, <2>5, <2>6
<1>5. QED
  BY <1>3, <1>4

\* Nothing is stored at first.
LEMMA InitTyped == Stream!Init => StreamTyped
<1>1. SUFFICES ASSUME Stream!Init PROVE StreamTyped
  OBVIOUS
<1>2. /\ MaxEvents \in Nat /\ MaxDrops \in Nat /\ MaxReplay \in Nat
  BY StreamBounds DEF Stream!ReplayAssumption
<1>3. {connected, subscribed, caught} \subseteq BOOLEAN
  BY <1>1, Zenon DEF Stream!Init
<1>4. /\ events = 0 /\ lastEventId = 0 /\ base = 0 /\ since = 0 /\ drops = 0 /\ got = {}
      /\ inbox = <<>> /\ wire = <<>> /\ replay = Stream!NoReplay
  BY <1>1 DEF Stream!Init
<1>5. QED
  BY <1>2, <1>3, <1>4 DEF StreamTyped, Stream!NoReplay

\* The daemon stores, handles messages and replays.
LEMMA DaemonTyped ==
  ASSUME StreamTyped, Stream!Emit \/ Stream!Handle \/ Stream!NextPage
  PROVE  StreamTyped'
<1> USE DEF StreamTyped
<1>1. MaxEvents \in Nat /\ events \in Nat
  BY StreamBounds DEF Stream!ReplayAssumption
<1>2. CASE Stream!Emit
  <2>1. /\ events' = events + 1 /\ events' \in 0..MaxEvents
        /\ UNCHANGED <<connected, subscribed, inbox, replay, lastEventId, got, caught, base, since, drops>>
    BY <1>1, <1>2 DEF Stream!Emit, Stream!clientVars
  <2>2. Stream!Frame(events + 1) \in FramesTo(events')
    BY <1>1, <2>1 DEF Stream!Frame, FramesTo
  <2>3. wire \in Seq(FramesTo(events'))
    BY <1>1, <2>1, FramesGrow
  <2>4. wire' \in Seq(FramesTo(events'))
    <3>1. Append(wire, Stream!Frame(events + 1)) \in Seq(FramesTo(events'))
      BY <2>2, <2>3
    <3>2. wire' = IF subscribed THEN Append(wire, Stream!Frame(events + 1)) ELSE wire
      BY <1>2 DEF Stream!Emit
    <3>3. QED
      BY <2>3, <3>1, <3>2
  <2>5. 0..events \subseteq 0..events' /\ 1..events \subseteq 1..events'
    BY <1>1, <2>1
  <2>6. {lastEventId, base, since}' \subseteq 0..events' /\ got' \subseteq 1..events'
    BY <2>1, <2>5
  <2>7. replay' \in [on : BOOLEAN, cursor : 0..events', sent : 0..MaxReplay]
    BY <2>1, <2>5
  <2>8. QED
    BY <2>1, <2>4, <2>6, <2>7
<1>3. CASE Stream!NextPage
  <2>1. /\ Stream!ReplayPage(replay)
        /\ UNCHANGED <<events, connected, subscribed, inbox, lastEventId, got, caught, base, since, drops>>
    BY <1>3 DEF Stream!NextPage, Stream!clientVars
  <2>2. QED
    BY <2>1, PageTyped
<1>4. CASE Stream!Handle
  <2>1. /\ inbox # <<>> /\ inbox' = Tail(inbox)
        /\ UNCHANGED <<events, connected, lastEventId, got, base, drops>>
    BY <1>4 DEF Stream!Handle
  <2>2. inbox' \in Seq({"subscribe_all", "replay"})
    BY <2>1
  <2>3. CASE Head(inbox) = "subscribe_all"
    <3>1. /\ subscribed' = TRUE /\ UNCHANGED <<replay, wire>>
          /\ caught' = (caught \/ base = 0) /\ since' = IF base = 0 THEN events ELSE since
      BY <1>4, <2>3 DEF Stream!Handle
    <3>2. caught' \in BOOLEAN /\ since' \in 0..events
      BY <1>1, <3>1
    <3>3. QED
      BY <2>1, <2>2, <3>1, <3>2
  <2>4. CASE Head(inbox) = "replay"
    <3> DEFINE r == [on |-> TRUE, cursor |-> base, sent |-> 0]
    <3>1. Stream!ReplayPage(r) /\ UNCHANGED <<subscribed, caught, since>>
      BY <1>4, <2>4 DEF Stream!Handle
    <3>2. r \in [on : BOOLEAN, cursor : 0..events, sent : 0..MaxReplay]
      BY StreamBounds DEF Stream!ReplayAssumption
    <3> HIDE DEF r
    <3>3. /\ wire' \in Seq(FramesTo(events))
          /\ replay' \in [on : BOOLEAN, cursor : 0..events, sent : 0..MaxReplay]
      BY <3>1, <3>2, PageTyped
    <3>4. QED
      BY <2>1, <2>2, <3>1, <3>3
  <2>5. QED
    BY <1>4, <2>3, <2>4 DEF Stream!Handle
<1>5. QED
  BY <1>2, <1>3, <1>4

\* The client connects, receives and loses its connection.
LEMMA ClientTyped ==
  ASSUME StreamTyped, Stream!Connect \/ Stream!Receive \/ Stream!Drop
  PROVE  StreamTyped'
<1> USE DEF StreamTyped
<1>1. MaxDrops \in Nat /\ MaxReplay \in Nat /\ events \in Nat
  BY StreamBounds DEF Stream!ReplayAssumption
<1>2. CASE Stream!Connect
  <2>1. /\ UNCHANGED <<events, subscribed, wire, replay, lastEventId, got, caught, since, drops>>
        /\ connected' = TRUE /\ base' = lastEventId
        /\ inbox' \in {<<"subscribe_all">>, <<"subscribe_all", "replay">>, <<"replay", "subscribe_all">>}
    BY <1>2 DEF Stream!Connect, Stream!Hello
  <2>2. \A a, b \in {"subscribe_all", "replay"} :
          <<a>> \in Seq({"subscribe_all", "replay"}) /\ <<a, b>> \in Seq({"subscribe_all", "replay"})
    OBVIOUS
  <2>3. inbox' \in Seq({"subscribe_all", "replay"})
    BY <2>1, <2>2
  <2>4. QED
    BY <2>1, <2>3
<1>3. CASE Stream!Receive
  <2>1. /\ UNCHANGED <<events, connected, subscribed, inbox, replay, base, since, drops>>
        /\ wire # <<>> /\ wire' = Tail(wire)
    BY <1>3 DEF Stream!Receive
  <2>2. wire' \in Seq(FramesTo(events)) /\ Head(wire) \in FramesTo(events)
    BY <2>1
  <2>3. caught' \in BOOLEAN
    BY <1>3 DEF Stream!Receive
  <2>4. lastEventId' \in 0..events /\ got' \subseteq 1..events
    <3>1. Head(wire).type = "event" => Head(wire).id \in 1..events
      BY <2>2 DEF FramesTo
    <3>2. CASE Head(wire).type = "event"
      <4>1. lastEventId' = Stream!Track(Head(wire).id) /\ got' = got \cup {Head(wire).id}
        BY <1>3, <3>2 DEF Stream!Receive
      <4>2. lastEventId' = Head(wire).id \/ lastEventId' = lastEventId
        BY <4>1 DEF Stream!Track
      <4>3. Head(wire).id \in 1..events /\ 1..events \subseteq 0..events
        BY <1>1, <3>1, <3>2
      <4>4. QED
        BY <4>1, <4>2, <4>3
    <3>3. CASE Head(wire).type # "event"
      <4>1. UNCHANGED lastEventId /\ (got' = got \/ got' = got \cup Stream!Refreshed)
        BY <1>3, <3>3 DEF Stream!Receive
      <4>2. QED
        BY <4>1 DEF Stream!Refreshed
    <3>4. QED
      BY <3>2, <3>3
  <2>5. QED
    BY <2>1, <2>2, <2>3, <2>4
<1>4. CASE Stream!Drop
  <2>1. /\ UNCHANGED <<events, lastEventId, got, base, since>> /\ drops' \in 0..MaxDrops
        /\ inbox' = <<>> /\ wire' = <<>> /\ replay' = Stream!NoReplay
    BY <1>1, <1>4 DEF Stream!Drop
  <2>2. {connected, subscribed, caught}' \subseteq BOOLEAN
    BY <1>4, Zenon DEF Stream!Drop
  <2>3. Stream!NoReplay \in [on : BOOLEAN, cursor : 0..events, sent : 0..MaxReplay]
    BY <1>1 DEF Stream!NoReplay
  <2>4. QED
    BY <2>1, <2>2, <2>3
<1>5. QED
  BY <1>2, <1>3, <1>4

\* Types of the stream and the client, whichever client it is.
THEOREM StreamTypeOK == Stream!Spec => []Stream!TypeOK
<1>1. StreamTyped /\ [Stream!Next]_Stream!streamVars => StreamTyped'
  <2>1. ASSUME StreamTyped, UNCHANGED Stream!streamVars PROVE StreamTyped'
    BY <2>1 DEF Stream!streamVars, Stream!connectionVars, Stream!clientVars, StreamTyped
  <2>2. QED
    BY <2>1, DaemonTyped, ClientTyped DEF Stream!Next
<1>2. StreamTyped => Stream!TypeOK
  <2>1. SUFFICES ASSUME StreamTyped PROVE Stream!TypeOK
    OBVIOUS
  <2>2. events \in Nat /\ 0..events \subseteq 0..MaxEvents
    BY <2>1, StreamBounds DEF StreamTyped, Stream!ReplayAssumption
  <2>3. FramesTo(events) \subseteq [type : {"event", "complete", "truncated"}, id : 0..events]
    BY <2>2 DEF FramesTo
  <2>4. wire \in Seq([type : {"event", "complete", "truncated"}, id : 0..events])
    BY <2>1, <2>3, SeqGrows DEF StreamTyped
  <2>5. {events, lastEventId, base, since} \subseteq 0..MaxEvents
    BY <2>1, <2>2 DEF StreamTyped
  <2>6. QED
    BY <2>1, <2>4, <2>5 DEF StreamTyped, Stream!TypeOK
<1>3. QED
  BY <1>1, <1>2, InitTyped, PTL DEF Stream!Spec
----------------------------------------------------------------------------
(* The parts together.                                                        *)

\* A behaviour of the instance that the run checks is one of each part, so what is proved
\* of the parts holds of it.
THEOREM PartsAreParts == PartsSpec => Spec /\ Polls!Spec /\ Series!Spec /\ Stream!Spec
<1>1. PartsInit => Init /\ Polls!Init /\ Series!Init /\ Stream!Init
  BY DEF PartsInit
<1>2. [PartsNext]_<<part, queueVars, pollVars, seriesVars, streamVars>> =>
        /\ [Next]_queueVars /\ [Polls!Next]_Polls!pollVars
        /\ [Series!Next]_Series!seriesVars /\ [Stream!Next]_Stream!streamVars
  BY DEF PartsNext, pollVars, seriesVars, streamVars, Polls!pollVars, Series!seriesVars,
         Series!podVars, Stream!streamVars, Stream!connectionVars, Stream!clientVars
<1>3. QED
  BY <1>1, <1>2, PTL DEF PartsSpec, Spec, Polls!Spec, Series!Spec, Stream!Spec

\* So the instance that the run checks has every safety property it is checked for,
\* for the desktop client and whatever the values of its other constants.
THEOREM CoordinationSafe ==
  ASSUME Desktop PROVE PartsSpec => []OneOperation /\ []StartsAfterParents /\ []CaughtUp
BY PartsAreParts, PollsOneOperation, SeriesStartsAfterParents, StreamCaughtUp, PTL
=============================================================================
