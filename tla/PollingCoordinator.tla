------------------------ MODULE PollingCoordinator ------------------------
(* The polling coordinator (pods/polling-coordinator.ts): at most one remote *)
(* operation per key, also while the operation of a stopped registration is  *)
(* still awaited.  An operation is a promise chain: it is created by tick(), *)
(* runs its owner in a later microtask, and its finally block hands over to  *)
(* the registration that replaced its owner.                                 *)
EXTENDS Naturals

CONSTANTS Key,        \* keys: pod ids
          MaxOwners,  \* bound: registrations ever made for a key
          MaxTicks    \* bound: timer firings per key

PollingAssumption == MaxOwners \in Nat /\ MaxTicks \in Nat

Owner == 1..MaxOwners
None == 0

VARIABLES registered,  \* registrations: the owner registered for each key, or None
          made,        \* how many registrations each key has had
          running,     \* running: the operation recorded for each key, or None
          operations,  \* per key: the operations that have not settled
          created,     \* per key: operations created so far (their identity)
          ticks        \* per key and owner: timer firings so far

pollVars == <<registered, made, running, operations, created, ticks>>

Init ==
  /\ registered = [k \in Key |-> None]
  /\ made = [k \in Key |-> 0]
  /\ running = [k \in Key |-> None]
  /\ operations = [k \in Key |-> {}]
  /\ created = [k \in Key |-> 0]
  /\ ticks = [k \in Key |-> [o \in Owner |-> 0]]
----------------------------------------------------------------------------
\* Mutant: tick looks for an operation of its own owner only.
TickPerOwner(k, o, now, ops) ==
  IF \E op \in ops : op.owner = o
  THEN running' = [running EXCEPT ![k] = now] /\ operations' = [operations EXCEPT ![k] = ops]
       /\ UNCHANGED created
  ELSE /\ created' = [created EXCEPT ![k] = @ + 1]
       /\ running' = [running EXCEPT ![k] = created[k] + 1]
       /\ operations' = [operations EXCEPT ![k] =
            ops \cup {[id |-> created[k] + 1, owner |-> o, begun |-> FALSE]}]

\* tick(o) by its own registration, when `now` is recorded and `ops` are unsettled.
Tick(k, o, now, ops) ==
  IF now # None
  THEN running' = [running EXCEPT ![k] = now] /\ operations' = [operations EXCEPT ![k] = ops]
       /\ UNCHANGED created
  ELSE /\ created' = [created EXCEPT ![k] = @ + 1]
       /\ running' = [running EXCEPT ![k] = created[k] + 1]
       /\ operations' = [operations EXCEPT ![k] =
            ops \cup {[id |-> created[k] + 1, owner |-> o, begun |-> FALSE]}]

\* start: the previous registration and its timer go, the new owner ticks at once.
Start(k) ==
  /\ made[k] < MaxOwners
  /\ made' = [made EXCEPT ![k] = @ + 1]
  /\ registered' = [registered EXCEPT ![k] = made[k] + 1]
  /\ Tick(k, made[k] + 1, running[k], operations[k])
  /\ UNCHANGED ticks

\* stop, by whoever started it.
Stop(k) ==
  /\ registered[k] # None
  /\ registered' = [registered EXCEPT ![k] = None]
  /\ UNCHANGED <<made, running, operations, created, ticks>>

\* The interval of the registered owner fires (a cleared timer does not).
Fire(k) ==
  /\ registered[k] # None
  /\ ticks[k][registered[k]] < MaxTicks
  /\ ticks' = [ticks EXCEPT ![k][registered[k]] = @ + 1]
  /\ Tick(k, registered[k], running[k], operations[k])
  /\ UNCHANGED <<registered, made>>

\* The microtask of an operation: it runs its owner if that is still registered.
Begin(k, op) ==
  /\ op \in operations[k] /\ ~op.begun
  /\ operations' = [operations EXCEPT ![k] = (@ \ {op}) \cup {[op EXCEPT !.begun = TRUE]}]
  /\ UNCHANGED <<registered, made, running, created, ticks>>

\* ownership.stop() inside a run: it never stops a replacement.
StopOwn(k, op) ==
  /\ op \in operations[k] /\ op.begun
  /\ registered[k] = op.owner
  /\ registered' = [registered EXCEPT ![k] = None]
  /\ UNCHANGED <<made, running, operations, created, ticks>>

\* The operation settles, resolved or rejected: its finally block.
Finish(k, op) ==
  LET now == IF running[k] = op.id THEN None ELSE running[k] IN
  /\ op \in operations[k] /\ op.begun
  /\ IF registered[k] \notin {None, op.owner}
     THEN Tick(k, registered[k], now, operations[k] \ {op})
     ELSE /\ running' = [running EXCEPT ![k] = now]
          /\ operations' = [operations EXCEPT ![k] = @ \ {op}]
          /\ UNCHANGED created
  /\ UNCHANGED <<registered, made, ticks>>

Next == \E k \in Key :
  \/ Start(k) \/ Stop(k) \/ Fire(k)
  \/ \E op \in operations[k] : Begin(k, op) \/ StopOwn(k, op) \/ Finish(k, op)

Spec == Init /\ [][Next]_pollVars
----------------------------------------------------------------------------
Operation == [id : Nat \ {0}, owner : Owner, begun : BOOLEAN]

\* Types of the coordinator's maps.
TypeOK ==
  /\ registered \in [Key -> Owner \cup {None}]
  /\ made \in [Key -> 0..MaxOwners]
  /\ running \in [Key -> Nat]
  /\ operations \in [Key -> SUBSET Operation]
  /\ created \in [Key -> Nat]
  /\ ticks \in [Key -> [Owner -> 0..MaxTicks]]

\* At most one operation of a key is unsettled, across stop and start, and it is the one
\* recorded: so two polls of a pod never talk to its remote at once.
OneOperation == \A k \in Key :
  /\ \A op, other \in operations[k] : op = other
  /\ \A op \in operations[k] : running[k] = op.id
=============================================================================
