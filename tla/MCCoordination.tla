--------------------------- MODULE MCCoordination --------------------------
(* How the daemon orders what it does itself: the promise queue per key, the    *)
(* polls per pod, the pods that wait for other pods, and the event stream to a  *)
(* client.  They share no state, so a behaviour of this instance is one of one  *)
(* of them, while the others rest in their initial states.                      *)
EXTENDS KeyedQueue, Sequences

CONSTANTS PollKey, MaxOwners, MaxTicks,
          root, left, right, tip, Pod, Parents, Shared, WaitForMerge, Composed, Quiet, MaxRounds,
          Desktop, PageSize, MaxReplay, MaxEvents, MaxDrops

VARIABLES part,
          registered, made, running, operations, created, ticks,
          status, queue, trigger, rounds, reached, started,
          events, connected, subscribed, inbox, wire, replay, lastEventId, got, caught, base,
          since, drops

pollVars == <<registered, made, running, operations, created, ticks>>
seriesVars == <<status, queue, trigger, rounds, reached, started>>
streamVars == <<events, connected, subscribed, inbox, wire, replay, lastEventId, got, caught,
                base, since, drops>>

Polls == INSTANCE PollingCoordinator WITH Key <- PollKey
Series == INSTANCE SeriesDependents
Stream == INSTANCE EventReplay

ASSUME PartsAssumption ==
  Polls!PollingAssumption /\ Series!SeriesAssumption /\ Stream!ReplayAssumption

\* A root, two pods that wait for it, and one that waits for both.
Graph ==
  [p \in Pod |-> CASE p = tip -> {left, right}
                   [] p \in {left, right} -> {root}
                   [] OTHER -> {}]

PartsInit ==
  /\ part \in {"calls", "polls", "series", "stream"}
  /\ Init /\ Polls!Init /\ Series!Init /\ Stream!Init

PartsNext ==
  /\ UNCHANGED part
  /\ \/ part = "calls" /\ Next /\ UNCHANGED <<pollVars, seriesVars, streamVars>>
     \/ part = "polls" /\ Polls!Next /\ UNCHANGED <<queueVars, seriesVars, streamVars>>
     \/ part = "series" /\ Series!Next /\ UNCHANGED <<queueVars, pollVars, streamVars>>
     \/ part = "stream" /\ Stream!Next /\ UNCHANGED <<queueVars, pollVars, seriesVars>>

PartsSpec == PartsInit /\ [][PartsNext]_<<part, queueVars, pollVars, seriesVars, streamVars>>

\* The calls and the pods of a part that rests have no step to take.
PartsFairSpec == PartsSpec /\ Fairness /\ Series!Fairness

\* At most one operation of a pod talks to its remote, and it is the one recorded
\* (polling-coordinator.ts).
OneOperation == Polls!OneOperation

\* No dependent runs before its parents were delivered (admission-dependents.ts).
StartsAfterParents == Series!StartsAfterParents

\* A dependent whose parents are all delivered runs, or one of them is taken back
\* (admission-dependents.ts).
DependentRuns == Series!DependentRuns

\* Once a client is told that its replay ended, it has, or has on its way, every event after
\* the position it connected with (websocket.ts).
CaughtUp == Stream!CaughtUp
=============================================================================
