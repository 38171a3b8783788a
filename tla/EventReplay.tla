----------------------------- MODULE EventReplay -----------------------------
(* The event stream between the daemon and a client that reconnects: the stored *)
(* events and their broadcast (pods/event-bus.ts, pods/event-repository.ts), the *)
(* websocket with its paged replay (api/websocket.ts), and the two clients, the  *)
(* desktop app (EventSocket.swift) and the mobile one (ws-client.ts).            *)
EXTENDS Naturals, Sequences, SequencesExt

CONSTANTS Desktop,              \* the client is the desktop app, or the mobile one
          PageSize, MaxReplay,  \* REPLAY_PAGE_SIZE, REPLAY_MAX_EVENTS
          MaxEvents, MaxDrops   \* bounds

ReplayAssumption ==
  /\ Desktop \in BOOLEAN
  /\ {PageSize, MaxReplay} \subseteq Nat \ {0} /\ {MaxEvents, MaxDrops} \subseteq Nat

VARIABLES events,               \* the last event stored
          connected, subscribed,
          inbox, wire,          \* messages to the daemon, frames to the client
          replay,               \* the replay underway: where it is, how many it sent
          lastEventId, got,     \* the client: its position, and the events it knows of
          caught,               \* it was told that its replay ended, or asked for none
          base, since,          \* history: its position when it connected, and the event
          drops                 \*   before its first subscription

connectionVars == <<connected, subscribed, inbox, wire, replay>>
clientVars == <<lastEventId, got, caught, base, since>>
streamVars == <<events, connectionVars, clientVars, drops>>

NoReplay == [on |-> FALSE, cursor |-> 0, sent |-> 0]

Init ==
  /\ events = 0 /\ connected = FALSE /\ subscribed = FALSE /\ inbox = <<>> /\ wire = <<>>
  /\ replay = NoReplay /\ lastEventId = 0 /\ got = {} /\ caught = FALSE
  /\ base = 0 /\ since = 0 /\ drops = 0
----------------------------------------------------------------------------
(* The daemon.                                                                *)

Frame(e) == [type |-> "event", id |-> e]
Signal(t) == [type |-> t, id |-> 0]

\* emit: insert, then broadcast to those subscribed.
Emit ==
  /\ events < MaxEvents /\ events' = events + 1
  /\ wire' = IF subscribed THEN Append(wire, Frame(events + 1)) ELSE wire
  /\ UNCHANGED <<connected, subscribed, inbox, replay, clientVars, drops>>

Least(a, b) == IF a < b THEN a ELSE b

\* getSince: how many events the next page has.
Count(r) == Least(PageSize, Least(MaxReplay - r.sent, events - r.cursor))

\* What a replay tells the client at its end.
Ending(r) == <<Signal(IF r.sent >= MaxReplay /\ events > r.cursor THEN "truncated" ELSE "complete")>>

\* The loop of replayEvents up to its next await, or to its end.
ReplayPage(r) ==
  IF Count(r) = 0
  THEN replay' = NoReplay /\ wire' = wire \o Ending(r)
  ELSE /\ wire' = wire \o [i \in 1..Count(r) |-> Frame(r.cursor + i)]
       /\ replay' = [on |-> TRUE, cursor |-> r.cursor + Count(r), sent |-> r.sent + Count(r)]

\* The daemon's message handler: a replay sends its first page at once.
Handle ==
  /\ inbox # <<>> /\ inbox' = Tail(inbox)
  /\ \/ /\ Head(inbox) = "subscribe_all" /\ subscribed' = TRUE
        /\ caught' = (caught \/ base = 0)
        /\ since' = IF base = 0 THEN events ELSE since
        /\ UNCHANGED <<replay, wire>>
     \/ /\ Head(inbox) = "replay"
        /\ ReplayPage([on |-> TRUE, cursor |-> base, sent |-> 0])
        /\ UNCHANGED <<subscribed, caught, since>>
  /\ UNCHANGED <<events, connected, lastEventId, got, base, drops>>

\* The next iteration, after the timer.
NextPage ==
  /\ replay.on /\ ReplayPage(replay)
  /\ UNCHANGED <<events, connected, subscribed, inbox, clientVars, drops>>
----------------------------------------------------------------------------
(* The client.                                                                *)

\* Mutant: the desktop asks for its replay before it subscribes.
HelloReplayFirst == <<"replay", "subscribe_all">>

\* What a client that knows its position sends when the socket opens.
Hello == IF Desktop THEN <<"subscribe_all", "replay">> ELSE <<"replay", "subscribe_all">>

Connect ==
  /\ ~connected /\ connected' = TRUE
  /\ inbox' = IF lastEventId > 0 THEN Hello ELSE <<"subscribe_all">>
  /\ base' = lastEventId
  /\ UNCHANGED <<events, subscribed, wire, replay, lastEventId, got, caught, since, drops>>

\* The position after an event: the desktop keeps the largest, the mobile client the last.
Track(e) == IF Desktop /\ e < lastEventId THEN lastEventId ELSE e

\* What the client knows after it loaded everything again.
Refreshed == 1..events

Receive ==
  /\ wire # <<>> /\ wire' = Tail(wire)
  /\ LET f == Head(wire) IN
     \/ /\ f.type = "event"
        /\ lastEventId' = Track(f.id) /\ got' = got \cup {f.id} /\ UNCHANGED caught
     \/ f.type = "complete" /\ caught' = TRUE /\ UNCHANGED <<lastEventId, got>>
     \/ f.type = "truncated" /\ caught' = TRUE /\ got' = got \cup Refreshed /\ UNCHANGED lastEventId
  /\ UNCHANGED <<events, connected, subscribed, inbox, replay, base, since, drops>>

\* The connection ends: what is on its way is lost, and the daemon unsubscribes.
Drop ==
  /\ connected /\ drops < MaxDrops /\ drops' = drops + 1
  /\ connected' = FALSE /\ subscribed' = FALSE /\ caught' = FALSE
  /\ inbox' = <<>> /\ wire' = <<>> /\ replay' = NoReplay
  /\ UNCHANGED <<events, lastEventId, got, base, since>>

Next == Emit \/ Handle \/ NextPage \/ Connect \/ Receive \/ Drop

Spec == Init /\ [][Next]_streamVars
----------------------------------------------------------------------------
\* Types of the stream and the client.
TypeOK ==
  /\ {events, lastEventId, base, since} \subseteq 0..MaxEvents /\ drops \in 0..MaxDrops
  /\ {connected, subscribed, caught} \subseteq BOOLEAN
  /\ inbox \in Seq({"subscribe_all", "replay"}) /\ got \subseteq 1..events
  /\ wire \in Seq([type : {"event", "complete", "truncated"}, id : 0..events])
  /\ replay \in [on : BOOLEAN, cursor : 0..events, sent : 0..MaxReplay]

Coming(e) == Frame(e) \in Range(wire)

\* What the client has been promised: everything after its first subscription.
Expected == {e \in 1..events : e > since}

\* A connection is complete by itself: once the client is told that its replay
\* ended, it has, or has on its way, every event after the position it connected
\* with, also those stored while the replay awaited its next page.
CaughtUp == caught /\ subscribed => \A e \in Expected : e > base => e \in got \/ Coming(e)
=============================================================================
