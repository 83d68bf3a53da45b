-------------------------------- MODULE Bench --------------------------------
(***************************************************************************)
(* bench/: one BenchStation and the MiddlewareUnderTest through the broker *)
(* outage of scenario C, with the SimulatedStation of backend/demo.py      *)
(* inside the BenchStation.  The harness thread emits; the station's Paho  *)
(* thread connects, disconnects and takes commands; one lock makes each of *)
(* these a step, but the connection goes down under it.                    *)
(*                                                                         *)
(* External: Paho, which keeps a QoS 1 message until the broker has        *)
(* acknowledged it, one it refused for want of a connection included, and  *)
(* sends what it keeps again, oldest first, when it has reconnected; and   *)
(* the broker, which keeps nothing for a client that is away.              *)
(***************************************************************************)
EXTENDS Naturals, Sequences, SequencesExt

CONSTANTS
    Kinds,        \* the event types scenario C emits
    Capacity,     \* SimulatedStation's capacity
    MaxEvents     \* bound: events emitted

ASSUME KindsAssumption ==
    Kinds \subseteq {"button_pressed", "toggle_changed", "encoder_changed",
                     "analog_changed"}
ASSUME CapacityAssumption == Capacity \in Nat \ {0}
ASSUME MaxEventsAssumption == MaxEvents \in Nat

VARIABLES
    phase,        \* where scenario_c is
    reconnected,  \* reconnects > connects_before
    middleware,   \* "away", "back" or, not gone yet, "first": subscribed
    connected,    \* client.is_connected()
    session,      \* external: at the broker, "dead", "open" or "subscribed"
    online, pending, sequence,       \* the SimulatedStation's
    awaiting, published, drops,      \* the BenchStation's
    outbox,       \* external: what its client keeps, oldest first
    sent,         \* external: how many of them this connection has sent
    downlink,     \* external: commands on their way, named by their toggle
    \* History, read by no action:
    mispaired,    \* a command was paired with another one's toggle
    disturbed     \* something was lost, or sent or answered twice

modelVars == <<online, pending, sequence>>
reportVars == <<awaiting, published, drops>>
wireVars == <<outbox, sent, downlink>>
benchVars == <<phase, reconnected, middleware, connected, session, modelVars,
               reportVars, wireVars, mispaired, disturbed>>

BenchInit ==
    /\ phase = "running" /\ reconnected = FALSE /\ middleware = "first"
    /\ connected = TRUE /\ session = "subscribed"
    /\ online = TRUE /\ pending = <<>> /\ sequence = 1
    /\ awaiting = <<>> /\ published = 0 /\ drops = 0
    /\ outbox = <<>> /\ sent = 0 /\ downlink = <<>>
    /\ mispaired = FALSE /\ disturbed = FALSE

(***************************************************************************)
(* The station sends                                                       *)
(***************************************************************************)
Toggles(events) ==
    LET First[n \in 0..Len(events)] ==
          IF n = 0 THEN <<>>
          ELSE IF events[n].type = "toggle_changed"
          THEN Append(First[n - 1], events[n])
          ELSE First[n - 1]
    IN  First[Len(events)]

(* Mutant: every event waits for a command.                                *)
DeliversAwaitingAll(todo, n, refused) ==
    /\ published' = published + n
    /\ awaiting' = awaiting \o SubSeq(todo, 1, n)
    /\ outbox' = outbox \o SubSeq(todo, 1, IF refused THEN n + 1 ELSE n)
    /\ connected' = (connected /\ (online => n = Len(todo)))
    /\ disturbed' = (disturbed \/ refused)

(* Mutant: a refused event counts as published.                            *)
DeliversCountingRefused(todo, n, refused) ==
    /\ published' = published + (IF refused THEN n + 1 ELSE n)
    /\ awaiting' = awaiting \o Toggles(SubSeq(todo, 1, n))
    /\ outbox' = outbox \o SubSeq(todo, 1, IF refused THEN n + 1 ELSE n)
    /\ connected' = (connected /\ (online => n = Len(todo)))
    /\ disturbed' = (disturbed \/ refused)

(* deliver(), called for one event after the other: n are accepted, and    *)
(* the next one meets a connection that is gone: before is_connected(), or *)
(* after it, so that publish() refuses what it keeps.                      *)
Delivers(todo, n, refused) ==
    /\ published' = published + n
    /\ awaiting' = awaiting \o Toggles(SubSeq(todo, 1, n))
    /\ outbox' = outbox \o SubSeq(todo, 1, IF refused THEN n + 1 ELSE n)
    /\ connected' = (connected /\ (online => n = Len(todo)))
    /\ disturbed' = (disturbed \/ refused)

(* How far the deliveries may come: all the way when the connection is     *)
(* alive, into a dead socket as long as nobody has noticed.                *)
Outcomes(todo, on) ==
    IF ~on \/ ~connected THEN {<<0, FALSE>>}
    ELSE {<<Len(todo), FALSE>>} \cup
         IF session = "dead" THEN (0..Len(todo) - 1) \X BOOLEAN ELSE {}

(* emit()'s end: what was not delivered is kept, if there is room for it.  *)
Buffered(rest) == IF Len(rest) > Capacity THEN Front(rest) ELSE rest

(* Mutant: the new event goes first when the link is up.                   *)
BacklogAndOvertaking(event) == <<event>> \o pending

(* flush(), then the new event if nothing is left before it.               *)
BacklogAnd(event) == Append(pending, event)

(* emit() under the lock.                                                  *)
Emit(kind) ==
    LET todo == BacklogAnd([id |-> sequence, type |-> kind])
    IN  /\ sequence <= MaxEvents /\ sequence' = sequence + 1
        /\ \E out \in Outcomes(todo, online) :
              LET rest == SubSeq(todo, out[1] + 1, Len(todo)) IN
              /\ Delivers(todo, out[1], out[2])
              /\ pending' = Buffered(rest)
              /\ drops' = IF Buffered(rest) = rest THEN drops ELSE drops + 1
        /\ UNCHANGED <<online, middleware, session, sent, downlink, mispaired>>

(***************************************************************************)
(* The harness thread: scenario_c                                          *)
(***************************************************************************)
EmitRound ==
    /\ phase \in {"running", "outage"}
    /\ \E kind \in Kinds : Emit(kind)
    /\ UNCHANGED <<phase, reconnected>>

(* What the broker had is gone; what the middleware's client still keeps   *)
(* goes out again.                                                         *)
StopServing ==
    /\ phase = "running" /\ phase' = "outage"
    /\ session' = "dead" /\ middleware' = "away"
    /\ \E n \in 0..Len(downlink) :
          /\ downlink' = SubSeq(downlink, n + 1, Len(downlink))
          /\ disturbed' = (disturbed \/ n > 0)
    /\ UNCHANGED <<reconnected, connected, modelVars, reportVars, outbox, sent,
                   mispaired>>

ResumeServing ==
    /\ phase = "outage" /\ phase' = "recovering"
    /\ UNCHANGED <<reconnected, middleware, connected, session, modelVars,
                   reportVars, wireVars, mispaired, disturbed>>

Nudge ==
    /\ phase = "recovering" /\ reconnected
    /\ \E kind \in Kinds : Emit(kind)
    /\ UNCHANGED <<phase, reconnected>>

Recovered ==
    /\ phase = "recovering" /\ phase' = "ended"
    /\ reconnected /\ middleware = "back" /\ pending = <<>>
    /\ UNCHANGED <<reconnected, middleware, connected, session, modelVars,
                   reportVars, wireVars, mispaired, disturbed>>

(* recovery_deadline.                                                      *)
GivesUp ==
    /\ phase = "recovering" /\ phase' = "ended"
    /\ UNCHANGED <<reconnected, middleware, connected, session, modelVars,
                   reportVars, wireVars, mispaired, disturbed>>

(***************************************************************************)
(* The station's network thread                                            *)
(***************************************************************************)
NoticesLoss ==
    /\ session = "dead" /\ connected /\ connected' = FALSE
    /\ UNCHANGED <<phase, reconnected, middleware, session, modelVars,
                   reportVars, wireVars, mispaired, disturbed>>

OnDisconnect ==
    /\ ~connected /\ online /\ online' = FALSE
    /\ UNCHANGED <<phase, reconnected, middleware, connected, session, pending,
                   sequence, reportVars, wireVars, mispaired, disturbed>>

(* The CONNACK: what was sent and not acknowledged goes out again.         *)
Connects ==
    /\ phase \in {"recovering", "ended"} /\ ~connected /\ ~online
    /\ connected' = TRUE /\ session' = "open"
    /\ sent' = 0 /\ disturbed' = (disturbed \/ sent > 0)
    /\ UNCHANGED <<phase, reconnected, middleware, modelVars, reportVars,
                   outbox, downlink, mispaired>>

(* Mutant: the station connects and stays offline.                         *)
OnConnectOffline ==
    /\ connected /\ ~online /\ session = "open"
    /\ session' = "subscribed" /\ reconnected' = TRUE
    /\ UNCHANGED <<phase, middleware, connected, modelVars, reportVars,
                   wireVars, mispaired, disturbed>>

OnConnect ==
    /\ connected /\ ~online /\ session = "open"
    /\ session' = "subscribed" /\ reconnected' = TRUE
    /\ online' = TRUE /\ pending' = <<>>
    /\ Delivers(pending, Len(pending), FALSE)
    /\ UNCHANGED <<phase, middleware, sequence, drops, sent, downlink,
                   mispaired>>

(* _on_command: paired with the oldest toggle that waits.                  *)
OnCommand ==
    /\ downlink # <<>> /\ session = "subscribed"
    /\ downlink' = Tail(downlink)
    /\ IF awaiting # <<>>
       THEN /\ awaiting' = Tail(awaiting)
            /\ mispaired' = (mispaired \/ Head(awaiting).id # Head(downlink))
       ELSE UNCHANGED <<awaiting, mispaired>>
    /\ UNCHANGED <<phase, reconnected, middleware, connected, session,
                   modelVars, published, drops, outbox, sent, disturbed>>

CommandLost ==
    /\ downlink # <<>> /\ session # "subscribed"
    /\ downlink' = Tail(downlink) /\ disturbed' = TRUE
    /\ UNCHANGED <<phase, reconnected, middleware, connected, session,
                   modelVars, reportVars, outbox, sent, mispaired>>

(***************************************************************************)
(* The broker and the middleware                                           *)
(***************************************************************************)
(* The middleware, if it is subscribed, answers a toggle.                  *)
BrokerForwards ==
    /\ session # "dead" /\ sent < Len(outbox) /\ sent' = sent + 1
    /\ LET e == outbox[sent + 1] IN
          IF middleware # "away"
          THEN /\ downlink' = IF Toggles(<<e>>) # <<>>
                              THEN Append(downlink, e.id) ELSE downlink
               /\ UNCHANGED disturbed
          ELSE disturbed' = TRUE /\ UNCHANGED downlink
    /\ UNCHANGED <<phase, reconnected, middleware, connected, session,
                   modelVars, reportVars, outbox, mispaired>>

BrokerAcknowledges ==
    /\ session # "dead" /\ sent > 0
    /\ outbox' = Tail(outbox) /\ sent' = sent - 1
    /\ UNCHANGED <<phase, reconnected, middleware, connected, session,
                   modelVars, reportVars, downlink, mispaired, disturbed>>

MiddlewareConnects ==
    /\ phase \in {"recovering", "ended"}
    /\ middleware = "away" /\ middleware' = "back"
    /\ UNCHANGED <<phase, reconnected, connected, session, modelVars,
                   reportVars, wireVars, mispaired, disturbed>>

BenchNext ==
    \/ EmitRound \/ StopServing \/ ResumeServing \/ Nudge \/ Recovered
    \/ GivesUp \/ NoticesLoss \/ OnDisconnect \/ Connects \/ OnConnect
    \/ OnCommand \/ CommandLost \/ BrokerForwards \/ BrokerAcknowledges
    \/ MiddlewareConnects

BenchSpec == BenchInit /\ [][BenchNext]_benchVars

(* The harness runs on, and both clients try again until they connect; no  *)
(* fairness for the deadline.                                              *)
BenchFairness ==
    /\ WF_benchVars(ResumeServing) /\ WF_benchVars(Nudge)
    /\ WF_benchVars(Recovered) /\ WF_benchVars(NoticesLoss)
    /\ WF_benchVars(OnDisconnect) /\ WF_benchVars(Connects)
    /\ WF_benchVars(OnConnect) /\ WF_benchVars(MiddlewareConnects)

FairBenchSpec == BenchSpec /\ BenchFairness

(***************************************************************************)
(* Properties                                                              *)
(***************************************************************************)
(* The numbers scenario C reports account for every event: published,      *)
(* still buffered or dropped, and none of them twice, although publish()   *)
(* may refuse an event it keeps and the station offers it again.           *)
ReportAddsUp == sequence - 1 = published + Len(pending) + drops

Ids(events) == [i \in DOMAIN events |-> events[i].id]
Ascends(s) == \A i \in 2..Len(s) : s[i - 1] < s[i]

(* What the pairing below rests on: across the outage the station hands    *)
(* its client no event before an older one it still holds, and keeps the   *)
(* toggles that wait for a command in the order of their sequence ids.     *)
OldestFirst ==
    /\ Ascends(Ids(pending)) /\ Ascends(Ids(awaiting))
    /\ \A i \in DOMAIN outbox, j \in DOMAIN pending :
          outbox[i].id <= pending[j].id

(* harness.py pairs commands with toggles by order alone: "QoS 1 on one    *)
(* topic from one broker preserves per-station ordering, which is what     *)
(* makes this valid".  As long as nothing is lost and nothing sent twice,  *)
(* every command is paired with the toggle it answers.                     *)
PairsRightUndisturbed == mispaired => disturbed

(* Once the broker is back the scenario ends by itself: the buffer drains  *)
(* and both clients are back, without waiting for the deadline.            *)
RecoveryCompletes == phase = "recovering" ~> phase = "ended"

=============================================================================
