---------------------------- MODULE Application ----------------------------
(***************************************************************************)
(* app/Application.cpp: the one task that takes events off the queue,      *)
(* updates the station's state and its lamp, numbers what goes upstream,   *)
(* and publishes it or keeps it until MQTT takes it.                       *)
(*                                                                         *)
(* The task is cut into a step per access to what other tasks change: the  *)
(* queue, connected_ (read by isConnected() and again by publish()), and   *)
(* the client's API lock.  StateManager, OutputManager and the store       *)
(* belong to this task, so work on them joins the step before it.          *)
(***************************************************************************)
EXTENDS OfflineEventStore, MqttManager, StateManager

CONSTANT MaxSequence     \* bound: no new event once this many are numbered
ASSUME MaxSequenceAssumption == MaxSequence \in Nat

VARIABLES
    pc,              \* the next step of the task
    ret,             \* in flushOfflineEvents(): the step it returns to
    cur,             \* in processEvent(): its argument
    nextSequenceId,  \* nextSequenceId_
    station,         \* the fields of StateManager
    led,             \* level of the status pin
    \* History, read by no action:
    newest,          \* sequence id of the last event numbered, per input
    published,       \* last event MQTT accepted, per input
    lost,            \* sequence id of the last event dropped, per input
    lastAccepted,    \* sequence id MQTT accepted last
    tally            \* how many numbered events met each end

taskVars == <<pc, ret, cur>>
stationVars == <<nextSequenceId, station, led, newest>>
storeVars == <<store, coalescedCount>>
historyVars == <<published, lost, lastAccepted, tally>>
vars == <<queue, mqttVars, taskVars, stationVars, storeVars, historyVars>>

Ends == {"accepted", "unserializable", "heartbeat", "rejected"}

Init ==
    /\ QueueInit /\ MqttInit /\ StoreInit
    /\ pc = "receive" /\ ret = "none" /\ cur = NoEvent
    /\ nextSequenceId = 1 /\ station = InitialStation /\ led = LedLevel(FALSE)
    /\ newest = [s \in Inputs |-> 0]
    /\ published = [s \in Inputs |-> NoEvent]
    /\ lost = [s \in Inputs |-> 0]
    /\ lastAccepted = 0
    /\ tally = [end \in Ends |-> 0]

(***************************************************************************)
(* Bookkeeping of the history variables.                                   *)
(***************************************************************************)
Count(end) == tally' = [tally EXCEPT ![end] = @ + 1]

Accepted(e) ==
    /\ lastAccepted' = e.sequenceId
    /\ published' = IF e.sourceId \in Inputs
                    THEN [published EXCEPT ![e.sourceId] = e] ELSE published
    /\ Count("accepted")
    /\ UNCHANGED lost

Dropped(e, end) ==
    /\ lost' = IF e.sourceId \in Inputs
               THEN [lost EXCEPT ![e.sourceId] = e.sequenceId] ELSE lost
    /\ Count(end)
    /\ UNCHANGED <<lastAccepted, published>>

(***************************************************************************)
(* run() and processEvent()                                                *)
(***************************************************************************)
Goto(label) == pc' = label /\ UNCHANGED ret

(* flushOfflineEvents() if its caller's test on the store lets it be       *)
(* called, and the caller's next step.                                     *)
FlushThen(label) == pc' = "flush" /\ ret' = label
FlushIfBuffered(label) ==
    IF store = <<>> THEN Goto(label) ELSE FlushThen(label)

(* flushOfflineEvents() returns to its caller.                             *)
FlushReturns == pc' = ret /\ ret' = "none"

(* processEvent() is done: run() had called it with a received event or    *)
(* with its own heartbeat.                                                 *)
EventDone ==
    /\ Goto(IF cur.type = "Heartbeat" THEN "receive" ELSE "retry")
    /\ cur' = NoEvent

ReceiveEvent ==
    /\ pc = "receive"
    /\ Receive
    /\ cur' = Received
    /\ IF Received.type = "MqttConnected" THEN FlushThen("handle")
                                          ELSE Goto("handle")
    /\ UNCHANGED <<mqttVars, stationVars, storeVars, historyVars>>

(* receive() gives up after a second without an event.                     *)
ReceiveTimesOut ==
    /\ pc = "receive"
    /\ queue = <<>>
    /\ Goto("retry")
    /\ UNCHANGED <<queue, mqttVars, cur, stationVars, storeVars, historyVars>>

ShouldPublish(e) ==
    e.type \in InputTypes \cup {"FaultDetected", "SyncRequested", "Heartbeat"}

(* The rest of processEvent() up to the flush publishOrBuffer() starts     *)
(* with.                                                                   *)
Handle ==
    /\ pc = "handle"
    /\ station' = StateAfter(station, cur)
    /\ led' = LedAfter(led, cur)
    /\ IF ShouldPublish(cur)
       THEN /\ cur' = [cur EXCEPT !.sequenceId = nextSequenceId]
            /\ nextSequenceId' = nextSequenceId + 1
            /\ newest' = IF cur.sourceId \in Inputs
                         THEN [newest EXCEPT ![cur.sourceId] = nextSequenceId]
                         ELSE newest
            /\ FlushIfBuffered("direct")
       ELSE /\ EventDone
            /\ UNCHANGED <<nextSequenceId, newest>>
    /\ UNCHANGED <<queue, mqttVars, storeVars, historyVars>>

(* Mutant: only the MqttConnected event and new events flush the backlog.  *)
RetryOnNoticeOnly ==
    /\ pc = "retry"
    /\ Goto("heartbeat")
    /\ UNCHANGED <<queue, mqttVars, cur, stationVars, storeVars, historyVars>>

(* run() retries the backlog after every receive, successful or not.       *)
Retry ==
    /\ pc = "retry"
    /\ FlushIfBuffered("heartbeat")
    /\ UNCHANGED <<queue, mqttVars, cur, stationVars, storeVars, historyVars>>

HeartbeatDue ==
    /\ pc = "heartbeat"
    /\ nextSequenceId <= MaxSequence
    /\ cur' = Heartbeat
    /\ Goto("handle")
    /\ UNCHANGED <<queue, mqttVars, stationVars, storeVars, historyVars>>

HeartbeatNotDue ==
    /\ pc = "heartbeat"
    /\ Goto("receive")
    /\ UNCHANGED <<queue, mqttVars, cur, stationVars, storeVars, historyVars>>

(***************************************************************************)
(* publishOrBuffer() after its flush                                       *)
(***************************************************************************)
(* Mutant: a new event is published past a backlog that was not flushed.   *)
DirectPastBacklog ==
    /\ pc = "direct"
    /\ connected
    /\ Goto("publish")
    /\ UNCHANGED <<queue, mqttVars, cur, stationVars, storeVars, historyVars>>

(* isConnected() and the serialization, which fails without heap.          *)
DirectPossible ==
    /\ pc = "direct"
    /\ store = <<>> /\ connected
    /\ Goto("publish")
    /\ UNCHANGED <<queue, mqttVars, cur, stationVars, storeVars, historyVars>>

DirectImpossible ==
    /\ pc = "direct"    \* backlog left, not connected, or empty payload
    /\ Goto("buffer")
    /\ UNCHANGED <<queue, mqttVars, cur, stationVars, storeVars, historyVars>>

(* MqttManager::publish() reads connected_ again ...                       *)
Publish ==
    /\ pc = "publish"
    /\ Goto(IF connected THEN "enqueue" ELSE "buffer")
    /\ UNCHANGED <<queue, mqttVars, cur, stationVars, storeVars, historyVars>>

(* ... and waits for the API lock to hand the message over.                *)
EnqueueAccepted ==
    /\ pc = "enqueue" /\ ApiLockFree
    /\ Accepted(cur)
    /\ EventDone
    /\ UNCHANGED <<queue, mqttVars, stationVars, storeVars>>

(* Mutant: an event the client refuses is not kept.                        *)
EnqueueRefusedForgets ==
    /\ pc = "enqueue" /\ ApiLockFree
    /\ EventDone
    /\ UNCHANGED <<queue, mqttVars, stationVars, storeVars, historyVars>>

EnqueueRefused ==
    /\ pc = "enqueue" /\ ApiLockFree
    /\ Goto("buffer")
    /\ UNCHANGED <<queue, mqttVars, cur, stationVars, storeVars, historyVars>>

DiscardHeartbeat ==
    /\ pc = "buffer" /\ cur.type = "Heartbeat"
    /\ Dropped(cur, "heartbeat")
    /\ EventDone
    /\ UNCHANGED <<queue, mqttVars, stationVars, storeVars>>

Buffer ==
    /\ pc = "buffer" /\ cur.type # "Heartbeat"
    /\ Push(cur)
    /\ IF PushAccepts(store, cur) THEN UNCHANGED historyVars
                                  ELSE Dropped(cur, "rejected")
    /\ EventDone
    /\ UNCHANGED <<queue, mqttVars, stationVars>>

(***************************************************************************)
(* flushOfflineEvents()                                                    *)
(***************************************************************************)
Flush ==
    /\ pc = "flush"
    /\ IF connected THEN Goto("peek") ELSE FlushReturns
    /\ UNCHANGED <<queue, mqttVars, cur, stationVars, storeVars, historyVars>>

(* peek() finds the store empty, or the head serializes ...                *)
FlushPeek ==
    /\ pc = "peek"
    /\ IF store = <<>> THEN FlushReturns ELSE Goto("flushPublish")
    /\ UNCHANGED <<queue, mqttVars, cur, stationVars, storeVars, historyVars>>

(* ... or its payload comes back empty and the head is given up.           *)
FlushDropsUnserializable ==
    /\ pc = "peek"
    /\ Pop
    /\ Dropped(Peeked, "unserializable")
    /\ Goto("peek")
    /\ UNCHANGED <<queue, mqttVars, cur, stationVars>>

FlushPublish ==
    /\ pc = "flushPublish"
    /\ IF connected THEN Goto("flushEnqueue") ELSE FlushReturns
    /\ UNCHANGED <<queue, mqttVars, cur, stationVars, storeVars, historyVars>>

FlushAccepted ==
    /\ pc = "flushEnqueue" /\ ApiLockFree
    /\ Pop
    /\ Accepted(Peeked)
    /\ Goto("peek")
    /\ UNCHANGED <<queue, mqttVars, cur, stationVars>>

(* Mutant: the head was popped before the client was asked.                *)
FlushRefusedAfterPop ==
    /\ pc = "flushEnqueue" /\ ApiLockFree
    /\ Pop
    /\ FlushReturns
    /\ UNCHANGED <<queue, mqttVars, cur, stationVars, historyVars>>

FlushRefused ==
    /\ pc = "flushEnqueue" /\ ApiLockFree
    /\ FlushReturns
    /\ UNCHANGED <<queue, mqttVars, cur, stationVars, storeVars, historyVars>>

AppTask ==
    \/ ReceiveEvent \/ ReceiveTimesOut \/ Handle \/ Retry
    \/ HeartbeatDue \/ HeartbeatNotDue
    \/ DirectPossible \/ DirectImpossible \/ Publish
    \/ EnqueueAccepted \/ EnqueueRefused \/ DiscardHeartbeat \/ Buffer
    \/ Flush \/ FlushPeek \/ FlushDropsUnserializable \/ FlushPublish
    \/ FlushAccepted \/ FlushRefused

(***************************************************************************)
(* The other senders of the queue.                                         *)
(***************************************************************************)
(* A driver sends a change; a refused one is retried by its next poll.     *)
InputSends ==
    /\ nextSequenceId + Len(queue) <= MaxSequence
    /\ \E e \in InputEvents : Send(e)
    /\ UNCHANGED <<mqttVars, taskVars, stationVars, storeVars, historyVars>>

(* WifiManager::publishConnectionEvent                                     *)
WifiSends ==
    /\ \E up \in BOOLEAN :
          SendOrDrop(LinkEvent(IF up THEN "WifiConnected"
                                     ELSE "WifiDisconnected", up))
    /\ UNCHANGED <<mqttVars, taskVars, stationVars, storeVars, historyVars>>

MqttStep ==
    /\ MqttTask \/ NetworkChanges \/ OnCommand
    /\ UNCHANGED <<taskVars, stationVars, storeVars, historyVars>>

Next == AppTask \/ InputSends \/ WifiSends \/ MqttStep

Spec == Init /\ [][Next]_vars

(***************************************************************************)
(* Fairness.  The task is never suspended for good, nor is the esp-mqtt    *)
(* task.  A FreeRTOS mutex goes to the task that waits for it, so a task   *)
(* at the API lock gets it although the esp-mqtt task takes it again and   *)
(* again; and a client that is offered the oldest event over and over      *)
(* takes it in the end, because its outbox drains.                         *)
(***************************************************************************)
Fairness ==
    /\ WF_vars(AppTask)
    /\ WF_vars(MqttTask /\ MqttStep)
    /\ SF_vars(EnqueueAccepted \/ EnqueueRefused)
    /\ SF_vars(FlushAccepted)

FairSpec == Spec /\ Fairness

(***************************************************************************)
(* Properties                                                              *)
(***************************************************************************)
Labels ==
    {"receive", "handle", "retry", "heartbeat", "direct", "publish",
     "enqueue", "buffer", "flush", "peek", "flushPublish", "flushEnqueue"}

FlushLabels == {"flush", "peek", "flushPublish", "flushEnqueue"}

(* cur is numbered and neither accepted, buffered nor dropped yet.         *)
InFlight ==
    \/ pc \in {"direct", "publish", "enqueue", "buffer"}
    \/ pc \in FlushLabels /\ ret = "direct"

Buffered == {e.sequenceId : e \in ToSet(store)}

ControlOK ==
    /\ pc \in Labels
    /\ IF pc \in FlushLabels THEN ret \in {"handle", "direct", "heartbeat"}
                             ELSE ret = "none"

(* Every variable keeps the values its C++ type and its queue allow.       *)
TypeOK ==
    /\ QueueTypeOK /\ MqttTypeOK /\ StoreTypeOK
    /\ ControlOK
    /\ cur \in EventRecords
    /\ nextSequenceId \in Nat \ {0}
    /\ station \in Stations /\ led \in {0, 1}
    /\ newest \in [Inputs -> Nat] /\ lost \in [Inputs -> Nat]
    /\ published \in [Inputs -> EventRecords]
    /\ lastAccepted \in Nat
    /\ tally \in [Ends -> Nat]

(* Each event that got a sequence id is in exactly one place: accepted by  *)
(* MQTT, dropped for a counted reason, superseded, buffered, or in the     *)
(* task's hands.  peek-publish-pop and the buffering of a refused event    *)
(* neither lose nor duplicate one, whatever MQTT does meanwhile.           *)
Accounting ==
    nextSequenceId - 1 =
        tally["accepted"] + tally["unserializable"] + tally["heartbeat"]
          + tally["rejected"] + coalescedCount + Len(store)
          + (IF InFlight THEN 1 ELSE 0)

(* publishOrBuffer: "Older events must be accepted before newer events."   *)
(* No event leaves for MQTT while an older one still waits, and none after *)
(* a newer one.                                                            *)
AcceptedInOrder ==
    [][lastAccepted' # lastAccepted =>
          /\ lastAccepted' > lastAccepted
          /\ \A i \in 1..Len(store') : store'[i].sequenceId > lastAccepted']_vars

(* OfflineEventStore::push: one entry per input, replayed in ascending     *)
(* sequence ids, all younger than what MQTT has and older than the event   *)
(* in the task's hands.                                                    *)
BacklogOrdered ==
    /\ Ordered(store)
    /\ \A n \in Buffered : lastAccepted < n /\ n < nextSequenceId
    /\ InFlight => \A n \in Buffered : n < cur.sequenceId

(* With room for one event per input, no event is turned away for want of  *)
(* space, however long the outage: superseding bounds the backlog.         *)
NeverRejected == tally["rejected"] = 0

(* The newest event of an input is never forgotten: it was accepted, is    *)
(* buffered, is in the task's hands, or could not be serialized.           *)
NewestKept ==
    \A s \in Inputs :
        \/ newest[s] \in {published[s].sequenceId, lost[s]} \cup Buffered
        \/ InFlight /\ newest[s] = cur.sequenceId

(* What a backend that applies each accepted event shows for an input is   *)
(* the value StateManager holds, once nothing waits.                       *)
Shows(s) ==
    \/ newest[s] \in {0, lost[s]}
    \/ published[s].value = StationValue(station, s)

ReplayEndsAtCurrentValue ==
    ~InFlight /\ store = <<>> => \A s \in Inputs : Shows(s)

(* The store as this task uses it is a Backlog: the newest event of each   *)
(* input and every system event, oldest out first, through superseding,    *)
(* popping and giving up unserializable heads.                             *)
BacklogImage == INSTANCE Backlog
    WITH Capacity <- StoreCapacity, pending <- ToSet(store)
KeepsBacklog == BacklogImage!Spec

(* Once the broker stays reachable, what MQTT accepted catches up with the *)
(* station again and again, even when the MqttConnected event was dropped  *)
(* at a full queue.                                                        *)
ViewCatchesUp == <>[]link => []<>(\A s \in Inputs : Shows(s))

(* The task always comes back to its queue: waiting for the client's lock  *)
(* inside a publish cannot deadlock with a handler that sends to the queue *)
(* the task would have to empty.                                           *)
KeepsReceiving == []<>(pc = "receive")

=============================================================================
