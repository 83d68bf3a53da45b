------------------------- MODULE ApplicationProofs -------------------------
(***************************************************************************)
(* Theorems about Application for all inputs, counts, capacities and       *)
(* bounds.                                                                 *)
(***************************************************************************)
EXTENDS Application, StoreProofs

USE DEF vars, mqttVars, taskVars, stationVars, storeVars, historyVars

(* What the producers put into the queue is an event record.               *)
LEMMA ProducersTyped ==
    /\ InputEvents \subseteq EventRecords
    /\ Commands \subseteq EventRecords
    /\ NoEvent \in EventRecords /\ Heartbeat \in EventRecords
    /\ \A type \in LinkTypes, up \in BOOLEAN : LinkEvent(type, up) \in EventRecords
<1>1. InputEvents \subseteq EventRecords
  BY DEF InputEvents, EventRecords, EventTypes
<1>2. Commands \subseteq EventRecords
  BY CommandsAssumption DEF CommandEvents, EventRecords, EventTypes, Values
<1>3. NoEvent \in EventRecords /\ Heartbeat \in EventRecords
  BY DEF NoEvent, Heartbeat, Event, EventRecords, EventTypes, Values
<1>4. \A type \in LinkTypes, up \in BOOLEAN : LinkEvent(type, up) \in EventRecords
  BY DEF LinkEvent, Event, EventRecords, EventTypes, Values
<1>. QED  BY <1>1, <1>2, <1>3, <1>4

(* Sending keeps the queue typed and within its capacity.                  *)
LEMMA SendTyped ==
    ASSUME QueueTypeOK, NEW e \in EventRecords, Send(e) \/ SendOrDrop(e)
    PROVE  QueueTypeOK'
<1>1. Len(queue) \in Nat /\ QueueCapacity \in Nat
  BY QueueCapacityAssumption, LenProperties DEF QueueTypeOK
<1>2. CASE QueueHasRoom /\ queue' = Append(queue, e)
  BY <1>1, <1>2, AppendProperties DEF QueueTypeOK, QueueHasRoom
<1>3. CASE queue' = queue
  BY <1>3 DEF QueueTypeOK
<1>. QED  BY <1>2, <1>3 DEF Send, SendOrDrop

(* The history variables stay typed when an event leaves.                  *)
LEMMA HistoryTyped ==
    ASSUME TypeOK, NEW e \in EventRecords, NEW end \in Ends,
           Accepted(e) \/ Dropped(e, end)
    PROVE  /\ lost' \in [Inputs -> Nat] /\ lastAccepted' \in Nat
           /\ published' \in [Inputs -> EventRecords]
           /\ tally' \in [Ends -> Nat]
<1>. e.sequenceId \in Nat /\ "accepted" \in Ends
  BY DEF EventRecords, Ends
<1>1. CASE Accepted(e)
  BY <1>1 DEF Accepted, Count, TypeOK
<1>2. CASE Dropped(e, end)
  BY <1>2 DEF Dropped, Count, TypeOK
<1>. QED  BY <1>1, <1>2

(* StateManager and the lamp stay in range for any event.                  *)
LEMMA StationTyped ==
    ASSUME NEW s \in Stations, NEW l \in {0, 1}, NEW e \in EventRecords
    PROVE  StateAfter(s, e) \in Stations /\ LedAfter(l, e) \in {0, 1}
<1>. e.value \in Values
  BY DEF EventRecords
<1>1. StateAfter(s, e) \in Stations
  BY DEF StateAfter, Stations
<1>2. LedAfter(l, e) \in {0, 1}
  BY DEF LedAfter, LedLevel
<1>. QED  BY <1>1, <1>2

(***************************************************************************)
(* Type correctness                                                        *)
(***************************************************************************)
(* Steps that only move the task: every other variable keeps its value.    *)
ControlStep ==
    \/ ReceiveTimesOut \/ Retry \/ HeartbeatDue \/ HeartbeatNotDue
    \/ DirectPossible \/ DirectImpossible \/ Publish \/ EnqueueRefused
    \/ Flush \/ FlushPeek \/ FlushPublish \/ FlushRefused

LEMMA ControlStepMoves ==
    ASSUME TypeOK, ControlStep
    PROVE  /\ ControlOK'
           /\ cur' \in EventRecords
           /\ UNCHANGED <<queue, mqttVars, stationVars, storeVars, historyVars>>
<1>. /\ ControlOK
     /\ cur \in EventRecords
  BY DEF TypeOK
<1>. USE DEF ControlOK, Labels, FlushLabels, Goto, FlushReturns, FlushThen, FlushIfBuffered
<1>1. CASE ReceiveTimesOut  BY <1>1 DEF ReceiveTimesOut
<1>2. CASE Retry            BY <1>2 DEF Retry
<1>3. CASE HeartbeatDue     BY <1>3, ProducersTyped DEF HeartbeatDue
<1>4. CASE HeartbeatNotDue  BY <1>4 DEF HeartbeatNotDue
<1>5. CASE DirectPossible   BY <1>5 DEF DirectPossible
<1>6. CASE DirectImpossible BY <1>6 DEF DirectImpossible
<1>7. CASE Publish          BY <1>7 DEF Publish
<1>8. CASE EnqueueRefused   BY <1>8 DEF EnqueueRefused
<1>9. CASE Flush            BY <1>9 DEF Flush
<1>10. CASE FlushPeek       BY <1>10 DEF FlushPeek
<1>11. CASE FlushPublish    BY <1>11 DEF FlushPublish
<1>12. CASE FlushRefused    BY <1>12 DEF FlushRefused
<1>. QED
  BY <1>1, <1>2, <1>3, <1>4, <1>5, <1>6, <1>7, <1>8, <1>9, <1>10, <1>11, <1>12
     DEF ControlStep

(* No step of any task leaves the types.                                   *)
LEMMA TypeStep ==
    ASSUME TypeOK, [Next]_vars
    PROVE  TypeOK'
<1>. /\ QueueTypeOK /\ MqttTypeOK /\ StoreTypeOK
     /\ ControlOK
     /\ cur \in EventRecords
     /\ nextSequenceId \in Nat \ {0}
     /\ station \in Stations /\ led \in {0, 1}
     /\ newest \in [Inputs -> Nat] /\ lost \in [Inputs -> Nat]
     /\ published \in [Inputs -> EventRecords] /\ lastAccepted \in Nat
     /\ tally \in [Ends -> Nat]
  BY DEF TypeOK
<1>. USE DEF ControlOK, Labels, FlushLabels, Goto, FlushReturns, FlushThen, FlushIfBuffered, EventDone
<1>. NoEvent \in EventRecords
  BY ProducersTyped
<1>1. CASE ReceiveEvent
  <2>1. queue \in Seq(EventRecords) /\ queue # <<>>
    BY <1>1 DEF ReceiveEvent, Receive, QueueTypeOK
  <2>2. Received \in EventRecords /\ QueueTypeOK'
    BY <1>1, <2>1, HeadTailProperties, QueueCapacityAssumption, LenProperties
       DEF ReceiveEvent, Receive, Received, QueueTypeOK
  <2>. QED  BY <1>1, <2>2 DEF ReceiveEvent, TypeOK, MqttTypeOK, StoreTypeOK
<1>2. CASE Handle
  <2>1. station' \in Stations /\ led' \in {0, 1}
    BY <1>2, StationTyped DEF Handle
  <2>2. ControlOK'
    BY <1>2 DEF Handle
  <2>3. cur' \in EventRecords
    BY <1>2 DEF Handle, EventRecords
  <2>4. nextSequenceId' \in Nat \ {0} /\ newest' \in [Inputs -> Nat]
    BY <1>2 DEF Handle
  <2>. QED
    BY <1>2, <2>1, <2>2, <2>3, <2>4 DEF Handle, TypeOK, QueueTypeOK, MqttTypeOK, StoreTypeOK
<1>3. CASE EnqueueAccepted
  BY <1>3, HistoryTyped
     DEF EnqueueAccepted, Ends, TypeOK, QueueTypeOK, MqttTypeOK, StoreTypeOK
<1>4. CASE DiscardHeartbeat
  BY <1>4, HistoryTyped
     DEF DiscardHeartbeat, Ends, TypeOK, QueueTypeOK, MqttTypeOK, StoreTypeOK
<1>5. CASE Buffer
  <2>1. StoreTypeOK'
    BY <1>5, PushedShape DEF Buffer, Push, StoreTypeOK
  <2>2. /\ lost' \in [Inputs -> Nat] /\ lastAccepted' \in Nat
        /\ published' \in [Inputs -> EventRecords] /\ tally' \in [Ends -> Nat]
    BY <1>5, HistoryTyped DEF Buffer, Ends
  <2>. QED  BY <1>5, <2>1, <2>2 DEF Buffer, TypeOK, QueueTypeOK, MqttTypeOK
<1>6. CASE FlushDropsUnserializable \/ FlushAccepted
  <2>1. store # <<>> /\ store' = Tail(store) /\ UNCHANGED coalescedCount
    BY <1>6 DEF FlushDropsUnserializable, FlushAccepted, Pop
  <2>2. Peeked \in EventRecords /\ StoreTypeOK'
    BY <2>1, HeadTailProperties, StoreCapacityAssumption, LenProperties
       DEF Peeked, StoreTypeOK
  <2>3. \E end \in Ends : Accepted(Peeked) \/ Dropped(Peeked, end)
    BY <1>6 DEF FlushDropsUnserializable, FlushAccepted, Ends
  <2>4. /\ lost' \in [Inputs -> Nat] /\ lastAccepted' \in Nat
        /\ published' \in [Inputs -> EventRecords] /\ tally' \in [Ends -> Nat]
    BY <2>2, <2>3, HistoryTyped
  <2>. QED
    BY <1>6, <2>2, <2>4
       DEF FlushDropsUnserializable, FlushAccepted, TypeOK, QueueTypeOK, MqttTypeOK
<1>7. CASE ControlStep
  BY <1>7, ControlStepMoves DEF TypeOK, QueueTypeOK, MqttTypeOK, StoreTypeOK
<1>8. CASE InputSends
  <2>1. QueueTypeOK'
    BY <1>8, SendTyped, ProducersTyped DEF InputSends
  <2>. QED  BY <1>8, <2>1 DEF InputSends, TypeOK, MqttTypeOK, StoreTypeOK
<1>9. CASE WifiSends
  <2>1. QueueTypeOK'
    BY <1>9, SendTyped, ProducersTyped DEF WifiSends, LinkTypes
  <2>. QED  BY <1>9, <2>1 DEF WifiSends, TypeOK, MqttTypeOK, StoreTypeOK
<1>10. CASE MqttStep
  <2>1. CASE PublishConnectionEvent
    <3>1. QueueTypeOK'
      BY <2>1, SendTyped, ProducersTyped
         DEF PublishConnectionEvent, LinkTypes, MqttTypeOK
    <3>. QED
      BY <1>10, <2>1, <3>1
         DEF MqttStep, PublishConnectionEvent, TypeOK, MqttTypeOK, StoreTypeOK
  <2>2. CASE OnCommand
    <3>1. QueueTypeOK'
      BY <2>2, SendTyped, ProducersTyped DEF OnCommand
    <3>. QED
      BY <1>10, <2>2, <3>1 DEF MqttStep, OnCommand, TypeOK, MqttTypeOK, StoreTypeOK
  <2>3. CASE NetworkChanges \/ OnConnected \/ OnDisconnected \/ Subscribe
    BY <1>10, <2>3
       DEF MqttStep, NetworkChanges, OnConnected, OnDisconnected, Subscribe,
           ApiLockFree, TypeOK, QueueTypeOK, MqttTypeOK, StoreTypeOK
  <2>. QED  BY <1>10, <2>1, <2>2, <2>3 DEF MqttStep, MqttTask
<1>11. CASE UNCHANGED vars
  BY <1>11 DEF TypeOK, QueueTypeOK, MqttTypeOK, StoreTypeOK
<1>. QED
  BY <1>1, <1>2, <1>3, <1>4, <1>5, <1>6, <1>7, <1>8, <1>9, <1>10, <1>11
     DEF Next, AppTask, ControlStep

(* The start of the station is typed.                                      *)
LEMMA TypeInit == Init => TypeOK
<1>. SUFFICES ASSUME Init PROVE TypeOK
  OBVIOUS
<1>1. QueueTypeOK /\ MqttTypeOK /\ StoreTypeOK
  <2>1. <<>> \in Seq(EventRecords) /\ Len(<<>>) = 0
    BY EmptySeq
  <2>2. queue = <<>> /\ store = <<>> /\ coalescedCount = 0
    BY DEF Init, QueueInit, StoreInit
  <2>3. QueueTypeOK /\ StoreTypeOK
    BY <2>1, <2>2, QueueCapacityAssumption, StoreCapacityAssumption
       DEF QueueTypeOK, StoreTypeOK
  <2>. QED  BY <2>3 DEF Init, MqttInit, MqttTypeOK
<1>2. ControlOK /\ cur \in EventRecords /\ nextSequenceId \in Nat \ {0}
  BY ProducersTyped DEF Init, ControlOK, Labels, FlushLabels
<1>3. station \in Stations /\ led \in {0, 1}
  BY DEF Init, Stations, InitialStation, Values, LedLevel
<1>4. /\ newest \in [Inputs -> Nat] /\ lost \in [Inputs -> Nat]
      /\ published \in [Inputs -> EventRecords] /\ lastAccepted \in Nat
      /\ tally \in [Ends -> Nat]
  BY ProducersTyped DEF Init
<1>. QED  BY <1>1, <1>2, <1>3, <1>4 DEF TypeOK

(* Every reachable state of the station is type correct: in particular     *)
(* neither the event queue nor the offline store ever exceeds its capacity.*)
THEOREM TypeCorrect == Spec => []TypeOK
<1>1. Init => TypeOK
  BY TypeInit
<1>2. TypeOK /\ [Next]_vars => TypeOK'
  BY TypeStep
<1>. QED  BY <1>1, <1>2, PTL DEF Spec

(***************************************************************************)
(* Accounting                                                              *)
(***************************************************************************)
Ended ==
    tally["accepted"] + tally["unserializable"] + tally["heartbeat"]
      + tally["rejected"]

(* One more event met its end.                                             *)
LEMMA CountAddsOne ==
    ASSUME tally \in [Ends -> Nat], NEW end \in Ends, Count(end)
    PROVE  Ended' = Ended + 1 /\ Ended \in Nat
<1>1. Ended \in Nat
  BY DEF Ended, Ends
<1>2. CASE end = "accepted"        BY <1>2 DEF Ended, Ends, Count
<1>3. CASE end = "unserializable"  BY <1>3 DEF Ended, Ends, Count
<1>4. CASE end = "heartbeat"       BY <1>4 DEF Ended, Ends, Count
<1>5. CASE end = "rejected"        BY <1>5 DEF Ended, Ends, Count
<1>. QED  BY <1>1, <1>2, <1>3, <1>4, <1>5 DEF Ends

(* A step that only moves the task takes no event in hand and drops none.  *)
LEMMA ControlStepKeepsFlight ==
    ASSUME TypeOK, ControlStep
    PROVE  InFlight' = InFlight
<1>. ControlOK
  BY DEF TypeOK
<1>. USE DEF ControlOK, Labels, FlushLabels, InFlight, Goto, FlushReturns,
             FlushThen, FlushIfBuffered
<1>1. CASE ReceiveTimesOut  BY <1>1 DEF ReceiveTimesOut
<1>2. CASE Retry            BY <1>2 DEF Retry
<1>3. CASE HeartbeatDue     BY <1>3 DEF HeartbeatDue
<1>4. CASE HeartbeatNotDue  BY <1>4 DEF HeartbeatNotDue
<1>5. CASE DirectPossible   BY <1>5 DEF DirectPossible
<1>6. CASE DirectImpossible BY <1>6 DEF DirectImpossible
<1>7. CASE Publish          BY <1>7 DEF Publish
<1>8. CASE EnqueueRefused   BY <1>8 DEF EnqueueRefused
<1>9. CASE Flush            BY <1>9 DEF Flush
<1>10. CASE FlushPeek       BY <1>10 DEF FlushPeek
<1>11. CASE FlushPublish    BY <1>11 DEF FlushPublish
<1>12. CASE FlushRefused    BY <1>12 DEF FlushRefused
<1>. QED
  BY <1>1, <1>2, <1>3, <1>4, <1>5, <1>6, <1>7, <1>8, <1>9, <1>10, <1>11, <1>12
     DEF ControlStep

(* The steps of the other tasks do not touch what the accounts are about.  *)
OthersStep == InputSends \/ WifiSends \/ MqttStep \/ UNCHANGED vars

LEMMA OthersKeepTask ==
    ASSUME OthersStep
    PROVE  UNCHANGED <<taskVars, stationVars, storeVars, historyVars>>
  BY DEF OthersStep, InputSends, WifiSends, MqttStep

(* Accounting is kept by every step from a typed state.                    *)
LEMMA AccountingStep ==
    ASSUME TypeOK, Accounting, [Next]_vars
    PROVE  Accounting'
<1> DEFINE Flying == IF InFlight THEN 1 ELSE 0
<1>1. /\ nextSequenceId - 1 = Ended + coalescedCount + Len(store) + Flying
      /\ Ended \in Nat /\ coalescedCount \in Nat /\ Len(store) \in Nat
      /\ nextSequenceId \in Nat /\ tally \in [Ends -> Nat]
      /\ store \in Seq(EventRecords) /\ cur \in EventRecords
      /\ Len(store) <= StoreCapacity /\ ControlOK
  BY LenProperties DEF Accounting, Ended, TypeOK, StoreTypeOK, Ends
<1>2. SUFFICES nextSequenceId' - 1
                  = Ended' + coalescedCount' + Len(store') + Flying'
  BY DEF Accounting, Ended
<1>3. CASE ReceiveEvent
  BY <1>1, <1>3
     DEF ReceiveEvent, Goto, FlushThen, InFlight, FlushLabels, ControlOK, Ended
<1>4. CASE Handle
  <2>1. ~InFlight /\ UNCHANGED <<tally, store, coalescedCount>>
    BY <1>4 DEF Handle, InFlight, FlushLabels
  <2>2. CASE ShouldPublish(cur)
    <3>1. InFlight' /\ nextSequenceId' = nextSequenceId + 1
      BY <1>4, <2>2
         DEF Handle, FlushIfBuffered, FlushThen, Goto, InFlight, FlushLabels
    <3>2. Flying = 0 /\ Flying' = 1
      BY <2>1, <3>1
    <3>3. Ended' = Ended /\ coalescedCount' = coalescedCount /\ store' = store
      BY <2>1 DEF Ended
    <3>. QED  BY <1>1, <3>1, <3>2, <3>3
  <2>3. CASE ~ShouldPublish(cur)
    <3>1. ~InFlight' /\ nextSequenceId' = nextSequenceId
      BY <1>4, <2>3 DEF Handle, EventDone, Goto, InFlight, FlushLabels
    <3>. QED  BY <1>1, <2>1, <3>1 DEF Ended
  <2>. QED  BY <2>2, <2>3
<1>5. CASE EnqueueAccepted \/ DiscardHeartbeat
  <2>1. InFlight /\ ~InFlight'
    BY <1>5
       DEF EnqueueAccepted, DiscardHeartbeat, EventDone, Goto, InFlight, FlushLabels
  <2>2. Ended' = Ended + 1
    BY <1>1, <1>5, CountAddsOne
       DEF EnqueueAccepted, DiscardHeartbeat, Accepted, Dropped, Ends
  <2>. QED  BY <1>1, <1>5, <2>1, <2>2 DEF EnqueueAccepted, DiscardHeartbeat
<1>6. CASE Buffer
  <2>1. InFlight /\ ~InFlight' /\ nextSequenceId' = nextSequenceId
    BY <1>6 DEF Buffer, EventDone, Goto, InFlight, FlushLabels
  <2>2. /\ store' = Pushed(store, cur)
        /\ coalescedCount' =
              coalescedCount + (IF Superseded(store, cur) = {} THEN 0 ELSE 1)
    BY <1>6 DEF Buffer, Push
  <2>3. Len(store') = Len(store) - (IF Superseded(store, cur) = {} THEN 0 ELSE 1)
                        + (IF PushAccepts(store, cur) THEN 1 ELSE 0)
    BY <1>1, <2>2, PushedShape
  <2>4. CASE PushAccepts(store, cur)
    <3>1. Ended' = Ended
      BY <1>6, <2>4 DEF Buffer, Ended
    <3>. QED  BY <1>1, <2>1, <2>2, <2>3, <2>4, <3>1
  <2>5. CASE ~PushAccepts(store, cur)
    <3>1. Ended' = Ended + 1
      BY <1>1, <1>6, <2>5, CountAddsOne DEF Buffer, Dropped, Ends
    <3>. QED  BY <1>1, <2>1, <2>2, <2>3, <2>5, <3>1
  <2>. QED  BY <2>4, <2>5
<1>7. CASE FlushDropsUnserializable \/ FlushAccepted
  <2>1. InFlight' = InFlight /\ nextSequenceId' = nextSequenceId
    BY <1>7
       DEF FlushDropsUnserializable, FlushAccepted, Goto, InFlight, FlushLabels
  <2>2. Ended' = Ended + 1
    BY <1>1, <1>7, CountAddsOne
       DEF FlushDropsUnserializable, FlushAccepted, Accepted, Dropped, Ends
  <2>3. coalescedCount' = coalescedCount /\ Len(store') = Len(store) - 1
    BY <1>1, <1>7, HeadTailProperties
       DEF FlushDropsUnserializable, FlushAccepted, Pop
  <2>. QED  BY <1>1, <2>1, <2>2, <2>3
<1>8. CASE ControlStep
  BY <1>1, <1>8, ControlStepMoves, ControlStepKeepsFlight DEF Ended
<1>9. CASE OthersStep
  BY <1>1, <1>9, OthersKeepTask DEF Ended, InFlight
<1>. QED
  BY <1>3, <1>4, <1>5, <1>6, <1>7, <1>8, <1>9
     DEF Next, AppTask, ControlStep, OthersStep

(* Every numbered event is in exactly one place, in every reachable state. *)
THEOREM AccountsBalance == Spec => []Accounting
<1>1. Init => Accounting
  BY EmptySeq
     DEF Init, StoreInit, Accounting, InFlight, FlushLabels, Ends
<1>2. TypeOK /\ Accounting /\ [Next]_vars => Accounting'
  BY AccountingStep
<1>. QED  BY <1>1, <1>2, TypeCorrect, PTL DEF Spec

(***************************************************************************)
(* Order                                                                   *)
(*                                                                         *)
(* BacklogOrdered is not inductive by itself: superseding keeps the order  *)
(* only because what is buffered came from an input and is younger than    *)
(* all that waits, and a direct publication keeps it only because nothing  *)
(* waits.                                                                  *)
(***************************************************************************)
WellSourced(e) ==
    /\ e.type \in InputTypes <=> e.sourceId \in Inputs
    /\ e.type \notin {"FaultDetected", "SyncRequested"}

SourcesOK ==
    /\ \A i \in 1..Len(queue) : WellSourced(queue[i])
    /\ WellSourced(cur)
    /\ \A e \in ToSet(store) : e.sourceId \in Inputs

FlightOK ==
    /\ lastAccepted < nextSequenceId
    /\ InFlight => /\ cur.sequenceId = nextSequenceId - 1
                   /\ lastAccepted < cur.sequenceId
                   /\ ShouldPublish(cur)
    /\ pc \in {"publish", "enqueue"} => store = <<>>

OrderInv == TypeOK /\ SourcesOK /\ FlightOK /\ BacklogOrdered

(* No system source is an input.                                           *)
LEMMA SystemIsNoInput == SystemSource \notin Inputs
  BY InputsAssumption DEF SystemSource

(* What the producers send says the source of its type.                    *)
LEMMA ProducersWellSourced ==
    /\ \A e \in InputEvents : WellSourced(e)
    /\ \A e \in Commands : WellSourced(e)
    /\ \A type \in LinkTypes, up \in BOOLEAN : WellSourced(LinkEvent(type, up))
    /\ WellSourced(NoEvent) /\ WellSourced(Heartbeat)
<1>. USE SystemIsNoInput DEF WellSourced, InputTypes
<1>1. \A e \in InputEvents : WellSourced(e)
  BY DEF InputEvents
<1>2. \A e \in Commands : WellSourced(e)
  BY CommandsAssumption DEF CommandEvents, CommandTypes
<1>3. \A type \in LinkTypes, up \in BOOLEAN : WellSourced(LinkEvent(type, up))
  BY DEF LinkEvent, Event, LinkTypes
<1>4. WellSourced(NoEvent) /\ WellSourced(Heartbeat)
  BY DEF NoEvent, Heartbeat, Event
<1>. QED  BY <1>1, <1>2, <1>3, <1>4

(* A send keeps the sources in the queue right.                            *)
LEMMA SendWellSourced ==
    ASSUME QueueTypeOK, NEW e \in EventRecords, WellSourced(e),
           Send(e) \/ SendOrDrop(e),
           \A i \in 1..Len(queue) : WellSourced(queue[i])
    PROVE  \A i \in 1..Len(queue') : WellSourced(queue'[i])
<1>1. CASE queue' = queue
  BY <1>1
<1>2. CASE queue' = Append(queue, e)
  <2>1. /\ queue \in Seq(EventRecords) /\ Len(queue) \in Nat
        /\ Len(queue') = Len(queue) + 1 /\ queue'[Len(queue) + 1] = e
        /\ \A i \in 1..Len(queue) : queue'[i] = queue[i]
    BY <1>2, AppendProperties, LenProperties DEF QueueTypeOK
  <2>2. TAKE i \in 1..Len(queue')
  <2>3. i \in 1..Len(queue) \/ i = Len(queue) + 1
    BY <2>1
  <2>. QED  BY <2>1, <2>3
<1>. QED  BY <1>1, <1>2 DEF Send, SendOrDrop

(* Sources stay right whatever the step.                                   *)
LEMMA SourcesStep ==
    ASSUME TypeOK, SourcesOK, BacklogOrdered, FlightOK, [Next]_vars
    PROVE  SourcesOK'
<1>. /\ QueueTypeOK /\ MqttTypeOK /\ StoreTypeOK /\ cur \in EventRecords
     /\ store \in Seq(EventRecords) /\ queue \in Seq(EventRecords)
     /\ \A i \in 1..Len(queue) : WellSourced(queue[i])
     /\ WellSourced(cur) /\ \A e \in ToSet(store) : e.sourceId \in Inputs
  BY DEF TypeOK, SourcesOK, StoreTypeOK, QueueTypeOK
<1>1. CASE ReceiveEvent
  <2>1. /\ queue # <<>> /\ queue' = Tail(queue) /\ cur' = Head(queue)
        /\ store' = store
    BY <1>1 DEF ReceiveEvent, Receive, Received
  <2>2. /\ Len(queue) \in Nat \ {0} /\ Head(queue) = queue[1]
        /\ Len(Tail(queue)) = Len(queue) - 1
        /\ \A i \in 1..Len(Tail(queue)) : Tail(queue)[i] = queue[i + 1]
    BY <2>1, HeadTailProperties, LenProperties, EmptySeq
  <2>3. WellSourced(cur')
    <3>1. 1 \in 1..Len(queue)
      BY <2>2
    <3>2. cur' = queue[1]
      BY <2>1, <2>2, Zenon
    <3>. QED  BY <3>1, <3>2
  <2>4. \A i \in 1..Len(queue') : WellSourced(queue'[i])
    <3>1. TAKE i \in 1..Len(queue')
    <3>2. Len(queue') = Len(queue) - 1
      BY <2>1, <2>2
    <3>3. i \in 1..Len(Tail(queue)) /\ i + 1 \in 1..Len(queue)
      BY <2>2, <3>2
    <3>4. queue'[i] = queue[i + 1]
      BY <2>1, <2>2, <3>3
    <3>. QED  BY <3>3, <3>4
  <2>. QED  BY <2>1, <2>3, <2>4 DEF SourcesOK
<1>2. CASE Handle
  <2>1. UNCHANGED <<queue, store>>
    BY <1>2 DEF Handle
  <2>2. WellSourced(cur')
    <3>1. cur' = [cur EXCEPT !.sequenceId = nextSequenceId] \/ cur' = NoEvent
      BY <1>2 DEF Handle, EventDone
    <3>2. WellSourced([cur EXCEPT !.sequenceId = nextSequenceId])
      BY DEF WellSourced, EventRecords
    <3>. QED  BY <3>1, <3>2, ProducersWellSourced
  <2>. QED  BY <2>1, <2>2 DEF SourcesOK
<1>3. CASE EnqueueAccepted \/ DiscardHeartbeat
  <2>1. UNCHANGED <<queue, store>> /\ cur' = NoEvent
    BY <1>3 DEF EnqueueAccepted, DiscardHeartbeat, EventDone
  <2>. QED  BY <2>1, ProducersWellSourced DEF SourcesOK
<1>4. CASE Buffer
  <2>1. /\ UNCHANGED queue /\ cur' = NoEvent /\ store' = Pushed(store, cur)
        /\ InFlight /\ cur.type # "Heartbeat"
    BY <1>4 DEF Buffer, EventDone, Push, InFlight
  <2>2. cur.sourceId \in Inputs
    BY <2>1 DEF WellSourced, FlightOK, ShouldPublish
  <2>3. \A e \in ToSet(store') : e.sourceId \in Inputs
    <3>1. CASE PushAccepts(store, cur)
      <4>1. \A i \in 1..Len(store) : store[i].sequenceId < cur.sequenceId
        BY <2>1, LenProperties DEF BacklogOrdered, Buffered, ToSet
      <4>2. ToSet(store') \subseteq ToSet(store) \cup {cur}
        BY <2>1, <2>2, <3>1, <4>1, SystemIsNoInput, PushedOrdered
           DEF BacklogOrdered
      <4>. QED  BY <2>2, <4>2
    <3>2. CASE ~PushAccepts(store, cur)
      BY <2>1, <3>2, PushedShape DEF StoreTypeOK
    <3>. QED  BY <3>1, <3>2
  <2>. QED  BY <2>1, <2>3, ProducersWellSourced DEF SourcesOK
<1>5. CASE FlushDropsUnserializable \/ FlushAccepted
  <2>1. UNCHANGED <<queue, cur>> /\ store # <<>> /\ store' = Tail(store)
    BY <1>5 DEF FlushDropsUnserializable, FlushAccepted, Pop
  <2>2. ToSet(store') \subseteq ToSet(store)
    BY <2>1, TailOrdered DEF BacklogOrdered
  <2>. QED  BY <2>1, <2>2 DEF SourcesOK
<1>6. CASE HeartbeatDue
  BY <1>6, ProducersWellSourced DEF HeartbeatDue, SourcesOK
<1>7. CASE ControlStep /\ ~HeartbeatDue
  <2>1. UNCHANGED <<queue, store, cur>>
    BY <1>7
       DEF ControlStep, ReceiveTimesOut, Retry, HeartbeatNotDue, DirectPossible,
           DirectImpossible, Publish, EnqueueRefused, Flush, FlushPeek,
           FlushPublish, FlushRefused
  <2>. QED  BY <2>1 DEF SourcesOK
<1>8. CASE InputSends
  BY <1>8, SendWellSourced, ProducersTyped, ProducersWellSourced
     DEF InputSends, SourcesOK
<1>9. CASE WifiSends
  BY <1>9, SendWellSourced, ProducersTyped, ProducersWellSourced
     DEF WifiSends, SourcesOK, LinkTypes
<1>10. CASE MqttStep
  <2>1. \A i \in 1..Len(queue') : WellSourced(queue'[i])
    <3>1. CASE PublishConnectionEvent
      BY <3>1, SendWellSourced, ProducersTyped, ProducersWellSourced
         DEF PublishConnectionEvent, LinkTypes, MqttTypeOK
    <3>2. CASE OnCommand
      BY <3>2, SendWellSourced, ProducersTyped, ProducersWellSourced DEF OnCommand
    <3>3. CASE NetworkChanges \/ OnConnected \/ OnDisconnected \/ Subscribe
      BY <3>3 DEF NetworkChanges, OnConnected, OnDisconnected, Subscribe
    <3>. QED  BY <1>10, <3>1, <3>2, <3>3 DEF MqttStep, MqttTask
  <2>. QED  BY <1>10, <2>1 DEF MqttStep, SourcesOK
<1>11. CASE UNCHANGED vars
  BY <1>11 DEF SourcesOK
<1>. QED
  BY <1>1, <1>2, <1>3, <1>4, <1>5, <1>6, <1>7, <1>8, <1>9, <1>10, <1>11
     DEF Next, AppTask, ControlStep

(* The flight of the event in hand, and the order of the backlog, survive  *)
(* every step.                                                             *)
LEMMA OrderStep ==
    ASSUME OrderInv, [Next]_vars
    PROVE  FlightOK' /\ BacklogOrdered'
<1>. /\ TypeOK /\ SourcesOK /\ ControlOK /\ store \in Seq(EventRecords)
     /\ cur \in EventRecords /\ nextSequenceId \in Nat \ {0}
     /\ lastAccepted \in Nat /\ Len(store) <= StoreCapacity
  BY DEF OrderInv, TypeOK, StoreTypeOK
<1>. /\ lastAccepted < nextSequenceId
     /\ InFlight => /\ cur.sequenceId = nextSequenceId - 1
                    /\ lastAccepted < cur.sequenceId
                    /\ ShouldPublish(cur)
     /\ pc \in {"publish", "enqueue"} => store = <<>>
     /\ Ordered(store)
     /\ \A e \in ToSet(store) :
           lastAccepted < e.sequenceId /\ e.sequenceId < nextSequenceId
     /\ InFlight => \A e \in ToSet(store) : e.sequenceId < cur.sequenceId
  BY DEF OrderInv, FlightOK, BacklogOrdered, Buffered
<1>0. \A e \in ToSet(store) : e.sequenceId \in Nat
  <2>1. TAKE e \in ToSet(store)
  <2>2. PICK i \in DOMAIN store : e = store[i]
    BY DEF ToSet
  <2>3. e \in EventRecords
    BY <2>2, ElementOfSeq, LenProperties
  <2>. QED  BY <2>3 DEF EventRecords
<1>. SUFFICES
       /\ lastAccepted' < nextSequenceId'
       /\ InFlight' => /\ cur'.sequenceId = nextSequenceId' - 1
                       /\ lastAccepted' < cur'.sequenceId
                       /\ ShouldPublish(cur')
       /\ pc' \in {"publish", "enqueue"} => store' = <<>>
       /\ Ordered(store')
       /\ \A e \in ToSet(store') :
             lastAccepted' < e.sequenceId /\ e.sequenceId < nextSequenceId'
       /\ InFlight' => \A e \in ToSet(store') : e.sequenceId < cur'.sequenceId
  BY DEF FlightOK, BacklogOrdered, Buffered
<1>1. CASE ReceiveEvent
  <2>1. ~InFlight' /\ pc' \notin {"publish", "enqueue"}
    BY <1>1 DEF ReceiveEvent, Goto, FlushThen, InFlight, FlushLabels
  <2>2. UNCHANGED <<store, lastAccepted, nextSequenceId>>
    BY <1>1 DEF ReceiveEvent
  <2>. QED  BY <2>1, <2>2
<1>2. CASE Handle
  <2>1. UNCHANGED <<store, lastAccepted>> /\ pc' \notin {"publish", "enqueue"}
    BY <1>2 DEF Handle, EventDone, Goto, FlushIfBuffered, FlushThen
  <2>2. CASE ShouldPublish(cur)
    <3>1. /\ nextSequenceId' = nextSequenceId + 1
          /\ cur' = [cur EXCEPT !.sequenceId = nextSequenceId]
      BY <1>2, <2>2 DEF Handle
    <3>2. cur'.sequenceId = nextSequenceId /\ ShouldPublish(cur')
      BY <2>2, <3>1 DEF EventRecords, ShouldPublish
    <3>. QED  BY <1>0, <2>1, <3>1, <3>2
  <2>3. CASE ~ShouldPublish(cur)
    <3>1. ~InFlight' /\ nextSequenceId' = nextSequenceId
      BY <1>2, <2>3 DEF Handle, EventDone, Goto, InFlight, FlushLabels
    <3>. QED  BY <2>1, <3>1
  <2>. QED  BY <2>2, <2>3
<1>3. CASE EnqueueAccepted
  <2>1. /\ ~InFlight' /\ pc' \notin {"publish", "enqueue"} /\ InFlight
        /\ store = <<>> /\ UNCHANGED <<store, nextSequenceId>>
        /\ lastAccepted' = cur.sequenceId
    BY <1>3
       DEF EnqueueAccepted, Accepted, EventDone, Goto, InFlight, FlushLabels
  <2>2. ToSet(store') = {}
    BY <2>1 DEF ToSet
  <2>. QED  BY <2>1, <2>2
<1>4. CASE DiscardHeartbeat
  <2>1. /\ ~InFlight' /\ pc' \notin {"publish", "enqueue"}
        /\ UNCHANGED <<store, nextSequenceId, lastAccepted>>
    BY <1>4
       DEF DiscardHeartbeat, Dropped, EventDone, Goto, InFlight, FlushLabels
  <2>. QED  BY <2>1
<1>5. CASE Buffer
  <2>1. /\ ~InFlight' /\ pc' \notin {"publish", "enqueue"} /\ InFlight
        /\ cur.type # "Heartbeat" /\ store' = Pushed(store, cur)
        /\ UNCHANGED <<nextSequenceId, lastAccepted>>
    BY <1>5 DEF Buffer, Push, Dropped, EventDone, Goto, InFlight, FlushLabels
  <2>2. CASE PushAccepts(store, cur)
    <3>1. cur.sourceId \in Inputs /\ cur.sourceId # SystemSource
      BY <2>1, SystemIsNoInput DEF SourcesOK, WellSourced, ShouldPublish
    <3>2. \A i \in 1..Len(store) : store[i].sequenceId < cur.sequenceId
      BY <2>1, LenProperties DEF ToSet
    <3>3. /\ Ordered(store')
          /\ ToSet(store') \subseteq ToSet(store) \cup {cur}
      BY <2>1, <2>2, <3>1, <3>2, PushedOrdered
    <3>. QED  BY <2>1, <3>3
  <2>3. CASE ~PushAccepts(store, cur)
    <3>1. store' = store
      BY <2>1, <2>3, PushedShape
    <3>. QED  BY <2>1, <3>1
  <2>. QED  BY <2>2, <2>3
<1>6. CASE FlushDropsUnserializable \/ FlushAccepted
  <2>1. /\ store # <<>> /\ store' = Tail(store) /\ InFlight' = InFlight
        /\ pc' \notin {"publish", "enqueue"}
        /\ UNCHANGED <<nextSequenceId, cur>>
        /\ lastAccepted' \in {lastAccepted, Head(store).sequenceId}
    BY <1>6
       DEF FlushDropsUnserializable, FlushAccepted, Accepted, Dropped, Peeked,
           Pop, Goto, InFlight, FlushLabels
  <2>2. /\ Ordered(store')
        /\ ToSet(store') = ToSet(store) \ {Head(store)}
        /\ Head(store) \in ToSet(store)
        /\ \A x \in ToSet(store) :
              x # Head(store) => Head(store).sequenceId < x.sequenceId
    BY <2>1, TailOrdered
  <2>3. lastAccepted <= lastAccepted' /\ lastAccepted' < nextSequenceId
    BY <1>0, <2>1, <2>2
  <2>4. InFlight => lastAccepted' < cur.sequenceId
    BY <1>0, <2>1, <2>2
  <2>5. \A e \in ToSet(store') : lastAccepted' < e.sequenceId
    BY <2>1, <2>2
  <2>. QED  BY <2>1, <2>2, <2>3, <2>4, <2>5
<1>7. CASE ControlStep
  <2>1. /\ InFlight' = InFlight
        /\ UNCHANGED <<store, lastAccepted, nextSequenceId>>
    BY <1>7, ControlStepMoves, ControlStepKeepsFlight
  <2>2. InFlight' => cur' = cur
    BY <1>7, <2>1
       DEF ControlStep, ReceiveTimesOut, Retry, HeartbeatDue, HeartbeatNotDue,
           DirectPossible, DirectImpossible, Publish, EnqueueRefused, Flush,
           FlushPeek, FlushPublish, FlushRefused, InFlight, Goto, FlushLabels
  <2>3. pc' \in {"publish", "enqueue"} => store = <<>>
    BY <1>7
       DEF ControlStep, ReceiveTimesOut, Retry, HeartbeatDue, HeartbeatNotDue,
           DirectPossible, DirectImpossible, Publish, EnqueueRefused, Flush,
           FlushPeek, FlushPublish, FlushRefused, Goto, FlushThen,
           FlushIfBuffered, FlushReturns, FlushLabels, ControlOK, TypeOK
  <2>. QED  BY <2>1, <2>2, <2>3
<1>8. CASE OthersStep
  <2>1. UNCHANGED <<taskVars, stationVars, storeVars, historyVars>>
    BY <1>8, OthersKeepTask
  <2>. QED  BY <2>1 DEF InFlight
<1>. QED
  BY <1>1, <1>2, <1>3, <1>4, <1>5, <1>6, <1>7, <1>8
     DEF Next, AppTask, ControlStep, OthersStep

(* OrderInv is inductive.                                                  *)
LEMMA OrderInvariant == Spec => []OrderInv
<1>1. Init => OrderInv
  <2>. SUFFICES ASSUME Init PROVE OrderInv
    OBVIOUS
  <2>1. /\ store = <<>> /\ queue = <<>> /\ cur = NoEvent /\ ~InFlight
        /\ lastAccepted = 0 /\ nextSequenceId = 1 /\ pc = "receive"
    BY DEF Init, StoreInit, QueueInit, InFlight, FlushLabels
  <2>2. Len(store) = 0 /\ Len(queue) = 0 /\ ToSet(store) = {}
    BY <2>1, EmptySeq DEF ToSet
  <2>3. SourcesOK
    BY <2>1, <2>2, ProducersWellSourced DEF SourcesOK
  <2>4. FlightOK
    BY <2>1 DEF FlightOK
  <2>5. BacklogOrdered
    BY <2>1, <2>2 DEF BacklogOrdered, Ordered, Buffered
  <2>. QED  BY <2>3, <2>4, <2>5, TypeInit DEF OrderInv
<1>2. OrderInv /\ [Next]_vars => OrderInv'
  BY TypeStep, SourcesStep, OrderStep DEF OrderInv
<1>. QED  BY <1>1, <1>2, PTL DEF Spec

(* Replay ascends, one entry per input, in every reachable state.          *)
THEOREM BacklogStaysOrdered == Spec => []BacklogOrdered
<1>1. OrderInv => BacklogOrdered
  BY DEF OrderInv
<1>. QED  BY <1>1, OrderInvariant, PTL

(* MQTT accepts events in the order they were numbered, and none while an  *)
(* older one waits.                                                        *)
THEOREM AcceptanceInOrder == Spec => AcceptedInOrder
<1>1. ASSUME OrderInv, OrderInv', [Next]_vars, lastAccepted' # lastAccepted
      PROVE  /\ lastAccepted' > lastAccepted
             /\ \A i \in 1..Len(store') : store'[i].sequenceId > lastAccepted'
  <2>1. \A i \in 1..Len(store') : store'[i].sequenceId > lastAccepted'
    <3>1. store' \in Seq(EventRecords)
      BY <1>1 DEF OrderInv, TypeOK, StoreTypeOK
    <3>2. \A e \in ToSet(store') : lastAccepted' < e.sequenceId
      BY <1>1 DEF OrderInv, BacklogOrdered, Buffered
    <3>. QED  BY <3>1, <3>2, LenProperties DEF ToSet
  <2>2. CASE EnqueueAccepted
    BY <1>1, <2>2
       DEF EnqueueAccepted, Accepted, InFlight, OrderInv, FlightOK
  <2>3. CASE FlushAccepted
    <3>1. store # <<>> /\ lastAccepted' = Head(store).sequenceId
      BY <2>3 DEF FlushAccepted, Accepted, Pop, Peeked
    <3>2. Head(store) \in ToSet(store)
      BY <1>1, <3>1, TailOrdered
         DEF OrderInv, TypeOK, StoreTypeOK, BacklogOrdered
    <3>3. lastAccepted < Head(store).sequenceId
      BY <1>1, <3>2 DEF OrderInv, BacklogOrdered, Buffered
    <3>. QED  BY <2>1, <3>1, <3>3
  <2>4. CASE ~EnqueueAccepted /\ ~FlushAccepted
    <3>1. lastAccepted' = lastAccepted
      <4>1. CASE ControlStep \/ OthersStep
        BY <1>1, <4>1, ControlStepMoves, OthersKeepTask DEF OrderInv
      <4>2. CASE ReceiveEvent \/ Handle
        BY <4>2 DEF ReceiveEvent, Handle
      <4>3. CASE DiscardHeartbeat \/ Buffer \/ FlushDropsUnserializable
        BY <4>3 DEF DiscardHeartbeat, Buffer, FlushDropsUnserializable, Dropped
      <4>. QED
        BY <1>1, <2>4, <4>1, <4>2, <4>3
           DEF Next, AppTask, ControlStep, OthersStep
    <3>. QED  BY <1>1, <3>1
  <2>. QED  BY <2>1, <2>2, <2>3, <2>4
<1>2. OrderInv /\ OrderInv' /\ [Next]_vars
        => [lastAccepted' # lastAccepted =>
              /\ lastAccepted' > lastAccepted
              /\ \A i \in 1..Len(store') :
                    store'[i].sequenceId > lastAccepted']_vars
  BY <1>1
<1>. QED  BY <1>2, OrderInvariant, PTL DEF Spec, AcceptedInOrder

(***************************************************************************)
(* What the order of the backlog buys: no event is turned away, and the    *)
(* store is a Backlog.                                                     *)
(***************************************************************************)
(***************************************************************************)
(* Room                                                                    *)
(***************************************************************************)
(* A backlog with one entry per input and none from the event's source has *)
(* room for it: the entries before it sit in an injection into the others. *)
LEMMA RoomForInput ==
    ASSUME OrderInv, InFlight, cur.type # "Heartbeat",
           Cardinality(Inputs) <= StoreCapacity
    PROVE  PushAccepts(store, cur)
<1> DEFINE Others == Inputs \ {cur.sourceId}
           f == [i \in 1..Len(store) |-> store[i].sourceId]
<1>1. /\ store \in Seq(EventRecords) /\ cur \in EventRecords
      /\ Len(store) <= StoreCapacity /\ Len(store) \in Nat
      /\ \A i \in 1..Len(store) : store[i].sourceId \in Inputs
      /\ cur.sourceId \in Inputs /\ cur.sourceId # SystemSource
  BY LenProperties, SystemIsNoInput
     DEF OrderInv, TypeOK, StoreTypeOK, SourcesOK, ToSet, WellSourced,
         FlightOK, ShouldPublish
<1>2. SUFFICES ASSUME ~PushAccepts(store, cur) PROVE FALSE
  OBVIOUS
<1>3. Superseded(store, cur) = {} /\ Len(store) = StoreCapacity
  BY <1>1, <1>2, PushedShape
<1>4. f \in [1..Len(store) -> Others]
  BY <1>1, <1>3 DEF Superseded
<1>5. /\ IsFiniteSet(Inputs) /\ IsFiniteSet(Others)
      /\ Cardinality(Others) = Cardinality(Inputs) - 1
      /\ Cardinality(Inputs) \in Nat
  <2>1. IsFiniteSet(1..4)
    <3>1. 1 \in Int /\ 4 \in Int
      OBVIOUS
    <3>. QED  BY <3>1, FS_Interval, Zenon
  <2>2. IsFiniteSet(Inputs)
    BY <2>1, InputsAssumption, FS_Subset
  <2>. QED  BY <1>1, <2>2, FS_RemoveElement, FS_CardinalityType
<1>6. IsFiniteSet(1..Len(store)) /\ Cardinality(1..Len(store)) = Len(store)
  <2> DEFINE n == Len(store)
  <2>1. n \in Nat /\ n \in Int /\ 1 \in Int
    BY <1>1
  <2>. HIDE DEF n
  <2>2. IsFiniteSet(1..n) /\ Cardinality(1..n) = IF 1 > n THEN 0 ELSE n - 1 + 1
    BY <2>1, FS_Interval, Zenon
  <2>3. Cardinality(1..n) = n
    BY <2>1, <2>2
  <2>. QED  BY <2>2, <2>3 DEF n
<1>7. Cardinality(Others) < Cardinality(1..Len(store))
  BY <1>1, <1>3, <1>5, <1>6
<1>8. \E x, y \in 1..Len(store) : x # y /\ f[x] = f[y]
  <2> DEFINE Entries == 1..Len(store)
  <2>1. /\ f \in [Entries -> Others] /\ IsFiniteSet(Entries)
        /\ IsFiniteSet(Others) /\ Cardinality(Others) < Cardinality(Entries)
    BY <1>4, <1>5, <1>6, <1>7
  <2>. HIDE DEF f, Others, Entries
  <2>2. \E x, y \in Entries : x # y /\ f[x] = f[y]
    BY <2>1, FS_PigeonHole
  <2>. QED  BY <2>2 DEF Entries
<1>9. PICK x \in 1..Len(store), y \in 1..Len(store) :
         x < y /\ store[x].sourceId = store[y].sourceId
  BY <1>1, <1>8
<1>. QED  BY <1>9 DEF OrderInv, BacklogOrdered, Ordered

(* However long the outage, the store turns nothing away when it has an    *)
(* entry for each input (64 entries, 4 inputs in DeviceConfig.hpp).        *)
THEOREM NothingRejected ==
    ASSUME Cardinality(Inputs) <= StoreCapacity
    PROVE  Spec => []NeverRejected
<1>1. Init => NeverRejected
  BY DEF Init, NeverRejected, Ends
<1>2. ASSUME OrderInv, NeverRejected, [Next]_vars
      PROVE  NeverRejected'
  <2>. tally \in [Ends -> Nat] /\ tally["rejected"] = 0
    BY <1>2 DEF OrderInv, TypeOK, NeverRejected
  <2>1. CASE Buffer
    <3>1. InFlight /\ cur.type # "Heartbeat"
      BY <2>1 DEF Buffer, InFlight
    <3>2. tally' = tally
      BY <1>2, <2>1, <3>1, RoomForInput DEF Buffer
    <3>. QED  BY <3>2 DEF NeverRejected
  <2>2. CASE \/ EnqueueAccepted \/ DiscardHeartbeat
             \/ FlushDropsUnserializable \/ FlushAccepted
    <3>1. \E end \in {"accepted", "heartbeat", "unserializable"} : Count(end)
      BY <2>2 DEF EnqueueAccepted, DiscardHeartbeat, FlushDropsUnserializable,
                  FlushAccepted, Accepted, Dropped
    <3>. QED  BY <3>1 DEF Count, NeverRejected, Ends
  <2>3. CASE ReceiveEvent \/ Handle
    BY <2>3 DEF ReceiveEvent, Handle, NeverRejected
  <2>4. CASE ControlStep \/ OthersStep
    BY <1>2, <2>4, ControlStepMoves, OthersKeepTask DEF OrderInv, NeverRejected
  <2>. QED
    BY <1>2, <2>1, <2>2, <2>3, <2>4
       DEF Next, AppTask, ControlStep, OthersStep
<1>. QED  BY <1>1, <1>2, OrderInvariant, PTL DEF Spec

(***************************************************************************)
(* The store as a Backlog                                                  *)
(***************************************************************************)
(* publishOrBuffer() puts the event in hand into the set, or leaves the set. *)
LEMMA BufferPuts ==
    ASSUME OrderInv, Buffer
    PROVE  \/ \E e \in ToSet(store') \ ToSet(store) : BacklogImage!Put(e)
           \/ ToSet(store') = ToSet(store)
<1>1. /\ store \in Seq(EventRecords) /\ cur \in EventRecords
      /\ Len(store) <= StoreCapacity /\ Ordered(store)
      /\ InFlight /\ store' = Pushed(store, cur)
  BY DEF OrderInv, TypeOK, StoreTypeOK, BacklogOrdered, Buffer, Push, InFlight
<1>2. \A x \in ToSet(store) : x.sequenceId < cur.sequenceId
  BY <1>1 DEF OrderInv, BacklogOrdered, Buffered
<1>3. CASE store' # store
  <2>1. LET replaced == BacklogImage!Replaced(cur)
        IN  /\ ToSet(store') = (ToSet(store) \ replaced) \cup {cur}
            /\ cur \in ToSet(store') \ ToSet(store)
            /\ \A x \in ToSet(store) : x.sequenceId < cur.sequenceId
            /\ replaced # {} \/ Cardinality(ToSet(store)) < StoreCapacity
    <3>1. Rising(store) /\ \A i \in 1..Len(store) :
                              store[i].sequenceId < cur.sequenceId
      BY <1>1, <1>2, OrderedRises, LenProperties DEF ToSet
    <3>. QED
      BY <1>1, <1>3, <3>1, PushedAsSet
         DEF BacklogImage!Replaced, BacklogImage!SystemSource, SystemSource
  <2>2. BacklogImage!Cardinality(ToSet(store)) = Cardinality(ToSet(store))
    BY Zenon DEF BacklogImage!Cardinality, Cardinality
  <2>. QED
    BY <2>1, <2>2, Zenon DEF BacklogImage!Put, BacklogImage!Newer
<1>. QED  BY <1>3

(* flushOfflineEvents() takes the oldest event out of the set.             *)
LEMMA FlushTakes ==
    ASSUME OrderInv, FlushDropsUnserializable \/ FlushAccepted
    PROVE  \E e \in ToSet(store) : BacklogImage!Take(e)
<1>1. /\ store \in Seq(EventRecords) /\ Ordered(store)
      /\ store # <<>> /\ store' = Tail(store)
  BY DEF OrderInv, TypeOK, StoreTypeOK, BacklogOrdered, FlushAccepted,
         FlushDropsUnserializable, Pop
<1>2. /\ ToSet(store') = ToSet(store) \ {Head(store)}
      /\ Head(store) \in ToSet(store)
      /\ \A x \in ToSet(store) : Head(store).sequenceId <= x.sequenceId
  BY <1>1, OrderedRises, TailRising
<1>3. BacklogImage!Take(Head(store))
  BY <1>2 DEF BacklogImage!Take
<1>. QED  BY <1>2, <1>3

(* OfflineEventStore in the hands of this task implements the bounded set its *)
(* header describes: every step of the station is a step of Backlog, or    *)
(* leaves the set alone.                                                   *)
THEOREM StoreIsBacklog == Spec => KeepsBacklog
<1>1. Init => BacklogImage!Init
  <2>. SUFFICES ASSUME Init PROVE ToSet(store) = {}
    BY DEF BacklogImage!Init
  <2>1. store = <<>>
    BY DEF Init, StoreInit
  <2>. QED  BY <2>1, EmptySeq DEF ToSet
<1>2. ASSUME OrderInv, [Next]_vars
      PROVE  [BacklogImage!Next]_(ToSet(store))
  <2>1. CASE Buffer
    BY <1>2, <2>1, BufferPuts DEF BacklogImage!Next
  <2>2. CASE FlushDropsUnserializable \/ FlushAccepted
    BY <1>2, <2>2, FlushTakes DEF BacklogImage!Next
  <2>3. CASE store' = store
    BY <2>3
  <2>4. CASE ReceiveEvent \/ Handle \/ EnqueueAccepted \/ DiscardHeartbeat
    BY <2>3, <2>4 DEF ReceiveEvent, Handle, EnqueueAccepted, DiscardHeartbeat
  <2>5. CASE ControlStep \/ OthersStep
    BY <1>2, <2>3, <2>5, ControlStepMoves, OthersKeepTask DEF OrderInv
  <2>. QED
    BY <1>2, <2>1, <2>2, <2>4, <2>5
       DEF Next, AppTask, ControlStep, OthersStep
<1>3. OrderInv /\ [Next]_vars => [BacklogImage!Next]_(ToSet(store))
  BY <1>2
<1>. QED  BY <1>1, <1>3, OrderInvariant, PTL DEF Spec, KeepsBacklog, BacklogImage!Spec

(***************************************************************************)
(* What an outage may cost an input: nothing but superseded values.  The   *)
(* newest event of every input is somewhere, and what a backend shows after *)
(* the replay is what the station holds.                                   *)
(***************************************************************************)
(***************************************************************************)
(* Sources and values of what is in the queue                              *)
(***************************************************************************)
(* An event of an input has the type and the value that input sends.       *)
Sound(e) ==
    e.sourceId \in Inputs =>
        e.sourceId = SourceOf(e.type) /\ e.value \in ValuesOf(e.type)

SoundOK == (\A i \in 1..Len(queue) : Sound(queue[i])) /\ Sound(cur)

(* The producers send sound events: all others name no input.              *)
LEMMA ProducersSound ==
    /\ \A e \in InputEvents : Sound(e)
    /\ \A e \in Commands : Sound(e)
    /\ \A type \in LinkTypes, up \in BOOLEAN : Sound(LinkEvent(type, up))
    /\ Sound(NoEvent) /\ Sound(Heartbeat)
<1>. USE SystemIsNoInput
<1>1. \A e \in InputEvents : Sound(e)
  BY DEF InputEvents, Sound
<1>2. \A e \in Commands : Sound(e)
  BY CommandsAssumption DEF CommandEvents, Sound
<1>3. \A type \in LinkTypes, up \in BOOLEAN : Sound(LinkEvent(type, up))
  BY DEF LinkEvent, Event, Sound
<1>4. Sound(NoEvent) /\ Sound(Heartbeat)
  BY DEF NoEvent, Heartbeat, Event, Sound
<1>. QED  BY <1>1, <1>2, <1>3, <1>4

(* A send keeps the queue sound.                                           *)
LEMMA SendSound ==
    ASSUME QueueTypeOK, NEW e \in EventRecords, Sound(e),
           Send(e) \/ SendOrDrop(e),
           \A i \in 1..Len(queue) : Sound(queue[i])
    PROVE  \A i \in 1..Len(queue') : Sound(queue'[i])
<1>1. CASE queue' = queue
  BY <1>1
<1>2. CASE queue' = Append(queue, e)
  <2>1. /\ queue \in Seq(EventRecords) /\ Len(queue) \in Nat
        /\ Len(queue') = Len(queue) + 1 /\ queue'[Len(queue) + 1] = e
        /\ \A i \in 1..Len(queue) : queue'[i] = queue[i]
    BY <1>2, AppendProperties, LenProperties DEF QueueTypeOK
  <2>2. TAKE i \in 1..Len(queue')
  <2>3. i \in 1..Len(queue) \/ i = Len(queue) + 1
    BY <2>1
  <2>. QED  BY <2>1, <2>3
<1>. QED  BY <1>1, <1>2 DEF Send, SendOrDrop

(* So does every step.                                                     *)
LEMMA SoundStep ==
    ASSUME TypeOK, SoundOK, [Next]_vars
    PROVE  SoundOK'
<1>. /\ QueueTypeOK /\ MqttTypeOK /\ cur \in EventRecords
     /\ queue \in Seq(EventRecords)
     /\ \A i \in 1..Len(queue) : Sound(queue[i])
     /\ Sound(cur)
  BY DEF TypeOK, SoundOK, QueueTypeOK
<1>1. CASE ReceiveEvent
  <2>1. queue # <<>> /\ queue' = Tail(queue) /\ cur' = Head(queue)
    BY <1>1 DEF ReceiveEvent, Receive, Received
  <2>2. /\ Len(queue) \in Nat \ {0} /\ Head(queue) = queue[1]
        /\ Len(Tail(queue)) = Len(queue) - 1
        /\ \A i \in 1..Len(Tail(queue)) : Tail(queue)[i] = queue[i + 1]
    BY <2>1, HeadTailProperties, LenProperties, EmptySeq
  <2>3. Sound(cur')
    <3>1. 1 \in 1..Len(queue)
      BY <2>2
    <3>2. cur' = queue[1]
      BY <2>1, <2>2, Zenon
    <3>. QED  BY <3>1, <3>2
  <2>4. \A i \in 1..Len(queue') : Sound(queue'[i])
    <3>1. TAKE i \in 1..Len(queue')
    <3>2. Len(queue') = Len(queue) - 1
      BY <2>1, <2>2
    <3>3. i \in 1..Len(Tail(queue)) /\ i + 1 \in 1..Len(queue)
      BY <2>2, <3>2
    <3>4. queue'[i] = queue[i + 1]
      BY <2>1, <2>2, <3>3
    <3>. QED  BY <3>3, <3>4
  <2>. QED  BY <2>3, <2>4 DEF SoundOK
<1>2. CASE Handle
  <2>1. UNCHANGED queue
    BY <1>2 DEF Handle
  <2>2. Sound(cur')
    <3>1. cur' = [cur EXCEPT !.sequenceId = nextSequenceId] \/ cur' = NoEvent
      BY <1>2 DEF Handle, EventDone
    <3>2. Sound([cur EXCEPT !.sequenceId = nextSequenceId])
      BY DEF Sound, EventRecords
    <3>. QED  BY <3>1, <3>2, ProducersSound
  <2>. QED  BY <2>1, <2>2 DEF SoundOK
<1>3. CASE EnqueueAccepted \/ DiscardHeartbeat \/ Buffer
  <2>1. UNCHANGED queue /\ cur' = NoEvent
    BY <1>3 DEF EnqueueAccepted, DiscardHeartbeat, Buffer, EventDone
  <2>. QED  BY <2>1, ProducersSound DEF SoundOK
<1>4. CASE FlushDropsUnserializable \/ FlushAccepted
  <2>1. UNCHANGED <<queue, cur>>
    BY <1>4 DEF FlushDropsUnserializable, FlushAccepted
  <2>. QED  BY <2>1 DEF SoundOK
<1>5. CASE HeartbeatDue
  BY <1>5, ProducersSound DEF HeartbeatDue, SoundOK
<1>6. CASE ControlStep /\ ~HeartbeatDue
  <2>1. UNCHANGED <<queue, cur>>
    BY <1>6
       DEF ControlStep, ReceiveTimesOut, Retry, HeartbeatNotDue, DirectPossible,
           DirectImpossible, Publish, EnqueueRefused, Flush, FlushPeek,
           FlushPublish, FlushRefused
  <2>. QED  BY <2>1 DEF SoundOK
<1>7. CASE InputSends
  BY <1>7, SendSound, ProducersTyped, ProducersSound DEF InputSends, SoundOK
<1>8. CASE WifiSends
  BY <1>8, SendSound, ProducersTyped, ProducersSound
     DEF WifiSends, SoundOK, LinkTypes
<1>9. CASE MqttStep
  <2>1. \A i \in 1..Len(queue') : Sound(queue'[i])
    <3>1. CASE PublishConnectionEvent
      BY <3>1, SendSound, ProducersTyped, ProducersSound
         DEF PublishConnectionEvent, LinkTypes, MqttTypeOK
    <3>2. CASE OnCommand
      BY <3>2, SendSound, ProducersTyped, ProducersSound DEF OnCommand
    <3>3. CASE NetworkChanges \/ OnConnected \/ OnDisconnected \/ Subscribe
      BY <3>3 DEF NetworkChanges, OnConnected, OnDisconnected, Subscribe
    <3>. QED  BY <1>9, <3>1, <3>2, <3>3 DEF MqttStep, MqttTask
  <2>. QED  BY <1>9, <2>1 DEF MqttStep, SoundOK
<1>10. CASE UNCHANGED vars
  BY <1>10 DEF SoundOK
<1>. QED
  BY <1>1, <1>2, <1>3, <1>4, <1>5, <1>6, <1>7, <1>8, <1>9, <1>10
     DEF Next, AppTask, ControlStep

(* StateManager::handleEvent sets the value of the one input the event comes *)
(* from, and of no other.                                                  *)
LEMMA EventSetsItsInput ==
    ASSUME NEW s \in Inputs, station \in Stations, cur \in EventRecords,
           Sound(cur), WellSourced(cur)
    PROVE  StationValue(StateAfter(station, cur), s) =
               IF cur.sourceId = s THEN cur.value ELSE StationValue(station, s)
<1>. s \in 1..4
  BY InputsAssumption
<1>1. CASE cur.type \notin InputTypes
  <2>1. cur.sourceId # s
    BY <1>1 DEF WellSourced
  <2>. QED
    BY <1>1, <2>1 DEF StateAfter, StationValue, Stations, InputTypes, CommandTypes
<1>2. CASE cur.type \in InputTypes
  <2>1. cur.sourceId = SourceOf(cur.type) /\ cur.value \in ValuesOf(cur.type)
    BY <1>2 DEF WellSourced, Sound
  <2>2. CASE cur.type = "ButtonPressed"
    <3>1. cur.sourceId = 1 /\ cur.value = 1
      BY <2>1, <2>2 DEF SourceOf, ValuesOf
    <3>2. StateAfter(station, cur) = [station EXCEPT !.button = TRUE]
      BY <2>2 DEF StateAfter, CommandTypes
    <3>. QED  BY <3>1, <3>2 DEF StationValue, Stations
  <2>3. CASE cur.type = "ButtonReleased"
    <3>1. cur.sourceId = 1 /\ cur.value = 0
      BY <2>1, <2>3 DEF SourceOf, ValuesOf
    <3>2. StateAfter(station, cur) = [station EXCEPT !.button = FALSE]
      BY <2>3 DEF StateAfter, CommandTypes
    <3>. QED  BY <3>1, <3>2 DEF StationValue, Stations
  <2>4. CASE cur.type = "ToggleChanged"
    <3>1. cur.sourceId = 2 /\ cur.value \in {0, 1}
      BY <2>1, <2>4 DEF SourceOf, ValuesOf
    <3>2. StateAfter(station, cur) = [station EXCEPT !.toggle = cur.value # 0]
      BY <2>4 DEF StateAfter, CommandTypes
    <3>3. CASE cur.value = 0
      <4>1. StateAfter(station, cur) = [station EXCEPT !.toggle = FALSE]
        BY <3>2, <3>3
      <4>. QED  BY <3>1, <3>3, <4>1 DEF StationValue, Stations
    <3>4. CASE cur.value = 1
      <4>0. (cur.value # 0) = TRUE
        BY <3>4
      <4>1. StateAfter(station, cur) = [station EXCEPT !.toggle = TRUE]
        BY <3>2, <4>0, Zenon
      <4>. QED  BY <3>1, <3>4, <4>1 DEF StationValue, Stations
    <3>. QED  BY <3>1, <3>3, <3>4
  <2>5. CASE cur.type = "EncoderChanged"
    <3>1. cur.sourceId = 3
      BY <2>1, <2>5 DEF SourceOf, ValuesOf
    <3>2. StateAfter(station, cur) = [station EXCEPT !.encoder = cur.value]
      BY <2>5 DEF StateAfter, CommandTypes
    <3>. QED  BY <3>1, <3>2 DEF StationValue, Stations
  <2>6. CASE cur.type = "AnalogChanged"
    <3>1. cur.sourceId = 4
      BY <2>1, <2>6 DEF SourceOf, ValuesOf
    <3>2. StateAfter(station, cur) = [station EXCEPT !.analog = cur.value]
      BY <2>6 DEF StateAfter, CommandTypes
    <3>. QED  BY <3>1, <3>2 DEF StationValue, Stations
  <2>. QED  BY <1>2, <2>2, <2>3, <2>4, <2>5, <2>6 DEF InputTypes
<1>. QED  BY <1>1, <1>2

(***************************************************************************)
(* The newest event of each input                                          *)
(*                                                                         *)
(* NewestKept is kept by a step only because everything of the input that  *)
(* waits or is in hand is at least as new as what left before, and carries *)
(* what the station holds if it is the newest.                             *)
(***************************************************************************)
NumbersOK(s) ==
    /\ newest[s] < nextSequenceId /\ lost[s] < nextSequenceId
    /\ published[s].sequenceId <= lastAccepted

EntriesOK(s) ==
    \A x \in ToSet(store) : x.sourceId = s =>
        /\ lost[s] < x.sequenceId /\ x.sequenceId <= newest[s]
        /\ x.sequenceId = newest[s] => x.value = StationValue(station, s)

HandOK(s) ==
    InFlight /\ cur.sourceId = s =>
        /\ cur.sequenceId = newest[s] /\ lost[s] < newest[s]
        /\ cur.value = StationValue(station, s)

PublishedOK(s) ==
    newest[s] # 0 /\ published[s].sequenceId = newest[s] =>
        published[s].value = StationValue(station, s)

(* Where the newest event of an input is.                                  *)
Placed(s) ==
    \/ newest[s] = published[s].sequenceId
    \/ newest[s] = lost[s]
    \/ \E x \in ToSet(store) : x.sourceId = s /\ x.sequenceId = newest[s]
    \/ InFlight /\ cur.sourceId = s

Tracked(s) ==
    NumbersOK(s) /\ EntriesOK(s) /\ HandOK(s) /\ PublishedOK(s) /\ Placed(s)

NewestInv == OrderInv /\ SoundOK /\ \A s \in Inputs : Tracked(s)

(* What the cases below need of the state before the step.                 *)
LEMMA BeforeStep ==
    ASSUME NewestInv
    PROVE  /\ TypeOK /\ ControlOK /\ cur \in EventRecords /\ station \in Stations
           /\ store \in Seq(EventRecords) /\ Len(store) <= StoreCapacity
           /\ Ordered(store) /\ nextSequenceId \in Nat \ {0}
           /\ lastAccepted \in Nat /\ lastAccepted < nextSequenceId
           /\ newest \in [Inputs -> Nat] /\ lost \in [Inputs -> Nat]
           /\ published \in [Inputs -> EventRecords]
           /\ \A s \in Inputs : published[s].sequenceId \in Nat
           /\ cur.sequenceId \in Nat
           /\ WellSourced(cur) /\ Sound(cur)
           /\ InFlight => /\ cur.sequenceId = nextSequenceId - 1
                          /\ lastAccepted < cur.sequenceId
                          /\ ShouldPublish(cur)
           /\ \A x \in ToSet(store) :
                 /\ x \in EventRecords /\ x.sequenceId \in Nat
                 /\ x.sourceId \in Inputs /\ lastAccepted < x.sequenceId
                 /\ x.sequenceId < nextSequenceId
                 /\ InFlight => x.sequenceId < cur.sequenceId
<1>1. /\ TypeOK /\ ControlOK /\ cur \in EventRecords /\ station \in Stations
      /\ store \in Seq(EventRecords) /\ Len(store) <= StoreCapacity
      /\ nextSequenceId \in Nat \ {0} /\ lastAccepted \in Nat
      /\ newest \in [Inputs -> Nat] /\ lost \in [Inputs -> Nat]
      /\ published \in [Inputs -> EventRecords]
  BY DEF NewestInv, OrderInv, TypeOK, StoreTypeOK
<1>2. cur.sequenceId \in Nat /\ \A s \in Inputs : published[s].sequenceId \in Nat
  BY <1>1 DEF EventRecords
<1>3. /\ Ordered(store) /\ lastAccepted < nextSequenceId
      /\ WellSourced(cur) /\ Sound(cur)
      /\ InFlight => /\ cur.sequenceId = nextSequenceId - 1
                     /\ lastAccepted < cur.sequenceId
                     /\ ShouldPublish(cur)
  BY DEF NewestInv, OrderInv, BacklogOrdered, FlightOK, SourcesOK, SoundOK
<1>4. ASSUME NEW x \in ToSet(store)
      PROVE  /\ x \in EventRecords /\ x.sequenceId \in Nat
             /\ x.sourceId \in Inputs /\ lastAccepted < x.sequenceId
             /\ x.sequenceId < nextSequenceId
             /\ InFlight => x.sequenceId < cur.sequenceId
  <2>1. PICK i \in DOMAIN store : x = store[i]
    BY DEF ToSet
  <2>2. x \in EventRecords
    BY <1>1, <2>1, ElementOfSeq, LenProperties
  <2>3. x.sequenceId \in Nat
    BY <2>2 DEF EventRecords
  <2>4. x.sourceId \in Inputs
    BY DEF NewestInv, OrderInv, SourcesOK
  <2>5. x.sequenceId \in Buffered
    BY DEF Buffered
  <2>6. /\ lastAccepted < x.sequenceId /\ x.sequenceId < nextSequenceId
        /\ InFlight => x.sequenceId < cur.sequenceId
    BY <2>5 DEF NewestInv, OrderInv, BacklogOrdered
  <2>. QED  BY <2>2, <2>3, <2>4, <2>6
<1>. QED  BY <1>1, <1>2, <1>3, <1>4

(* processEvent() makes the event in hand the newest of its input, if it is *)
(* one to publish, and sets the station's value of that input with it.     *)
LEMMA HandleTracks ==
    ASSUME NewestInv, Handle, NEW s \in Inputs
    PROVE  Tracked(s)'
<1>. /\ Tracked(s) /\ s # SystemSource
     /\ UNCHANGED <<store, lastAccepted, published, lost>>
  BY SystemIsNoInput DEF NewestInv, Handle
<1>. USE BeforeStep
<1>1. ~InFlight /\ station' = StateAfter(station, cur)
  BY DEF Handle, InFlight, FlushLabels
<1>2. StationValue(station', s) =
          IF cur.sourceId = s THEN cur.value ELSE StationValue(station, s)
  BY <1>1, EventSetsItsInput
<1>3. CASE ShouldPublish(cur)
  <2>1. /\ nextSequenceId' = nextSequenceId + 1 /\ InFlight'
        /\ cur' = [cur EXCEPT !.sequenceId = nextSequenceId]
        /\ newest' = IF cur.sourceId \in Inputs
                     THEN [newest EXCEPT ![cur.sourceId] = nextSequenceId]
                     ELSE newest
    BY <1>3 DEF Handle, FlushIfBuffered, FlushThen, Goto, InFlight, FlushLabels
  <2>2. /\ cur'.sequenceId = nextSequenceId /\ cur'.sourceId = cur.sourceId
        /\ cur'.value = cur.value
    BY <2>1 DEF EventRecords
  <2>3. CASE cur.sourceId = s
    <3>1. newest'[s] = nextSequenceId
      BY <2>1, <2>3
    <3>2. NumbersOK(s)' /\ HandOK(s)' /\ Placed(s)'
      BY <1>2, <2>1, <2>2, <2>3, <3>1 DEF Tracked, NumbersOK, HandOK, Placed
    <3>3. EntriesOK(s)'
      BY <3>1 DEF Tracked, EntriesOK, NumbersOK
    <3>4. PublishedOK(s)'
      <4>1. published[s].sequenceId < nextSequenceId
        BY DEF Tracked, NumbersOK
      <4>. QED  BY <3>1, <4>1 DEF PublishedOK
    <3>. QED  BY <3>2, <3>3, <3>4 DEF Tracked
  <2>4. CASE cur.sourceId # s
    <3>1. newest'[s] = newest[s] /\ StationValue(station', s) = StationValue(station, s)
      BY <1>2, <2>1, <2>4
    <3>2. NumbersOK(s)'
      BY <2>1, <3>1 DEF Tracked, NumbersOK
    <3>3. EntriesOK(s)' /\ PublishedOK(s)'
      BY <3>1 DEF Tracked, EntriesOK, PublishedOK
    <3>4. HandOK(s)'
      BY <2>2, <2>4 DEF HandOK
    <3>5. Placed(s)'
      BY <1>1, <3>1 DEF Tracked, Placed
    <3>. QED  BY <3>2, <3>3, <3>4, <3>5 DEF Tracked
  <2>. QED  BY <2>3, <2>4
<1>4. CASE ~ShouldPublish(cur)
  <2>1. UNCHANGED <<nextSequenceId, newest>> /\ ~InFlight'
    BY <1>4 DEF Handle, EventDone, Goto, InFlight, FlushLabels
  <2>2. cur.sourceId # s
    BY <1>4 DEF WellSourced, ShouldPublish
  <2>3. StationValue(station', s) = StationValue(station, s)
    BY <1>2, <2>2
  <2>4. NumbersOK(s)' /\ HandOK(s)'
    BY <2>1 DEF Tracked, NumbersOK, HandOK
  <2>5. EntriesOK(s)' /\ PublishedOK(s)'
    BY <2>1, <2>3 DEF Tracked, EntriesOK, PublishedOK
  <2>6. Placed(s)'
    BY <1>1, <2>1 DEF Tracked, Placed
  <2>. QED  BY <2>4, <2>5, <2>6 DEF Tracked
<1>. QED  BY <1>3, <1>4

(* MQTT takes the event in hand.                                           *)
LEMMA EnqueueTracks ==
    ASSUME NewestInv, EnqueueAccepted, NEW s \in Inputs
    PROVE  Tracked(s)'
<1>. Tracked(s)
  BY DEF NewestInv
<1>. USE BeforeStep
<1>1. /\ InFlight /\ ~InFlight' /\ lastAccepted' = cur.sequenceId
      /\ UNCHANGED <<store, nextSequenceId, newest, station, lost>>
      /\ published' = IF cur.sourceId \in Inputs
                      THEN [published EXCEPT ![cur.sourceId] = cur]
                      ELSE published
  BY DEF EnqueueAccepted, Accepted, EventDone, Goto, InFlight, FlushLabels
<1>2. EntriesOK(s)' /\ HandOK(s)'
  BY <1>1 DEF Tracked, EntriesOK, HandOK
<1>3. CASE cur.sourceId = s
  <2>1. published'[s] = cur /\ cur.sequenceId = newest[s]
    BY <1>1, <1>3 DEF Tracked, HandOK
  <2>2. NumbersOK(s)' /\ PublishedOK(s)' /\ Placed(s)'
    BY <1>1, <1>3, <2>1
       DEF Tracked, NumbersOK, HandOK, PublishedOK, Placed
  <2>. QED  BY <1>2, <2>2 DEF Tracked
<1>4. CASE cur.sourceId # s
  <2>1. published'[s] = published[s]
    BY <1>1, <1>4
  <2>2. NumbersOK(s)'
    BY <1>1, <2>1 DEF Tracked, NumbersOK
  <2>3. PublishedOK(s)' /\ Placed(s)'
    BY <1>1, <1>4, <2>1 DEF Tracked, PublishedOK, Placed
  <2>. QED  BY <1>2, <2>2, <2>3 DEF Tracked
<1>. QED  BY <1>3, <1>4

(* A heartbeat that cannot be published is nobody's newest event.          *)
LEMMA DiscardTracks ==
    ASSUME NewestInv, DiscardHeartbeat, NEW s \in Inputs
    PROVE  Tracked(s)'
<1>. Tracked(s)
  BY DEF NewestInv
<1>. USE BeforeStep
<1>1. cur.sourceId \notin Inputs
  BY DEF DiscardHeartbeat, WellSourced, InputTypes
<1>2. /\ ~InFlight'
      /\ UNCHANGED <<store, nextSequenceId, newest, station, lost, published,
                     lastAccepted>>
  BY <1>1 DEF DiscardHeartbeat, Dropped, EventDone, Goto, InFlight, FlushLabels
<1>3. NumbersOK(s)' /\ EntriesOK(s)' /\ HandOK(s)' /\ PublishedOK(s)'
  BY <1>2 DEF Tracked, NumbersOK, EntriesOK, HandOK, PublishedOK
<1>4. Placed(s)'
  BY <1>1, <1>2 DEF Tracked, Placed
<1>. QED  BY <1>3, <1>4 DEF Tracked

(* The event in hand supersedes what waits of its input, or, in a full store *)
(* where nothing of its input waits, is lost itself.                       *)
LEMMA BufferTracks ==
    ASSUME NewestInv, Buffer, NEW s \in Inputs
    PROVE  Tracked(s)'
<1>. Tracked(s)
  BY DEF NewestInv
<1>. USE BeforeStep
<1>1. /\ InFlight /\ ~InFlight' /\ cur.type # "Heartbeat"
      /\ store' = Pushed(store, cur)
      /\ UNCHANGED <<nextSequenceId, newest, station, published, lastAccepted>>
      /\ IF PushAccepts(store, cur) THEN lost' = lost
         ELSE lost' = IF cur.sourceId \in Inputs
                      THEN [lost EXCEPT ![cur.sourceId] = cur.sequenceId]
                      ELSE lost
  BY DEF Buffer, Push, Dropped, EventDone, Goto, InFlight, FlushLabels
<1>2. cur.sourceId \in Inputs /\ cur.sourceId # SystemSource
  BY <1>1, SystemIsNoInput DEF WellSourced, ShouldPublish
<1>3. HandOK(s)' /\ PublishedOK(s)'
  BY <1>1 DEF Tracked, HandOK, PublishedOK
<1>4. CASE PushAccepts(store, cur)
  <2>1. ToSet(store') = {x \in ToSet(store) : x.sourceId # cur.sourceId} \cup {cur}
    <3>1. \A i \in 1..Len(store) : store[i].sequenceId < cur.sequenceId
      BY <1>1, LenProperties DEF ToSet
    <3>. QED  BY <1>1, <1>2, <1>4, <3>1, PushedOrdered
  <2>2. lost' = lost
    BY <1>1, <1>4
  <2>3. NumbersOK(s)'
    BY <1>1, <2>2 DEF Tracked, NumbersOK
  <2>4. EntriesOK(s)'
    <3>1. SUFFICES ASSUME NEW x \in ToSet(store'), x.sourceId = s
                   PROVE  /\ lost[s] < x.sequenceId /\ x.sequenceId <= newest[s]
                          /\ x.sequenceId = newest[s]
                                => x.value = StationValue(station, s)
      BY <1>1, <2>2 DEF EntriesOK
    <3>2. CASE x = cur
      BY <1>1, <3>1, <3>2 DEF Tracked, HandOK
    <3>3. CASE x # cur
      BY <2>1, <3>1, <3>3 DEF Tracked, EntriesOK
    <3>. QED  BY <3>2, <3>3
  <2>5. Placed(s)'
    <3>1. CASE cur.sourceId = s
      <4>1. cur \in ToSet(store') /\ cur.sequenceId = newest[s]
        BY <1>1, <2>1, <3>1 DEF Tracked, HandOK
      <4>. QED  BY <1>1, <3>1, <4>1 DEF Placed
    <3>2. CASE cur.sourceId # s
      <4>1. \A x \in ToSet(store) : x.sourceId = s => x \in ToSet(store')
        BY <2>1, <3>2
      <4>. QED  BY <1>1, <2>2, <3>2, <4>1 DEF Tracked, Placed
    <3>. QED  BY <3>1, <3>2
  <2>. QED  BY <1>3, <2>3, <2>4, <2>5 DEF Tracked
<1>5. CASE ~PushAccepts(store, cur)
  <2>1. Superseded(store, cur) = {} /\ store' = store
    BY <1>1, <1>5, PushedShape
  <2>2. lost' = [lost EXCEPT ![cur.sourceId] = cur.sequenceId]
    BY <1>1, <1>2, <1>5
  <2>3. CASE cur.sourceId = s
    <3>1. lost'[s] = cur.sequenceId /\ cur.sequenceId = newest[s]
      BY <1>1, <2>2, <2>3 DEF Tracked, HandOK
    <3>2. \A x \in ToSet(store) : x.sourceId # s
      BY <1>2, <2>1, <2>3, LenProperties DEF Superseded, ToSet
    <3>3. NumbersOK(s)' /\ EntriesOK(s)' /\ Placed(s)'
      BY <1>1, <2>1, <3>1, <3>2 DEF Tracked, NumbersOK, EntriesOK, Placed
    <3>. QED  BY <1>3, <3>3 DEF Tracked
  <2>4. CASE cur.sourceId # s
    <3>1. lost'[s] = lost[s]
      BY <2>2, <2>4
    <3>2. NumbersOK(s)' /\ EntriesOK(s)'
      BY <1>1, <2>1, <3>1 DEF Tracked, NumbersOK, EntriesOK
    <3>3. Placed(s)'
      BY <1>1, <2>1, <2>4, <3>1 DEF Tracked, Placed
    <3>. QED  BY <1>3, <3>2, <3>3 DEF Tracked
  <2>. QED  BY <2>3, <2>4
<1>. QED  BY <1>4, <1>5

(* The oldest entry leaves the store: MQTT has it, or it is given up.      *)
LEMMA FlushTracks ==
    ASSUME NewestInv, FlushDropsUnserializable \/ FlushAccepted, NEW s \in Inputs
    PROVE  Tracked(s)'
<1>. Tracked(s)
  BY DEF NewestInv
<1>. USE BeforeStep
<1> DEFINE h == Head(store)
<1>1. /\ store # <<>> /\ store' = Tail(store) /\ InFlight' = InFlight
      /\ UNCHANGED <<nextSequenceId, cur, newest, station>>
  BY DEF FlushDropsUnserializable, FlushAccepted, Pop, Goto, InFlight, FlushLabels
<1>2. /\ ToSet(store') = ToSet(store) \ {h} /\ h \in ToSet(store)
      /\ \A x \in ToSet(store) : x # h => h.sequenceId < x.sequenceId
  BY <1>1, TailOrdered
<1>3. /\ h.sourceId \in Inputs /\ h.sequenceId \in Nat /\ h \in EventRecords
      /\ lastAccepted < h.sequenceId /\ h.sequenceId < nextSequenceId
      /\ InFlight => h.sequenceId < cur.sequenceId
  BY <1>2
<1>4. \/ /\ lastAccepted' = h.sequenceId /\ lost' = lost
         /\ published' = [published EXCEPT ![h.sourceId] = h]
      \/ /\ lost' = [lost EXCEPT ![h.sourceId] = h.sequenceId]
         /\ UNCHANGED <<lastAccepted, published>>
  BY <1>3 DEF FlushDropsUnserializable, FlushAccepted, Accepted, Dropped, Peeked
<1>. HIDE DEF h
<1>5. CASE h.sourceId = s
  <2>1. /\ lost[s] < h.sequenceId /\ h.sequenceId <= newest[s]
        /\ h.sequenceId = newest[s] => h.value = StationValue(station, s)
    BY <1>2, <1>5 DEF Tracked, EntriesOK
  <2>2. published[s].sequenceId <= lastAccepted /\ newest[s] < nextSequenceId
    BY DEF Tracked, NumbersOK
  <2>3. \A x \in ToSet(store') : h.sequenceId < x.sequenceId
    BY <1>2
  <2>4. newest[s] # published[s].sequenceId /\ newest[s] # lost[s]
    BY <1>3, <2>1, <2>2
  <2>5. CASE published'[s] = h /\ lost' = lost /\ lastAccepted' = h.sequenceId
    <3>1. NumbersOK(s)' /\ PublishedOK(s)'
      BY <1>1, <1>3, <2>1, <2>2, <2>5 DEF Tracked, NumbersOK, PublishedOK
    <3>2. EntriesOK(s)' /\ HandOK(s)'
      BY <1>1, <1>2, <2>5 DEF Tracked, EntriesOK, HandOK
    <3>3. Placed(s)'
      BY <1>1, <1>2, <2>4, <2>5 DEF Tracked, Placed
    <3>. QED  BY <3>1, <3>2, <3>3 DEF Tracked
  <2>6. CASE lost'[s] = h.sequenceId /\ UNCHANGED <<lastAccepted, published>>
    <3>1. NumbersOK(s)' /\ PublishedOK(s)'
      BY <1>1, <1>3, <2>6 DEF Tracked, NumbersOK, PublishedOK
    <3>2. EntriesOK(s)'
      BY <1>1, <1>2, <2>3, <2>6 DEF Tracked, EntriesOK
    <3>3. HandOK(s)'
      BY <1>1, <1>3, <2>6 DEF Tracked, HandOK
    <3>4. Placed(s)'
      BY <1>1, <1>2, <2>4, <2>6 DEF Tracked, Placed
    <3>. QED  BY <3>1, <3>2, <3>3, <3>4 DEF Tracked
  <2>. QED  BY <1>4, <1>5, <2>5, <2>6
<1>6. CASE h.sourceId # s
  <2>1. /\ lost'[s] = lost[s] /\ published'[s] = published[s]
        /\ lastAccepted <= lastAccepted'
    BY <1>3, <1>4, <1>6
  <2>2. NumbersOK(s)'
    <3>1. lastAccepted' \in Nat
      BY <1>3, <1>4
    <3>. QED  BY <1>1, <2>1, <3>1 DEF Tracked, NumbersOK
  <2>3. EntriesOK(s)' /\ HandOK(s)' /\ PublishedOK(s)'
    BY <1>1, <1>2, <2>1 DEF Tracked, EntriesOK, HandOK, PublishedOK
  <2>4. Placed(s)'
    BY <1>1, <1>2, <1>6, <2>1 DEF Tracked, Placed
  <2>. QED  BY <2>2, <2>3, <2>4 DEF Tracked
<1>. QED  BY <1>5, <1>6

(* The newest event of every input keeps its place in every step.          *)
LEMMA TrackedStep ==
    ASSUME NewestInv, [Next]_vars, NEW s \in Inputs
    PROVE  Tracked(s)'
<1>. Tracked(s) /\ TypeOK
  BY BeforeStep DEF NewestInv
<1>1. CASE ReceiveEvent
  <2>1. UNCHANGED <<store, nextSequenceId, newest, station, historyVars>>
    BY <1>1 DEF ReceiveEvent
  <2>2. ~InFlight /\ ~InFlight'
    BY <1>1 DEF ReceiveEvent, Goto, FlushThen, InFlight, FlushLabels
  <2>. QED
    BY <2>1, <2>2
       DEF Tracked, NumbersOK, EntriesOK, HandOK, PublishedOK, Placed
<1>2. CASE ControlStep
  <2>1. /\ InFlight' = InFlight
        /\ UNCHANGED <<store, nextSequenceId, newest, station, historyVars>>
    BY <1>2, ControlStepMoves, ControlStepKeepsFlight
  <2>2. InFlight' => cur' = cur
    BY <1>2, <2>1
       DEF ControlStep, ReceiveTimesOut, Retry, HeartbeatDue, HeartbeatNotDue,
           DirectPossible, DirectImpossible, Publish, EnqueueRefused, Flush,
           FlushPeek, FlushPublish, FlushRefused, InFlight, Goto, FlushLabels
  <2>. QED
    BY <2>1, <2>2
       DEF Tracked, NumbersOK, EntriesOK, HandOK, PublishedOK, Placed
<1>3. CASE OthersStep
  <2>1. /\ InFlight' = InFlight
        /\ UNCHANGED <<store, nextSequenceId, newest, station, historyVars, cur>>
    BY <1>3, OthersKeepTask DEF InFlight
  <2>. QED
    BY <2>1 DEF Tracked, NumbersOK, EntriesOK, HandOK, PublishedOK, Placed
<1>. QED
  BY <1>1, <1>2, <1>3, HandleTracks, EnqueueTracks, DiscardTracks, BufferTracks,
     FlushTracks
     DEF Next, AppTask, ControlStep, OthersStep

(* NewestInv is inductive.                                                 *)
LEMMA NewestInvariant == Spec => []NewestInv
<1>1. Init => SoundOK /\ \A s \in Inputs : Tracked(s)
  <2>. SUFFICES ASSUME Init PROVE SoundOK /\ \A s \in Inputs : Tracked(s)
    OBVIOUS
  <2>1. /\ store = <<>> /\ queue = <<>> /\ cur = NoEvent /\ ~InFlight
        /\ lastAccepted = 0 /\ nextSequenceId = 1
    BY DEF Init, StoreInit, QueueInit, InFlight, FlushLabels
  <2>2. Len(queue) = 0 /\ ToSet(store) = {} /\ NoEvent.sequenceId = 0
    BY <2>1, EmptySeq DEF ToSet, NoEvent, Event
  <2>3. SoundOK
    BY <2>1, <2>2, ProducersSound DEF SoundOK
  <2>4. ASSUME NEW s \in Inputs PROVE Tracked(s)
    <3>1. newest[s] = 0 /\ lost[s] = 0 /\ published[s] = NoEvent
      BY DEF Init
    <3>. QED
      BY <2>1, <2>2, <3>1
         DEF Tracked, NumbersOK, EntriesOK, HandOK, PublishedOK, Placed
  <2>. QED  BY <2>3, <2>4
<1>2. ASSUME OrderInv, OrderInv', [Next]_vars,
             SoundOK /\ \A s \in Inputs : Tracked(s)
      PROVE  (SoundOK /\ \A s \in Inputs : Tracked(s))'
  <2>1. NewestInv /\ TypeOK
    BY <1>2 DEF NewestInv, OrderInv
  <2>. QED  BY <1>2, <2>1, SoundStep, TrackedStep
<1>3. (OrderInv /\ SoundOK /\ \A s \in Inputs : Tracked(s)) => NewestInv
  BY DEF NewestInv
<1>. QED  BY <1>1, <1>2, <1>3, OrderInvariant, PTL DEF Spec

(* Application and OfflineEventStore: the newest event of an input is never *)
(* forgotten, whatever the outage, the capacity and the refusals.          *)
THEOREM NewestNeverForgotten == Spec => []NewestKept
<1>1. NewestInv => NewestKept
  <2>. SUFFICES ASSUME NewestInv, NEW s \in Inputs
                PROVE  \/ newest[s] \in {published[s].sequenceId, lost[s]}
                                          \cup Buffered
                       \/ InFlight /\ newest[s] = cur.sequenceId
    BY DEF NewestKept
  <2>. Placed(s) /\ HandOK(s)
    BY DEF NewestInv, Tracked
  <2>. QED  BY DEF Placed, HandOK, Buffered
<1>. QED  BY <1>1, NewestInvariant, PTL

(* The purpose of the offline store (OfflineEventStore.hpp): when the replay *)
(* is over, a backend that applied each accepted event shows what the station *)
(* holds, for every input whose newest event could be sent.                *)
THEOREM ReplayIsCurrent == Spec => []ReplayEndsAtCurrentValue
<1>1. NewestInv => ReplayEndsAtCurrentValue
  <2>. SUFFICES ASSUME NewestInv, ~InFlight, store = <<>>, NEW s \in Inputs
                PROVE  Shows(s)
    BY DEF ReplayEndsAtCurrentValue
  <2>1. ToSet(store) = {}
    BY EmptySeq DEF ToSet
  <2>2. Placed(s) /\ PublishedOK(s)
    BY DEF NewestInv, Tracked
  <2>. QED  BY <2>1, <2>2 DEF Placed, PublishedOK, Shows
<1>. QED  BY <1>1, NewestInvariant, PTL

=============================================================================
