---------------------------- MODULE SystemProofs ----------------------------
(***************************************************************************)
(* For any inputs, values, store, outbox and transit: what the workstation *)
(* and the station's lamp show once nothing is on its way any more.  First *)
(* of the messages alone (Middleware), then from the inputs of the world   *)
(* to the workstation and back to the lamp (System).                       *)
(***************************************************************************)
EXTENDS System, EventSequences, FiniteSetTheorems

USE DEF vars, stationVars, commandVars,
        endVars, positionVars, driverVars, systemVars

(***************************************************************************)
(* The protocol's ranges                                                   *)
(***************************************************************************)
Workstations ==
    [button : {0, 1}, task : {0, 1}, target : Values, progress : Values,
     desired : {0, 1}, fault : Values]

LEMMA EventRanges ==
    ASSUME NEW e \in StationEvents
    PROVE  /\ e.sourceId \in Inputs \cup {SystemSource} /\ e.value \in Values
           /\ e.type \in {"ButtonPressed", "ButtonReleased"}
                 => e.sourceId = 1 /\ e.value \in {0, 1}
           /\ e.type = "ToggleChanged" => e.sourceId = 2 /\ e.value \in {0, 1}
           /\ e.type = "EncoderChanged" => e.sourceId = 3
           /\ e.type = "AnalogChanged" => e.sourceId = 4
           /\ e.sourceId # SystemSource => e.type \in InputTypes
  <1>1. CASE e \in InputEvents
    <2>1. /\ e.type \in InputTypes /\ e.sourceId \in Inputs
          /\ e.value \in Values /\ e.sourceId = SourceOf(e.type)
          /\ e.value \in ValuesOf(e.type)
      BY <1>1 DEF InputEvents
    <2> QED
      BY <2>1 DEF InputTypes, SourceOf, ValuesOf
  <1>2. CASE e \in {[Heartbeat EXCEPT !.type = t] : t \in SystemEvents}
    <2>1. /\ e.type \in SystemEvents /\ e.sourceId = SystemSource
          /\ e.value = 0
      BY <1>2 DEF Heartbeat, Event
    <2> QED
      BY <2>1, SystemEventsAssumption DEF Values
  <1> QED
    BY <1>1, <1>2 DEF StationEvents

LEMMA WorkstationRanges ==
    ASSUME NEW w \in Workstations, NEW e \in StationEvents
    PROVE  /\ WorkstationAfter(w, e) \in Workstations
           /\ ~Answered(e) => WorkstationAfter(w, e).desired = w.desired
  BY EventRanges DEF WorkstationAfter, Workstations, Answered

(* An event sets the field of its own input, and no other's.               *)
LEMMA FieldOfInput ==
    ASSUME NEW e \in StationEvents, NEW s \in Inputs,
           workstation \in Workstations,
           workstation' = WorkstationAfter(workstation, e)
    PROVE  WorkstationValue(s)' = IF e.sourceId = s THEN e.value
                                  ELSE WorkstationValue(s)
  <1>1. s \in 1..4
    BY InputsAssumption
  <1>2. CASE e.type \in {"ButtonPressed", "ButtonReleased"}
    <2>1. workstation' = [workstation EXCEPT !.button = e.value]
      BY <1>2 DEF WorkstationAfter
    <2> QED
      BY <1>1, <1>2, <2>1, EventRanges DEF WorkstationValue, Workstations
  <1>3. CASE e.type = "ToggleChanged"
    <2>1. workstation' =
             [workstation EXCEPT !.task = e.value, !.desired = e.value]
      BY <1>3 DEF WorkstationAfter
    <2> QED
      BY <1>1, <1>3, <2>1, EventRanges DEF WorkstationValue, Workstations
  <1>4. CASE e.type = "EncoderChanged"
    <2>1. workstation' = [workstation EXCEPT !.target = e.value]
      BY <1>4 DEF WorkstationAfter
    <2> QED
      BY <1>1, <1>4, <2>1, EventRanges DEF WorkstationValue, Workstations
  <1>5. CASE e.type = "AnalogChanged"
    <2>1. workstation' = [workstation EXCEPT !.progress = e.value]
      BY <1>5 DEF WorkstationAfter
    <2> QED
      BY <1>1, <1>5, <2>1, EventRanges DEF WorkstationValue, Workstations
  <1>6. CASE e.type \notin InputTypes
    <2>1. \/ workstation' = workstation
          \/ workstation' = [workstation EXCEPT !.fault = e.value]
      BY <1>6 DEF WorkstationAfter, InputTypes
    <2>2. e.sourceId # s
      BY <1>1, <1>6, EventRanges DEF SystemSource
    <2> QED
      BY <1>1, <2>1, <2>2 DEF WorkstationValue, Workstations
  <1> QED
    BY <1>2, <1>3, <1>4, <1>5, <1>6 DEF InputTypes

(***************************************************************************)
(* Types                                                                   *)
(***************************************************************************)
MessageTypes ==
    /\ outbox \in Seq(StationEvents) /\ Len(outbox) <= MaxOutbox
    /\ sent \in 0..Len(outbox)
    /\ uplink \in Seq(StationEvents) /\ Len(uplink) <= MaxTransit

CommandsTyped ==
    /\ workstation \in Workstations
    /\ downlink \in Seq({0, 1}) /\ Len(downlink) <= MaxTransit
    /\ output \in {0, 1} /\ lastCommand \in {"kept", "missed", "forgotten"}

LEMMA MessageInit == ASSUME Init PROVE MessageTypes
  <1>1. outbox = << >> /\ uplink = << >> /\ sent = 0
    BY DEF Init
  <1>2. 0 <= MaxOutbox /\ 0 <= MaxTransit
    BY MaxOutboxAssumption, MaxTransitAssumption
  <1> QED
    BY <1>1, <1>2, EmptyMessages DEF MessageTypes

LEMMA MessageStep ==
    ASSUME MessageTypes, [Next]_vars
    PROVE  MessageTypes'
  <1> USE MaxOutboxAssumption, MaxTransitAssumption
  <1>1. ASSUME NEW e \in StationEvents, StationPublishes(e)
        PROVE  MessageTypes'
    <2>1. /\ outbox' = Append(outbox, e) /\ Len(outbox) < MaxOutbox
          /\ sent' = sent /\ uplink' = uplink
      BY <1>1 DEF StationPublishes
    <2> QED
      BY <2>1, AppendFacts DEF MessageTypes
  <1>2. CASE Transmit
    <2>1. /\ uplink' = Append(uplink, outbox[sent + 1])
          /\ Len(uplink) < MaxTransit /\ sent < Len(outbox)
          /\ sent' = sent + 1 /\ outbox' = outbox
      BY <1>2 DEF Transmit
    <2>2. outbox[sent + 1] \in StationEvents
      BY <2>1, ElementOfSeq DEF MessageTypes
    <2> QED
      BY <2>1, <2>2, AppendFacts DEF MessageTypes
  <1>3. CASE BrokerAcknowledges
    <2>1. outbox' = Tail(outbox) /\ sent' = sent - 1 /\ sent > 0
          /\ uplink' = uplink
      BY <1>3 DEF BrokerAcknowledges
    <2>2. outbox # <<>>
      BY <2>1 DEF MessageTypes
    <2> QED
      BY <2>1, <2>2, TailFacts DEF MessageTypes
  <1>4. CASE OutboxExpires
    <2>1. PICK k \in 1..Len(outbox) :
             /\ outbox' = RemoveAt(outbox, k) /\ uplink' = uplink
             /\ sent' = IF k <= sent THEN sent - 1 ELSE sent
      BY <1>4 DEF OutboxExpires
    <2>2. outbox' \in Seq(StationEvents) /\ Len(outbox') = Len(outbox) - 1
          /\ Len(outbox) \in Nat
      BY <2>1, RemoveFacts DEF MessageTypes
    <2>3. sent' \in 0..Len(outbox') /\ Len(outbox') <= MaxOutbox
      BY <2>1, <2>2 DEF MessageTypes
    <2> QED
      BY <2>1, <2>2, <2>3 DEF MessageTypes
  <1>5. CASE BackendAway \/ HandleMessage
    <2>1. /\ uplink # <<>> /\ uplink' = Tail(uplink)
          /\ outbox' = outbox /\ sent' = sent
      BY <1>5 DEF BackendAway, HandleMessage
    <2>2. uplink' \in Seq(StationEvents) /\ Len(uplink') = Len(uplink) - 1
          /\ Len(uplink) \in Nat
      BY <2>1, TailFacts DEF MessageTypes
    <2>3. Len(uplink') <= MaxTransit
      BY <2>2 DEF MessageTypes
    <2> QED
      BY <2>1, <2>2, <2>3 DEF MessageTypes
  <1>6. CASE StationRestarts
    <2>1. outbox' = << >> /\ sent' = 0 /\ uplink' = uplink
      BY <1>6 DEF StationRestarts
    <2> QED
      BY <2>1, EmptyMessages DEF MessageTypes
  <1>7. CASE BackendRestarts
    <2>1. uplink' = << >> /\ outbox' = outbox /\ sent' = sent
      BY <1>7 DEF BackendRestarts
    <2> QED
      BY <2>1, EmptyMessages DEF MessageTypes
  <1>8. CASE StationReconnects
    BY <1>8 DEF StationReconnects, MessageTypes
  <1>9. CASE \/ SetRemoteState \/ StationObeys \/ StationAway
             \/ UNCHANGED vars
    <2>1. UNCHANGED <<outbox, sent, uplink>>
      BY <1>9 DEF SetRemoteState, StationObeys, StationAway
    <2> QED
      BY <2>1 DEF MessageTypes
  <1> QED
    BY <1>1, <1>2, <1>3, <1>4, <1>5, <1>6, <1>7, <1>8, <1>9 DEF Next

LEMMA CommandAppended ==
    ASSUME CommandsTyped, NEW v \in {0, 1}, PublishCommand(v)
    PROVE  /\ downlink' \in Seq({0, 1}) /\ Len(downlink') <= MaxTransit
           /\ output' \in {0, 1}
           /\ lastCommand' \in {"kept", "missed", "forgotten"}
           /\ lastCommand' = "kept" => downlink' # <<>>
                                       /\ downlink'[Len(downlink')] = v
  <1> USE MaxTransitAssumption
  <1>1. CASE /\ Len(downlink) < MaxTransit
             /\ downlink' = Append(downlink, v)
             /\ lastCommand' = "kept" /\ UNCHANGED output
    <2>1. /\ Append(downlink, v) \in Seq({0, 1})
          /\ Len(Append(downlink, v)) = Len(downlink) + 1
          /\ Len(downlink) \in Nat
          /\ Append(downlink, v)[Len(downlink) + 1] = v
      BY AppendFacts DEF CommandsTyped
    <2>2. Append(downlink, v) # <<>>
      BY <2>1, EmptyMessages
    <2> QED
      BY <1>1, <2>1, <2>2 DEF CommandsTyped
  <1>2. CASE lastCommand' = "missed" /\ UNCHANGED <<downlink, output>>
    BY <1>2 DEF CommandsTyped
  <1> QED
    BY <1>1, <1>2 DEF PublishCommand

LEMMA CommandRemoved ==
    ASSUME CommandsTyped, downlink # <<>>
    PROVE  /\ Head(downlink) \in {0, 1} /\ Head(downlink) = downlink[1]
           /\ Tail(downlink) \in Seq({0, 1})
           /\ Len(Tail(downlink)) <= MaxTransit /\ Len(downlink) \in Nat \ {0}
           /\ Tail(downlink) = <<>> <=> Len(downlink) = 1
           /\ Tail(downlink) # <<>>
                 => Tail(downlink)[Len(Tail(downlink))]
                       = downlink[Len(downlink)]
  <1>1. /\ Tail(downlink) \in Seq({0, 1}) /\ Head(downlink) \in {0, 1}
        /\ Head(downlink) = downlink[1]
        /\ Len(Tail(downlink)) = Len(downlink) - 1
        /\ Len(downlink) \in Nat \ {0}
        /\ \A i \in 1..(Len(downlink) - 1) :
              Tail(downlink)[i] = downlink[i + 1]
    BY TailFacts DEF CommandsTyped
  <1>2. Len(Tail(downlink)) <= MaxTransit
    BY <1>1, MaxTransitAssumption DEF CommandsTyped
  <1>3. Tail(downlink) = <<>> <=> Len(downlink) = 1
    <2>1. Tail(downlink) = <<>> <=> Len(Tail(downlink)) = 0
      BY <1>1, EmptySeq
    <2> QED
      BY <1>1, <2>1
  <1>4. ASSUME Tail(downlink) # <<>>
        PROVE  Tail(downlink)[Len(Tail(downlink))] = downlink[Len(downlink)]
    <2>1. Len(downlink) - 1 \in 1..(Len(downlink) - 1)
             /\ (Len(downlink) - 1) + 1 = Len(downlink)
      BY <1>1, <1>3, <1>4
    <2>2. Tail(downlink)[Len(downlink) - 1] = downlink[Len(downlink)]
      BY <1>1, <2>1
    <2> QED
      BY <1>1, <2>2
  <1> QED
    BY <1>1, <1>2, <1>3, <1>4

(***************************************************************************)
(* The lamp                                                                *)
(***************************************************************************)
(* The last command that has not been obeyed says what is wanted.          *)
LampInv ==
    lastCommand = "kept" =>
        /\ downlink # <<>> => downlink[Len(downlink)] = workstation.desired
        /\ downlink = <<>> => output = workstation.desired

LEMMA HandlingTellsStation ==
    ASSUME MessageTypes, CommandsTyped, LampInv, HandleMessage
    PROVE  CommandsTyped' /\ LampInv'
  <1> DEFINE e == Head(uplink)
  <1>1. e \in StationEvents
    BY TailFacts DEF HandleMessage, MessageTypes
  <1>2. workstation' = WorkstationAfter(workstation, e)
    BY DEF HandleMessage
  <1>3. /\ workstation' \in Workstations
        /\ ~Answered(e) => workstation'.desired = workstation.desired
    BY <1>1, <1>2, WorkstationRanges DEF CommandsTyped
  <1>4. CASE Answered(e)
    <2>1. PublishCommand(workstation'.desired)
      BY <1>4 DEF HandleMessage
    <2>2. workstation'.desired \in {0, 1}
      BY <1>3 DEF Workstations
    <2> QED
      BY <1>3, <2>1, <2>2, CommandAppended DEF CommandsTyped, LampInv
  <1>5. CASE ~Answered(e)
    <2>1. UNCHANGED <<downlink, output, lastCommand>>
      BY <1>5 DEF HandleMessage
    <2> QED
      BY <1>3, <1>5, <2>1 DEF CommandsTyped, LampInv
  <1> QED
    BY <1>4, <1>5

LEMMA LampInit == ASSUME Init PROVE CommandsTyped /\ LampInv
  <1>1. NewWorkstation \in Workstations /\ NewWorkstation.desired = 0
    BY DEF NewWorkstation, Workstations, Values
  <1>2. /\ workstation = NewWorkstation /\ downlink = << >> /\ output = 0
        /\ lastCommand = "kept"
    BY DEF Init
  <1> QED
    BY <1>1, <1>2, EmptyMessages, MaxTransitAssumption
       DEF CommandsTyped, LampInv

LEMMA LampStep ==
    ASSUME MessageTypes, CommandsTyped, LampInv, [Next]_vars
    PROVE  CommandsTyped' /\ LampInv'
  <1>1. CASE HandleMessage
    BY <1>1, HandlingTellsStation
  <1>2. CASE SetRemoteState
    <2>1. PICK on \in {0, 1} :
             /\ workstation' = [workstation EXCEPT !.desired = on]
             /\ PublishCommand(on)
      BY <1>2 DEF SetRemoteState
    <2>2. workstation' \in Workstations /\ workstation'.desired = on
      BY <2>1 DEF CommandsTyped, Workstations
    <2> QED
      BY <2>1, <2>2, CommandAppended DEF CommandsTyped, LampInv
  <1>3. CASE StationObeys
    <2>1. /\ downlink # <<>> /\ output' = Head(downlink)
          /\ downlink' = downlink \/ downlink' = Tail(downlink)
          /\ workstation' = workstation /\ lastCommand' = lastCommand
      BY <1>3 DEF StationObeys
    <2>2. /\ Head(downlink) \in {0, 1} /\ Head(downlink) = downlink[1]
          /\ Tail(downlink) \in Seq({0, 1})
          /\ Len(Tail(downlink)) <= MaxTransit
          /\ Tail(downlink) = <<>> <=> Len(downlink) = 1
          /\ Tail(downlink) # <<>>
                => Tail(downlink)[Len(Tail(downlink))] = downlink[Len(downlink)]
      BY <2>1, CommandRemoved
    <2>3. CommandsTyped'
      BY <2>1, <2>2 DEF CommandsTyped
    <2>4. LampInv'
      <3>1. CASE downlink' = downlink
        BY <2>1, <3>1 DEF LampInv
      <3>2. CASE downlink' = Tail(downlink)
        BY <2>1, <2>2, <3>2 DEF LampInv
      <3> QED
        BY <2>1, <3>1, <3>2
    <2> QED
      BY <2>3, <2>4
  <1>4. CASE StationAway
    <2>1. /\ downlink # <<>> /\ downlink' = Tail(downlink)
          /\ workstation' = workstation /\ output' = output
          /\ lastCommand' = IF Len(downlink) = 1 THEN "missed" ELSE lastCommand
      BY <1>4 DEF StationAway
    <2> QED
      BY <2>1, CommandRemoved DEF CommandsTyped, LampInv
  <1>5. CASE StationRestarts
    <2>1. /\ output' = 0 /\ lastCommand' = "forgotten"
          /\ downlink' = downlink /\ workstation' = workstation
      BY <1>5 DEF StationRestarts
    <2> QED
      BY <2>1 DEF CommandsTyped, LampInv
  <1>6. CASE BackendRestarts
    <2>1. /\ workstation' = NewWorkstation /\ lastCommand' = "forgotten"
          /\ downlink' = downlink /\ output' = output
      BY <1>6 DEF BackendRestarts
    <2>2. NewWorkstation \in Workstations
      BY DEF NewWorkstation, Workstations, Values
    <2> QED
      BY <2>1, <2>2 DEF CommandsTyped, LampInv
  <1>7. CASE \/ \E e \in StationEvents : StationPublishes(e)
             \/ Transmit \/ BrokerAcknowledges \/ StationReconnects
             \/ OutboxExpires \/ BackendAway \/ UNCHANGED vars
    <2>1. UNCHANGED <<workstation, downlink, output, lastCommand>>
      BY <1>7 DEF StationPublishes, Transmit, BrokerAcknowledges,
                  StationReconnects, OutboxExpires, BackendAway
    <2> QED
      BY <2>1 DEF CommandsTyped, LampInv
  <1> QED
    BY <1>1, <1>2, <1>3, <1>4, <1>5, <1>6, <1>7 DEF Next

LEMMA LampInvariant == Spec => [](MessageTypes /\ CommandsTyped /\ LampInv)
  <1>1. Init => MessageTypes /\ CommandsTyped /\ LampInv
    BY MessageInit, LampInit
  <1>2. MessageTypes /\ CommandsTyped /\ LampInv /\ [Next]_vars
           => (MessageTypes /\ CommandsTyped /\ LampInv)'
    BY MessageStep, LampStep
  <1> QED
    BY <1>1, <1>2, PTL DEF Spec

(* Outbox, transit, workstation and output keep to the protocol's ranges.  *)
THEOREM MiddlewareTypes == Spec => []TypeOK
  <1>1. MessageTypes /\ CommandsTyped => TypeOK
    BY DEF MessageTypes, CommandsTyped, Messages, Workstations, TypeOK
  <1> QED
    BY <1>1, LampInvariant, PTL

(* handle_message() and set_remote_state(): the lamp ends up as the last   *)
(* command wants it, if that one was neither refused nor undone.           *)
THEOREM LampObeys == Spec => []OutputFollows
  <1>1. LampInv => OutputFollows
    BY DEF LampInv, OutputFollows
  <1> QED
    BY <1>1, LampInvariant, PTL

(***************************************************************************)
(* The workstation                                                         *)
(***************************************************************************)
(* Nothing in the outbox that this connection has yet to send is of s.     *)
AllSent(s) == \A i \in 1..Len(outbox) : i > sent => outbox[i].sourceId # s

(* The last message about s says what s is now, wherever it is: in the     *)
(* outbox, which may be sent once more, on its way, or in the workstation. *)
Tells(s) ==
    /\ LastSays(outbox, s, current[s])
    /\ AllSent(s) => /\ LastSays(uplink, s, current[s])
                     /\ Absent(uplink, s) => WorkstationValue(s) = current[s]

ViewInv == \A s \in Inputs : ~eventMissed[s] => Tells(s)

LEMMA ViewInit == ASSUME Init PROVE ViewInv
  <1>1. ASSUME NEW s \in Inputs
        PROVE  Tells(s)
    <2>1. s \in 1..4
      BY InputsAssumption
    <2>2. WorkstationValue(s) = 0 /\ current[s] = 0
      BY <1>1, <2>1 DEF Init, WorkstationValue, NewWorkstation
    <2>3. outbox = << >> /\ uplink = << >>
      BY DEF Init
    <2> QED
      BY <2>2, <2>3, NothingSays DEF Tells
  <1> QED
    BY <1>1 DEF ViewInv

(* What this connection has yet to send of an input: more with each event  *)
(* published, and what goes without being sent is missed.                  *)
LEMMA PublishedIsUnsent ==
    ASSUME MessageTypes, NEW e \in StationEvents, StationPublishes(e), NEW s
    PROVE  (e.sourceId = s => ~AllSent(s)') /\ (AllSent(s)' => AllSent(s))
  <1>1. outbox' = Append(outbox, e) /\ sent' = sent
    BY DEF StationPublishes
  <1>2. /\ outbox' \in Seq(StationEvents) /\ Len(outbox') = Len(outbox) + 1
        /\ Len(outbox) \in Nat /\ outbox'[Len(outbox) + 1] = e
        /\ \A i \in 1..Len(outbox) : outbox'[i] = outbox[i]
        /\ sent \in 0..Len(outbox)
    BY <1>1, AppendFacts DEF MessageTypes
  <1>3. ASSUME e.sourceId = s
        PROVE  ~AllSent(s)'
    <2>1. /\ Len(outbox) + 1 \in 1..Len(outbox') /\ Len(outbox) + 1 > sent'
          /\ outbox'[Len(outbox) + 1].sourceId = s
      BY <1>1, <1>2, <1>3
    <2> QED
      BY <2>1 DEF AllSent
  <1>4. AllSent(s)' => AllSent(s)
    BY <1>1, <1>2 DEF AllSent
  <1> QED
    BY <1>3, <1>4

LEMMA AcknowledgedWasSent ==
    ASSUME MessageTypes, BrokerAcknowledges, NEW s, AllSent(s)'
    PROVE  AllSent(s)
  <1>1. outbox' = Tail(outbox) /\ sent' = sent - 1 /\ sent > 0
    BY DEF BrokerAcknowledges
  <1>2. outbox # <<>> /\ outbox \in Seq(StationEvents)
    BY <1>1 DEF MessageTypes
  <1>3. /\ Len(outbox') = Len(outbox) - 1 /\ Len(outbox) \in Nat \ {0}
        /\ \A i \in 1..(Len(outbox) - 1) : outbox'[i] = outbox[i + 1]
        /\ sent \in 1..Len(outbox)
    BY <1>1, <1>2, TailFacts DEF MessageTypes
  <1>4. ASSUME NEW i \in 1..Len(outbox), i > sent
        PROVE  outbox[i].sourceId # s
    <2>1. i - 1 \in 1..(Len(outbox) - 1) /\ i - 1 > sent - 1 /\ (i - 1) + 1 = i
      BY <1>3, <1>4
    <2>2. outbox'[i - 1] = outbox[i] /\ i - 1 \in 1..Len(outbox')
      BY <1>3, <2>1
    <2> QED
      BY <1>1, <2>1, <2>2 DEF AllSent
  <1> QED
    BY <1>4 DEF AllSent

LEMMA ExpiredOrUnsent ==
    ASSUME MessageTypes, OutboxExpires, NEW s \in Inputs, ~eventMissed'[s],
           AllSent(s)'
    PROVE  AllSent(s)
  <1>1. PICK k \in 1..Len(outbox) :
           /\ outbox' = RemoveAt(outbox, k)
           /\ sent' = IF k <= sent THEN sent - 1 ELSE sent
           /\ eventMissed' = Marked(eventMissed, outbox[k])
    BY DEF OutboxExpires
  <1>2. /\ Len(outbox') = Len(outbox) - 1 /\ Len(outbox) \in Nat
        /\ \A i \in 1..(Len(outbox) - 1) :
              outbox'[i] = IF i < k THEN outbox[i] ELSE outbox[i + 1]
        /\ outbox \in Seq(StationEvents) /\ sent \in 0..Len(outbox)
    BY <1>1, RemoveFacts DEF MessageTypes
  <1>3. outbox[k].sourceId # s
    <2>1. eventMissed'[s] = (eventMissed[s] \/ s = outbox[k].sourceId)
      BY <1>1 DEF Marked
    <2> QED
      BY <2>1, Zenon
  <1>4. ASSUME NEW i \in 1..Len(outbox), i > sent
        PROVE  outbox[i].sourceId # s
    <2>1. CASE i = k
      BY <1>3, <2>1
    <2>2. CASE i < k
      <3>1. i \in 1..Len(outbox') /\ i > sent' /\ outbox'[i] = outbox[i]
        BY <1>1, <1>2, <1>4, <2>2
      <3> QED
        BY <3>1 DEF AllSent
    <2>3. CASE i > k
      <3>1. /\ i - 1 \in 1..(Len(outbox) - 1) /\ i - 1 > sent'
            /\ ~(i - 1 < k) /\ (i - 1) + 1 = i
        BY <1>1, <1>2, <1>4, <2>3
      <3>2. outbox'[i - 1] = outbox[i] /\ i - 1 \in 1..Len(outbox')
        BY <1>2, <3>1
      <3> QED
        BY <3>1, <3>2 DEF AllSent
    <2> QED
      BY <2>1, <2>2, <2>3
  <1> QED
    BY <1>4 DEF AllSent

(* A published value is the current one, and waits to be sent.             *)
LEMMA PublishKeepsView ==
    ASSUME MessageTypes, ViewInv, NEW e \in StationEvents,
           StationPublishes(e)
    PROVE  ViewInv'
  <1>1. /\ outbox' = Append(outbox, e) /\ sent' = sent /\ uplink' = uplink
        /\ workstation' = workstation
    BY DEF StationPublishes
  <1>3. ASSUME NEW s \in Inputs, ~eventMissed'[s]
        PROVE  Tells(s)'
    <2>1. CASE e.sourceId = s
      <3>1. current'[s] = e.value
        BY <2>1 DEF StationPublishes
      <3>2. LastSays(outbox', s, current'[s])
        BY <1>1, <2>1, <3>1, LastAppended DEF MessageTypes
      <3>3. ~AllSent(s)'
        BY <2>1, PublishedIsUnsent
      <3> QED
        BY <3>2, <3>3 DEF Tells
    <2>2. CASE e.sourceId # s
      <3>1. current'[s] = current[s]
        BY <2>2 DEF StationPublishes
      <3>2. ~eventMissed[s]
        <4>1. eventMissed'[s] = (eventMissed[s] /\ s # e.sourceId)
          BY DEF StationPublishes
        <4> QED
          BY <1>3, <2>2, <4>1, Zenon
      <3>3. Tells(s)
        BY <3>2 DEF ViewInv
      <3>4. LastSays(outbox', s, current'[s])
        BY <1>1, <2>2, <3>1, <3>3, LastAppended DEF MessageTypes, Tells
      <3>5. AllSent(s)' => AllSent(s)
        BY PublishedIsUnsent
      <3>6. WorkstationValue(s)' = WorkstationValue(s)
        BY <1>1 DEF WorkstationValue
      <3> QED
        BY <1>1, <3>1, <3>3, <3>4, <3>5, <3>6 DEF Tells
    <2> QED
      BY <2>1, <2>2
  <1> QED
    BY <1>3 DEF ViewInv

(* What is sent becomes the last message on its way.                       *)
LEMMA TransmitKeepsView ==
    ASSUME MessageTypes, ViewInv, Transmit
    PROVE  ViewInv'
  <1> DEFINE e == outbox[sent + 1]
  <1>1. /\ uplink' = Append(uplink, e) /\ sent < Len(outbox)
        /\ sent' = sent + 1 /\ outbox' = outbox
        /\ UNCHANGED <<current, workstation, eventMissed>>
    BY DEF Transmit
  <1>2. /\ sent + 1 \in 1..Len(outbox) /\ e \in StationEvents
        /\ Len(outbox) \in Nat /\ sent \in Nat
    BY <1>1, ElementOfSeq DEF MessageTypes
  <1>3. ASSUME NEW s \in Inputs, ~eventMissed'[s]
        PROVE  Tells(s)'
    <2>1. Tells(s)
      BY <1>1, <1>3 DEF ViewInv
    <2>2. LastSays(outbox', s, current'[s])
      BY <1>1, <2>1 DEF Tells
    <2>3. WorkstationValue(s)' = WorkstationValue(s)
      BY <1>1 DEF WorkstationValue
    <2>4. ASSUME AllSent(s)'
          PROVE  /\ LastSays(uplink', s, current'[s])
                 /\ Absent(uplink', s) => WorkstationValue(s)' = current'[s]
      <3>1. \A i \in 1..Len(outbox) : i > sent + 1 => outbox[i].sourceId # s
        BY <1>1, <2>4 DEF AllSent
      <3>2. CASE e.sourceId = s
        <4>1. e.value = current[s]
          <5>1. LastSays(outbox, s, current[s])
            BY <2>1 DEF Tells
          <5> QED
            BY <1>2, <3>1, <3>2, <5>1 DEF LastSays
        <4>2. /\ LastSays(uplink', s, current[s]) /\ ~Absent(uplink', s)
              /\ current' = current
          BY <1>1, <1>2, <3>2, <4>1, LastAppended DEF MessageTypes
        <4> QED
          BY <4>2
      <3>3. CASE e.sourceId # s
        <4>1. AllSent(s)
          BY <1>2, <3>1, <3>3 DEF AllSent
        <4> QED
          BY <1>1, <1>2, <2>1, <2>3, <3>3, <4>1, LastAppended
             DEF MessageTypes, Tells
      <3> QED
        BY <3>2, <3>3
    <2> QED
      BY <2>2, <2>4 DEF Tells
  <1> QED
    BY <1>3 DEF ViewInv

(* What the broker has acknowledged had been sent.                         *)
LEMMA AcknowledgeKeepsView ==
    ASSUME MessageTypes, ViewInv, BrokerAcknowledges
    PROVE  ViewInv'
  <1>1. /\ outbox' = Tail(outbox) /\ sent' = sent - 1 /\ sent > 0
        /\ UNCHANGED <<current, uplink, workstation, eventMissed>>
    BY DEF BrokerAcknowledges
  <1>2. outbox # <<>> /\ outbox \in Seq(StationEvents)
    BY <1>1 DEF MessageTypes
  <1>4. ASSUME NEW s \in Inputs, ~eventMissed'[s]
        PROVE  Tells(s)'
    <2>1. Tells(s)
      BY <1>1, <1>4 DEF ViewInv
    <2>2. LastSays(outbox', s, current'[s])
      BY <1>1, <1>2, <2>1, LastOfTail DEF Tells
    <2>3. WorkstationValue(s)' = WorkstationValue(s)
      BY <1>1 DEF WorkstationValue
    <2>4. AllSent(s)' => AllSent(s)
      BY AcknowledgedWasSent
    <2> QED
      BY <1>1, <2>1, <2>2, <2>3, <2>4 DEF Tells
  <1> QED
    BY <1>4 DEF ViewInv

(* An expired message leaves the others in their order.                    *)
LEMMA ExpiryKeepsView ==
    ASSUME MessageTypes, ViewInv, OutboxExpires
    PROVE  ViewInv'
  <1>1. PICK k \in 1..Len(outbox) :
           /\ outbox' = RemoveAt(outbox, k)
           /\ sent' = IF k <= sent THEN sent - 1 ELSE sent
           /\ eventMissed' = Marked(eventMissed, outbox[k])
           /\ UNCHANGED <<current, uplink, workstation>>
    BY DEF OutboxExpires
  <1>2. /\ Len(outbox') = Len(outbox) - 1 /\ Len(outbox) \in Nat
        /\ \A i \in 1..(Len(outbox) - 1) :
              outbox'[i] = IF i < k THEN outbox[i] ELSE outbox[i + 1]
        /\ outbox \in Seq(StationEvents) /\ sent \in 0..Len(outbox)
    BY <1>1, RemoveFacts DEF MessageTypes
  <1>3. ASSUME NEW s \in Inputs, ~eventMissed'[s]
        PROVE  Tells(s)'
    <2>1. outbox[k].sourceId # s /\ ~eventMissed[s]
      <3>1. eventMissed'[s] = (eventMissed[s] \/ s = outbox[k].sourceId)
        BY <1>1 DEF Marked
      <3> QED
        BY <1>3, <3>1, Zenon
    <2>2. Tells(s)
      BY <2>1 DEF ViewInv
    <2>3. LastSays(outbox', s, current'[s])
      BY <1>1, <1>2, <2>1, <2>2, LastOfRest DEF Tells
    <2>4. WorkstationValue(s)' = WorkstationValue(s)
      BY <1>1 DEF WorkstationValue
    <2>5. AllSent(s)' => AllSent(s)
      BY <1>3, ExpiredOrUnsent
    <2> QED
      BY <1>1, <2>2, <2>3, <2>4, <2>5 DEF Tells
  <1> QED
    BY <1>3 DEF ViewInv

(* The oldest message on its way is lost, or handled: then the workstation *)
(* shows it unless a younger one follows.                                  *)
LEMMA UplinkKeepsView ==
    ASSUME MessageTypes, CommandsTyped, ViewInv, BackendAway \/ HandleMessage
    PROVE  ViewInv'
  <1> DEFINE e == Head(uplink)
  <1>1. /\ uplink # <<>> /\ uplink' = Tail(uplink)
        /\ UNCHANGED <<outbox, sent, current>>
        /\ uplink \in Seq(StationEvents) /\ e \in StationEvents
    BY TailFacts DEF BackendAway, HandleMessage, MessageTypes
  <1>2. ASSUME NEW s \in Inputs, ~eventMissed'[s]
        PROVE  Tells(s)'
    <2>1. /\ ~eventMissed[s]
          /\ \/ e.sourceId # s /\ WorkstationValue(s)' = WorkstationValue(s)
             \/ e.sourceId = s /\ WorkstationValue(s)' = e.value
      <3>1. CASE BackendAway
        <4>1. eventMissed'[s] = (eventMissed[s] \/ s = e.sourceId)
          BY <3>1 DEF BackendAway, Marked
        <4>2. ~eventMissed[s] /\ e.sourceId # s
          BY <1>2, <4>1, Zenon
        <4>3. WorkstationValue(s)' = WorkstationValue(s)
          BY <3>1 DEF BackendAway, WorkstationValue
        <4> QED
          BY <4>2, <4>3
      <3>2. CASE HandleMessage
        <4>1. eventMissed' = eventMissed
                 /\ workstation' = WorkstationAfter(workstation, e)
          BY <3>2 DEF HandleMessage
        <4>2. WorkstationValue(s)' = IF e.sourceId = s THEN e.value
                                     ELSE WorkstationValue(s)
          BY <1>1, <4>1, FieldOfInput DEF CommandsTyped
        <4> QED
          BY <1>2, <4>1, <4>2
      <3> QED
        BY <3>1, <3>2
    <2>2. Tells(s)
      BY <2>1 DEF ViewInv
    <2>3. LastSays(outbox', s, current'[s]) /\ (AllSent(s)' <=> AllSent(s))
      BY <1>1, <2>2 DEF Tells, AllSent
    <2>4. ASSUME AllSent(s)
          PROVE  /\ LastSays(uplink', s, current'[s])
                 /\ Absent(uplink', s) => WorkstationValue(s)' = current'[s]
      <3>1. /\ LastSays(uplink, s, current[s])
            /\ Absent(uplink, s) => WorkstationValue(s) = current[s]
        BY <2>2, <2>4 DEF Tells
      <3> QED
        BY <1>1, <2>1, <3>1, LastOfTail
    <2> QED
      BY <2>3, <2>4 DEF Tells
  <1> QED
    BY <1>2 DEF ViewInv

(* A reboot loses what had not been sent.                                  *)
LEMMA RestartKeepsView ==
    ASSUME MessageTypes, ViewInv, StationRestarts
    PROVE  ViewInv'
  <1> DEFINE unsent == SubSeq(outbox, sent + 1, Len(outbox))
  <1>1. /\ outbox' = << >> /\ sent' = 0
        /\ UNCHANGED <<current, uplink, workstation>>
    BY DEF StationRestarts
  <1>2. /\ Len(unsent) = Len(outbox) - sent /\ unsent \in Seq(StationEvents)
        /\ \A i \in 1..(Len(outbox) - sent) : unsent[i] = outbox[sent + i]
        /\ Len(outbox) \in Nat /\ sent \in 0..Len(outbox)
    BY SubSeqProperties DEF MessageTypes
  <1>3. ASSUME NEW s \in Inputs, ~eventMissed'[s]
        PROVE  Tells(s)'
    <2>1. ~eventMissed[s] /\ ~Lost(unsent)[s]
      <3>1. eventMissed'[s] = (eventMissed[s] \/ Lost(unsent)[s])
        BY DEF StationRestarts
      <3> QED
        BY <1>3, <3>1, Zenon
    <2>2. \A i \in DOMAIN unsent : unsent[i].sourceId # s
      BY <2>1 DEF Lost
    <2>3. AllSent(s)
      <3>1. ASSUME NEW i \in 1..Len(outbox), i > sent
            PROVE  outbox[i].sourceId # s
        <4>1. i - sent \in 1..(Len(outbox) - sent) /\ sent + (i - sent) = i
          BY <1>2, <3>1
        <4>2. i - sent \in DOMAIN unsent /\ unsent[i - sent] = outbox[i]
          BY <1>2, <4>1
        <4> QED
          BY <2>2, <4>2
      <3> QED
        BY <3>1 DEF AllSent
    <2>4. /\ LastSays(uplink, s, current[s])
          /\ Absent(uplink, s) => WorkstationValue(s) = current[s]
      BY <2>1, <2>3 DEF ViewInv, Tells
    <2>5. WorkstationValue(s)' = WorkstationValue(s)
      BY <1>1 DEF WorkstationValue
    <2> QED
      BY <1>1, <2>4, <2>5, NothingSays DEF Tells
  <1> QED
    BY <1>3 DEF ViewInv

LEMMA ViewStep ==
    ASSUME MessageTypes, CommandsTyped, ViewInv, [Next]_vars
    PROVE  ViewInv'
  <1>1. ASSUME NEW e \in StationEvents, StationPublishes(e)
        PROVE  ViewInv'
    BY <1>1, PublishKeepsView
  <1>2. CASE Transmit
    BY <1>2, TransmitKeepsView
  <1>3. CASE BrokerAcknowledges
    BY <1>3, AcknowledgeKeepsView
  <1>4. CASE OutboxExpires
    BY <1>4, ExpiryKeepsView
  <1>5. CASE BackendAway \/ HandleMessage
    BY <1>5, UplinkKeepsView
  <1>6. CASE StationRestarts
    BY <1>6, RestartKeepsView
  <1>7. CASE BackendRestarts
    <2>1. \A s \in Inputs : eventMissed'[s]
      BY <1>7 DEF BackendRestarts
    <2> QED
      BY <2>1 DEF ViewInv
  <1>8. CASE StationReconnects
    <2>1. /\ sent' = 0
          /\ UNCHANGED <<outbox, uplink, current, workstation, eventMissed>>
      BY <1>8 DEF StationReconnects
    <2>2. \A s \in Inputs : AllSent(s)' => AllSent(s)
      BY <2>1 DEF AllSent, MessageTypes
    <2> QED
      BY <2>1, <2>2 DEF ViewInv, Tells, WorkstationValue
  <1>9. CASE \/ SetRemoteState \/ StationObeys \/ StationAway
             \/ UNCHANGED vars
    <2>1. UNCHANGED <<outbox, sent, uplink, current, eventMissed>>
      BY <1>9 DEF SetRemoteState, StationObeys, StationAway
    <2>2. \/ workstation' = workstation
          \/ \E on \in {0, 1} :
                workstation' = [workstation EXCEPT !.desired = on]
      BY <1>9 DEF SetRemoteState, StationObeys, StationAway
    <2>3. \A s \in Inputs : WorkstationValue(s)' = WorkstationValue(s)
      BY <2>2 DEF WorkstationValue, CommandsTyped, Workstations
    <2> QED
      BY <2>1, <2>3 DEF ViewInv, Tells, AllSent
  <1> QED
    BY <1>1, <1>2, <1>3, <1>4, <1>5, <1>6, <1>7, <1>8, <1>9 DEF Next

(* handle_event(): duplicates and an outbox sent again do no harm.  With   *)
(* nothing on its way the workstation shows the last value of every input  *)
(* of which no message was lost.                                           *)
THEOREM ViewCurrent == Spec => []ViewIsCurrent
  <1>1. Init => ViewInv
    BY ViewInit
  <1>2. MessageTypes /\ CommandsTyped /\ ViewInv /\ [Next]_vars => ViewInv'
    BY ViewStep
  <1>3. ViewInv => ViewIsCurrent
    <2>1. ASSUME ViewInv, outbox = <<>>, uplink = <<>>, NEW s \in Inputs
          PROVE  eventMissed[s] \/ WorkstationValue(s) = current[s]
      <3>1. AllSent(s) /\ Absent(uplink, s)
        BY <2>1, NothingSays DEF AllSent
      <3> QED
        BY <2>1, <3>1 DEF ViewInv, Tells
    <2> QED
      BY <2>1 DEF ViewIsCurrent
  <1> QED
    BY <1>1, <1>2, <1>3, LampInvariant, PTL DEF Spec

(***************************************************************************)
(* The store, when only input events come in                               *)
(***************************************************************************)
(* No input waits with two events.                                         *)
Distinct(q) ==
    \A i, j \in 1..Len(q) : q[i].sourceId = q[j].sourceId => i = j

(* One entry per input, and none of input s: there is room for one of s.   *)
LEMMA RoomForOneMore ==
    ASSUME NEW q \in Seq(InputEvents), Distinct(q), NEW s \in Inputs,
           Absent(q, s)
    PROVE  Len(q) < StoreCapacity
  <1> DEFINE n == Len(q)
             Others == Inputs \ {s}
             Entries == 1..n
             f == [i \in Entries |-> q[i].sourceId]
  <1>1. n \in Nat /\ n \in Int /\ 1 \in Int
    OBVIOUS
  <1>2. f \in [Entries -> Others]
    BY DEF Absent, InputEvents
  <1>3. /\ IsFiniteSet(Others) /\ Cardinality(Others) = Cardinality(Inputs) - 1
        /\ Cardinality(Inputs) \in Nat
    <2>1. IsFiniteSet(1..4)
      <3>1. 1 \in Int /\ 4 \in Int
        OBVIOUS
      <3> QED
        BY <3>1, FS_Interval, Zenon
    <2>2. IsFiniteSet(Inputs)
      BY <2>1, InputsAssumption, FS_Subset
    <2> QED
      BY <2>2, FS_RemoveElement, FS_CardinalityType
  <1>4. IsFiniteSet(Entries) /\ Cardinality(Entries) = n
    <2> HIDE DEF n
    <2>1. IsFiniteSet(1..n) /\ Cardinality(1..n) = IF 1 > n THEN 0 ELSE n - 1 + 1
      BY <1>1, FS_Interval, Zenon
    <2> QED
      BY <1>1, <2>1
  <1>5. SUFFICES ASSUME ~(n < StoreCapacity)
                 PROVE  FALSE
    OBVIOUS
  <1>6. Cardinality(Others) < Cardinality(Entries)
    BY <1>1, <1>3, <1>4, <1>5, StoreHoldsInputs
  <1>7. PICK x \in Entries, y \in Entries : x # y /\ f[x] = f[y]
    <2> HIDE DEF f, Others, Entries
    <2> QED
      BY <1>2, <1>3, <1>4, <1>6, FS_PigeonHole
  <1> QED
    BY <1>7 DEF Distinct

(* push() erases what waits of the event's input, and nothing else.        *)
LEMMA CoalescedKeeps ==
    ASSUME NEW q \in Seq(InputEvents), Distinct(q), NEW e \in InputEvents
    PROVE  LET c == Buffer!Coalesced(q, e) IN
           /\ c \in Seq(InputEvents) /\ Distinct(c) /\ Absent(c, e.sourceId)
           /\ \A i \in 1..Len(c) : \E j \in 1..Len(q) : c[i] = q[j]
           /\ \A j \in 1..Len(q) : q[j].sourceId # e.sourceId
                 => \E i \in 1..Len(c) : c[i] = q[j]
  <1> DEFINE c == Buffer!Coalesced(q, e)
             Old == {i \in 1..Len(q) : q[i].sourceId = e.sourceId}
  <1>1. e.sourceId # 0
    BY InputsAssumption DEF InputEvents
  <1>2. Buffer!Superseded(q, e) = Old
    BY <1>1 DEF Buffer!Superseded, Buffer!SystemSource
  <1>3. CASE Old = {}
    <2>1. c = q
      BY <1>2, <1>3 DEF Buffer!Coalesced
    <2> QED
      BY <1>3, <2>1 DEF Absent
  <1>4. CASE Old # {}
    <2>1. PICK k \in 1..Len(q) : q[k].sourceId = e.sourceId
      BY <1>4
    <2>2. Old = {k}
      BY <2>1 DEF Distinct
    <2>3. k = CHOOSE i \in Old : \A j \in Old : i <= j
      BY <2>1, <2>2
    <2>4. c = RemoveAt(q, k)
      BY <1>2, <1>4, <2>3 DEF Buffer!Coalesced, Buffer!RemoveAt, RemoveAt
    <2>5. /\ c \in Seq(InputEvents) /\ Len(c) = Len(q) - 1 /\ Len(q) \in Nat
          /\ \A i \in 1..(Len(q) - 1) : c[i] = IF i < k THEN q[i] ELSE q[i + 1]
      BY <2>4, RemoveFacts
    <2> HIDE DEF c, Old
    <2> DEFINE At(i) == IF i < k THEN i ELSE i + 1
    <2>6. \A i \in 1..Len(c) : At(i) \in 1..Len(q) /\ At(i) # k /\ c[i] = q[At(i)]
      BY <2>5
    <2>7. \A i, j \in 1..Len(c) : At(i) = At(j) => i = j
      OBVIOUS
    <2>8. Distinct(c)
      BY <2>6, <2>7 DEF Distinct
    <2>9. Absent(c, e.sourceId)
      BY <2>1, <2>6 DEF Absent, Distinct
    <2>10. ASSUME NEW j \in 1..Len(q), q[j].sourceId # e.sourceId
           PROVE  \E i \in 1..Len(c) : c[i] = q[j]
      <3>1. CASE j < k
        <4>1. j \in 1..Len(c) /\ c[j] = q[j]
          BY <2>5, <3>1
        <4> QED
          BY <4>1
      <3>2. CASE j > k
        <4>1. j - 1 \in 1..Len(c) /\ c[j - 1] = q[j]
          BY <2>5, <3>2
        <4> QED
          BY <4>1
      <3> QED
        BY <2>1, <2>10, <3>1, <3>2
    <2> QED
      BY <2>5, <2>6, <2>8, <2>9, <2>10 DEF c
  <1> QED
    BY <1>3, <1>4

(* p is q with e in the place of all that waited of its input.             *)
Replaced(q, e, p) ==
    /\ \A i \in 1..Len(p) : p[i].sourceId = e.sourceId => p[i] = e
    /\ \A i \in 1..Len(p) : p[i].sourceId # e.sourceId
          => \E j \in 1..Len(q) : p[i] = q[j]

(* push() of an input's event replaces, and turns nothing away.            *)
LEMMA PushReplaces ==
    ASSUME NEW q \in Seq(InputEvents), Distinct(q), NEW e \in InputEvents,
           NEW p, p = Buffer!Pushed(q, e)
    PROVE  /\ p \in Seq(InputEvents) /\ Distinct(p) /\ ~Absent(p, e.sourceId)
           /\ Replaced(q, e, p)
           /\ \A s : s # e.sourceId /\ Absent(p, s) => Absent(q, s)
  <1> DEFINE c == Buffer!Coalesced(q, e)
  <1>1. /\ c \in Seq(InputEvents) /\ Distinct(c) /\ Absent(c, e.sourceId)
        /\ \A i \in 1..Len(c) : \E j \in 1..Len(q) : c[i] = q[j]
        /\ \A j \in 1..Len(q) : q[j].sourceId # e.sourceId
              => \E i \in 1..Len(c) : c[i] = q[j]
    BY CoalescedKeeps
  <1>2. Len(c) < StoreCapacity
    BY <1>1, RoomForOneMore DEF InputEvents
  <1>3. p = Append(c, e)
    BY <1>2 DEF Buffer!Pushed, Buffer!PushAccepts
  <1> HIDE DEF c
  <1>4. /\ p \in Seq(InputEvents) /\ Len(p) = Len(c) + 1 /\ Len(c) \in Nat
        /\ p[Len(c) + 1] = e /\ \A i \in 1..Len(c) : p[i] = c[i]
    BY <1>1, <1>3, AppendFacts
  <1>5. \A i \in 1..Len(p) :
           \/ i = Len(c) + 1
           \/ i \in 1..Len(c) /\ p[i].sourceId # e.sourceId
    BY <1>1, <1>4 DEF Absent
  <1>6. Distinct(p)
    <2>1. SUFFICES ASSUME NEW i \in 1..Len(p), NEW j \in 1..Len(p),
                          p[i].sourceId = p[j].sourceId
                   PROVE  i = j
      BY DEF Distinct
    <2>2. CASE i \in 1..Len(c) /\ j \in 1..Len(c)
      BY <1>1, <1>4, <2>1, <2>2 DEF Distinct
    <2>3. CASE i = Len(c) + 1 \/ j = Len(c) + 1
      BY <1>4, <1>5, <2>1, <2>3
    <2> QED
      BY <1>5, <2>2, <2>3
  <1>7. ~Absent(p, e.sourceId)
    BY <1>4 DEF Absent
  <1>8. Replaced(q, e, p)
    <2>1. ASSUME NEW i \in 1..Len(p)
          PROVE  /\ p[i].sourceId = e.sourceId => p[i] = e
                 /\ p[i].sourceId # e.sourceId => \E j \in 1..Len(q) : p[i] = q[j]
      <3>1. CASE i = Len(c) + 1
        BY <1>4, <3>1
      <3>2. CASE i \in 1..Len(c) /\ p[i].sourceId # e.sourceId
        BY <1>1, <1>4, <3>2
      <3> QED
        BY <1>5, <3>1, <3>2
    <2> QED
      BY <2>1 DEF Replaced
  <1>9. ASSUME NEW s, s # e.sourceId, Absent(p, s)
        PROVE  Absent(q, s)
    <2>1. ASSUME NEW j \in 1..Len(q), q[j].sourceId = s
          PROVE  FALSE
      <3>1. PICK i \in 1..Len(c) : c[i] = q[j]
        BY <1>1, <1>9, <2>1
      <3>2. i \in 1..Len(p) /\ p[i].sourceId = s
        BY <1>4, <2>1, <3>1
      <3> QED
        BY <1>9, <3>2 DEF Absent
    <2> QED
      BY <2>1 DEF Absent
  <1> QED
    BY <1>3, <1>4, <1>6, <1>7, <1>8, <1>9

(***************************************************************************)
(* The station                                                             *)
(***************************************************************************)
StationTypes ==
    /\ wired \subseteq Inputs /\ fresh \subseteq wired
    /\ position \in [Inputs -> Values] /\ told \in [Inputs -> Values]
    /\ \A s \in Inputs : position[s] \in PositionsOf(s)
    /\ overridden \in BOOLEAN
    /\ store \in Seq(InputEvents) /\ Distinct(store)

(* Since its last report was let through, input s has told told[s]: the    *)
(* event waits in the store, or the station has published it.              *)
Known(s) == s \in wired /\ s \notin fresh /\ s \notin silent

StoreTells(s) ==
    /\ \A i \in 1..Len(store) : store[i].sourceId = s => store[i].value = told[s]
    /\ Absent(store, s) => current[s] = told[s]

StoreInv == \A s \in Inputs : Known(s) => StoreTells(s)

LEMMA ReportIsEvent ==
    ASSUME StationTypes, NEW s \in Inputs
    PROVE  /\ ReportOf(s) \in InputEvents /\ ReportOf(s) \in StationEvents
           /\ ReportOf(s).sourceId = s /\ ReportOf(s).value = position[s]
  <1> DEFINE v == position[s]
             t == CASE s = 1 -> IF v = 1 THEN "ButtonPressed" ELSE "ButtonReleased"
                    [] s = 2 -> "ToggleChanged"
                    [] s = 3 -> "EncoderChanged"
                    [] OTHER -> "AnalogChanged"
             e == [type |-> t, sourceId |-> s, value |-> v, sequenceId |-> 0]
  <1>1. s \in 1..4 /\ v \in PositionsOf(s) /\ v \in Values
    BY InputsAssumption DEF StationTypes
  <1> HIDE DEF v
  <1>2. t \in InputTypes /\ s = SourceOf(t) /\ v \in ValuesOf(t)
    <2>1. CASE s \in {1, 2}
      BY <1>1, <2>1 DEF InputTypes, SourceOf, ValuesOf, PositionsOf
    <2>2. CASE s \in {3, 4}
      <3>1. v \in Counts
        BY <1>1, <2>2, DetentsAssumption DEF PositionsOf
      <3> QED
        BY <2>2, <3>1 DEF InputTypes, SourceOf, ValuesOf
    <2> QED
      BY <1>1, <2>1, <2>2
  <1> HIDE DEF t
  <1>3. e \in InputEvents
    BY <1>1, <1>2 DEF InputEvents
  <1>4. e.sourceId = s /\ e.value = v
    OBVIOUS
  <1> HIDE DEF e
  <1>5. \E f \in InputEvents : f.sourceId = s /\ f.value = position[s]
    BY <1>3, <1>4 DEF v
  <1> QED
    BY <1>5 DEF ReportOf, StationEvents

LEMMA ZeroIsPosition ==
    ASSUME NEW s
    PROVE  0 \in PositionsOf(s) /\ 0 \in Values
  BY DetentsAssumption DEF PositionsOf, Values

(* What Said changes, in either place an event may go to.                  *)
LEMMA SaidTypes ==
    ASSUME StationTypes, NEW s \in wired, Said(s)
    PROVE  /\ wired' = wired /\ position' = position
           /\ fresh' \subseteq wired
           /\ told' \in [Inputs -> Values] /\ told'[s] = position[s]
           /\ \A t \in Inputs : t # s => /\ told'[t] = told[t]
                                         /\ Known(t)' => Known(t)
  <1>1. /\ told' = [told EXCEPT ![s] = position[s]] /\ fresh' = fresh \ {s}
        /\ silent' = silent \ {s}
        /\ wired' = wired /\ position' = position
    BY DEF Said
  <1>2. s \in Inputs /\ position[s] \in Values
    BY DEF StationTypes
  <1>3. ASSUME NEW t \in Inputs, t # s, Known(t)'
        PROVE  Known(t)
    BY <1>1, <1>3 DEF Known
  <1> QED
    BY <1>1, <1>2, <1>3 DEF StationTypes

LEMMA PublishedKeepsStation ==
    ASSUME StationTypes, StoreInv, NEW s \in wired, ReportPublished(s)
    PROVE  StationTypes' /\ StoreInv'
  <1>1. /\ Said(s) /\ store = <<>> /\ store' = store
        /\ StationPublishes(ReportOf(s)) /\ overridden' = overridden
    BY DEF ReportPublished
  <1>2. s \in Inputs
    BY DEF StationTypes
  <1>3. StationTypes'
    BY <1>1, SaidTypes DEF StationTypes
  <1>4. ASSUME NEW t \in Inputs, Known(t)'
        PROVE  StoreTells(t)'
    <2>1. current'[t] = IF t = s THEN position[s] ELSE current[t]
      BY <1>1, <1>2, ReportIsEvent DEF StationPublishes
    <2>2. CASE t = s
      BY <1>1, <2>1, <2>2, SaidTypes DEF StoreTells
    <2>3. CASE t # s
      <3>1. StoreTells(t) /\ told'[t] = told[t]
        BY <1>1, <1>4, <2>3, SaidTypes DEF StoreInv
      <3> QED
        BY <1>1, <2>1, <2>3, <3>1 DEF StoreTells
    <2> QED
      BY <2>2, <2>3
  <1> QED
    BY <1>3, <1>4 DEF StoreInv

LEMMA BufferedReplaces ==
    ASSUME StationTypes, NEW s \in wired, ReportBuffered(s)
    PROVE  /\ store' \in Seq(InputEvents) /\ Distinct(store') /\ ~Absent(store', s)
           /\ Replaced(store, ReportOf(s), store')
           /\ \A t : t # s /\ Absent(store', t) => Absent(store, t)
  <1> DEFINE e == ReportOf(s)
  <1>1. store' = Buffer!Pushed(store, e)
    BY DEF ReportBuffered
  <1>2. e \in InputEvents /\ e.sourceId = s
    BY ReportIsEvent DEF StationTypes
  <1>3. store \in Seq(InputEvents) /\ Distinct(store)
    BY DEF StationTypes
  <1> HIDE DEF e
  <1>4. /\ store' \in Seq(InputEvents) /\ Distinct(store')
        /\ ~Absent(store', e.sourceId) /\ Replaced(store, e, store')
        /\ \A t : t # e.sourceId /\ Absent(store', t) => Absent(store, t)
    BY <1>1, <1>2, <1>3, PushReplaces
  <1> QED
    BY <1>2, <1>4 DEF e

LEMMA BufferedKeepsStation ==
    ASSUME StationTypes, StoreInv, NEW s \in wired, ReportBuffered(s)
    PROVE  StationTypes' /\ StoreInv'
  <1> DEFINE e == ReportOf(s)
  <1>1. Said(s) /\ current' = current /\ overridden' = overridden
    BY DEF ReportBuffered
  <1>2. e.sourceId = s /\ e.value = position[s]
    BY ReportIsEvent DEF StationTypes
  <1>3. /\ store' \in Seq(InputEvents) /\ Distinct(store')
        /\ ~Absent(store', s) /\ Replaced(store, e, store')
        /\ \A t : t # s /\ Absent(store', t) => Absent(store, t)
    BY BufferedReplaces
  <1> HIDE DEF e
  <1>4. /\ \A i \in 1..Len(store') : store'[i].sourceId = s => store'[i] = e
        /\ \A i \in 1..Len(store') : store'[i].sourceId # s
              => \E j \in 1..Len(store) : store'[i] = store[j]
    BY <1>2, <1>3 DEF Replaced
  <1>5. StationTypes'
    BY <1>1, <1>3, SaidTypes DEF StationTypes
  <1>6. ASSUME NEW t \in Inputs, Known(t)'
        PROVE  StoreTells(t)'
    <2>1. CASE t = s
      BY <1>1, <1>2, <1>3, <1>4, <2>1, SaidTypes DEF StoreTells
    <2>2. CASE t # s
      <3>1. StoreTells(t) /\ told'[t] = told[t]
        BY <1>1, <1>6, <2>2, SaidTypes DEF StoreInv
      <3>2. ASSUME NEW i \in 1..Len(store'), store'[i].sourceId = t
            PROVE  store'[i].value = told'[t]
        <4>1. PICK j \in 1..Len(store) : store'[i] = store[j]
          BY <1>4, <2>2, <3>2
        <4> QED
          BY <3>1, <3>2, <4>1 DEF StoreTells
      <3> QED
        BY <1>1, <1>3, <2>2, <3>1, <3>2 DEF StoreTells
    <2> QED
      BY <2>1, <2>2
  <1> QED
    BY <1>5, <1>6 DEF StoreInv

(* The oldest event leaves the store: the others keep their input's word,  *)
(* and the input it was of is left without one.                            *)
LEMMA TailKeepsStore ==
    ASSUME StationTypes, store # <<>>, store' = Tail(store)
    PROVE  /\ store' \in Seq(InputEvents) /\ Distinct(store')
           /\ Head(store) \in InputEvents
           /\ Head(store) = store[1] /\ 1 \in 1..Len(store)
           /\ \A i \in 1..Len(store') : /\ i + 1 \in 1..Len(store)
                                        /\ store'[i] = store[i + 1]
           /\ \A t : t # Head(store).sourceId /\ Absent(store', t)
                      => Absent(store, t)
  <1>1. /\ store' \in Seq(InputEvents) /\ Head(store) \in InputEvents
        /\ Head(store) = store[1] /\ Len(store') = Len(store) - 1
        /\ Len(store) \in Nat \ {0}
        /\ \A i \in 1..Len(store') : store'[i] = store[i + 1]
    BY TailFacts DEF StationTypes
  <1>2. Distinct(store')
    <2>1. ASSUME NEW i \in 1..Len(store'), NEW j \in 1..Len(store'),
                 store'[i].sourceId = store'[j].sourceId
          PROVE  i = j
      <3>1. i + 1 \in 1..Len(store) /\ j + 1 \in 1..Len(store)
        BY <1>1
      <3>2. i + 1 = j + 1
        BY <1>1, <2>1, <3>1 DEF StationTypes, Distinct
      <3> QED
        BY <3>2
    <2> QED
      BY <2>1 DEF Distinct
  <1>3. \A i \in 1..Len(store') : i + 1 \in 1..Len(store)
    BY <1>1
  <1>4. ASSUME NEW t, t # Head(store).sourceId, Absent(store', t)
        PROVE  Absent(store, t)
    BY <1>4, AbsentBehindHead DEF StationTypes
  <1> QED
    BY <1>1, <1>2, <1>3, <1>4

LEMMA FlushKeepsStation ==
    ASSUME StationTypes, StoreInv, Flush
    PROVE  StationTypes' /\ StoreInv'
  <1>1. /\ store # <<>> /\ store' = Tail(store) /\ StationPublishes(Head(store))
        /\ UNCHANGED <<positionVars, driverVars, overridden>>
    BY DEF Flush
  <1>2. /\ store' \in Seq(InputEvents) /\ Distinct(store')
        /\ Head(store) = store[1] /\ 1 \in 1..Len(store)
        /\ \A i \in 1..Len(store') : /\ i + 1 \in 1..Len(store)
                                     /\ store'[i] = store[i + 1]
        /\ \A t : t # Head(store).sourceId /\ Absent(store', t)
                   => Absent(store, t)
    BY <1>1, TailKeepsStore
  <1>3. StationTypes'
    BY <1>1, <1>2 DEF StationTypes
  <1>4. ASSUME NEW t \in Inputs, Known(t)'
        PROVE  StoreTells(t)'
    <2>1. StoreTells(t) /\ told' = told
      BY <1>1, <1>4 DEF StoreInv, Known
    <2>2. ASSUME NEW i \in 1..Len(store'), store'[i].sourceId = t
          PROVE  store'[i].value = told'[t]
      BY <1>2, <2>1, <2>2 DEF StoreTells
    <2>3. ASSUME Absent(store', t)
          PROVE  current'[t] = told'[t]
      <3>1. current'[t] = IF t = Head(store).sourceId THEN Head(store).value
                          ELSE current[t]
        BY <1>1 DEF StationPublishes
      <3>2. CASE t = Head(store).sourceId
        BY <1>2, <2>1, <3>1, <3>2 DEF StoreTells
      <3>3. CASE t # Head(store).sourceId
        BY <1>2, <2>1, <2>3, <3>1, <3>3 DEF StoreTells
      <3> QED
        BY <3>2, <3>3
    <2> QED
      BY <2>2, <2>3 DEF StoreTells
  <1> QED
    BY <1>3, <1>4 DEF StoreInv

(* What is dropped leaves its input unknown, and the others as they were.  *)
LEMMA DropKeepsStation ==
    ASSUME StationTypes, StoreInv, FlushDropsUnserializable
    PROVE  StationTypes' /\ StoreInv'
  <1>1. /\ store # <<>> /\ store' = Tail(store)
        /\ silent' = silent \cup {Head(store).sourceId}
        /\ UNCHANGED <<wired, position, told, fresh, overridden, current>>
    BY DEF FlushDropsUnserializable
  <1>2. /\ store' \in Seq(InputEvents) /\ Distinct(store')
        /\ \A i \in 1..Len(store') : /\ i + 1 \in 1..Len(store)
                                     /\ store'[i] = store[i + 1]
        /\ \A t : t # Head(store).sourceId /\ Absent(store', t)
                   => Absent(store, t)
    BY <1>1, TailKeepsStore
  <1>3. StationTypes'
    BY <1>1, <1>2 DEF StationTypes
  <1>4. ASSUME NEW t \in Inputs, Known(t)'
        PROVE  StoreTells(t)'
    <2>1. t # Head(store).sourceId /\ Known(t)
      BY <1>1, <1>4 DEF Known
    <2>2. StoreTells(t)
      BY <2>1 DEF StoreInv
    <2> QED
      BY <1>1, <1>2, <2>1, <2>2 DEF StoreTells
  <1> QED
    BY <1>3, <1>4 DEF StoreInv

(* After a reboot no input is known.                                       *)
LEMMA RebootKeepsStation ==
    ASSUME StationTypes, StoreInv, Reboot
    PROVE  StationTypes' /\ StoreInv'
  <1>1. /\ store' = << >> /\ silent' = {Encoder}
        /\ position' = [s \in Inputs |-> IF s = Encoder THEN 0 ELSE position[s]]
        /\ told' = position' /\ fresh' = wired \ {Encoder}
        /\ wired' = wired /\ overridden' = overridden
    BY DEF Reboot
  <1>2. StationTypes'
    <2>1. position' \in [Inputs -> Values]
             /\ \A s \in Inputs : position'[s] \in PositionsOf(s)
      BY <1>1, ZeroIsPosition DEF StationTypes
    <2>2. << >> \in Seq(InputEvents) /\ Distinct(<< >>)
      BY EmptyMessages DEF Distinct
    <2> QED
      BY <1>1, <2>1, <2>2 DEF StationTypes
  <1>3. \A s \in Inputs : ~Known(s)'
    BY <1>1 DEF Known
  <1> QED
    BY <1>2, <1>3 DEF StoreInv

LEMMA StationStart ==
    ASSUME SystemInit
    PROVE  StationTypes /\ StoreInv
  <1>1. /\ store = << >> /\ silent = {Encoder} /\ overridden = FALSE
        /\ wired \subseteq Inputs /\ position \in [Inputs -> Values]
        /\ \A s \in Inputs : position[s] \in PositionsOf(s)
        /\ told = position /\ fresh = wired \ {Encoder}
    BY ZeroIsPosition, WiredSetsAssumption DEF SystemInit
  <1>2. << >> \in Seq(InputEvents) /\ Distinct(<< >>)
    BY EmptyMessages DEF Distinct
  <1>3. StationTypes
    BY <1>1, <1>2 DEF StationTypes
  <1>4. \A s \in Inputs : ~Known(s)
    BY <1>1 DEF Known
  <1> QED
    BY <1>3, <1>4 DEF StoreInv

(* What happens between outbox, backend and lamp leaves the station alone. *)
Beyond == EventArrives \/ ErpSets \/ Delivery \/ Faults

LEMMA StationStep ==
    ASSUME StationTypes, StoreInv, [SystemNext]_systemVars
    PROVE  StationTypes' /\ StoreInv'
  <1>1. ASSUME NEW s \in wired, ReportPublished(s)
        PROVE  StationTypes' /\ StoreInv'
    BY <1>1, PublishedKeepsStation
  <1>2. ASSUME NEW s \in wired, ReportBuffered(s)
        PROVE  StationTypes' /\ StoreInv'
    BY <1>2, BufferedKeepsStation
  <1>3. CASE Flush
    BY <1>3, FlushKeepsStation
  <1>4. CASE Reboot
    BY <1>4, RebootKeepsStation
  <1>5. CASE EncoderRefused
    <2>1. /\ told' = [told EXCEPT ![Encoder] = position[Encoder]]
          /\ silent' = silent \cup {Encoder}
          /\ UNCHANGED <<wired, position, fresh, store, overridden, current>>
      BY <1>5 DEF EncoderRefused
    <2>2. StationTypes'
      BY <2>1 DEF StationTypes
    <2>3. ASSUME NEW t \in Inputs, Known(t)'
          PROVE  StoreTells(t)'
      <3>1. t # Encoder /\ Known(t)
        BY <2>1, <2>3 DEF Known
      <3> QED
        BY <2>1, <3>1 DEF StoreInv, StoreTells, StationTypes
    <2> QED
      BY <2>2, <2>3 DEF StoreInv
  <1>6. CASE WorldMoves
    <2>1. PICK s \in wired : \E v \in PositionsOf(s) :
             position' = [position EXCEPT ![s] = v]
      BY <1>6 DEF WorldMoves
    <2>2. UNCHANGED <<wired, fresh, told, silent, store, overridden, current>>
      BY <1>6 DEF WorldMoves
    <2>3. \A v \in PositionsOf(s) : v \in Values
      BY DetentsAssumption DEF PositionsOf, Values
    <2>4. StationTypes'
      BY <2>1, <2>2, <2>3 DEF StationTypes
    <2> QED
      BY <2>2, <2>4 DEF StoreInv, StoreTells, Known
  <1>7. CASE FlushDropsUnserializable
    BY <1>7, DropKeepsStation
  <1>8. CASE Beyond \/ UNCHANGED systemVars
    <2>1. UNCHANGED <<endVars, current>>
      BY <1>8 DEF Beyond, EventArrives, ErpSets, Delivery, Faults, HandleMessage,
                  SetRemoteState, Transmit, BrokerAcknowledges, StationObeys,
                  StationReconnects, OutboxExpires, BackendAway, StationAway,
                  BackendRestarts
    <2>2. overridden' \in BOOLEAN
      BY <1>8 DEF Beyond, EventArrives, ErpSets, Delivery, Faults, StationTypes
    <2> QED
      BY <2>1, <2>2 DEF StationTypes, StoreInv, StoreTells, Known
  <1> QED
    BY <1>1, <1>2, <1>3, <1>4, <1>5, <1>6, <1>7, <1>8
       DEF SystemNext, Station, Beyond

(* Every step of the system is one of its middleware, or moves the station *)
(* behind the outbox only.                                                 *)
LEMMA StepIsMiddlewares ==
    ASSUME StationTypes, [SystemNext]_systemVars
    PROVE  [Next]_vars
  <1>1. ASSUME NEW s \in wired, ReportPublished(s)
        PROVE  Next
    <2>1. ReportOf(s) \in StationEvents
      BY ReportIsEvent DEF StationTypes
    <2> QED
      BY <1>1, <2>1 DEF ReportPublished, Next
  <1>2. CASE Flush
    <2>1. Head(store) \in StationEvents
      BY <1>2, TailFacts DEF Flush, StationTypes, StationEvents
    <2> QED
      BY <1>2, <2>1 DEF Flush, Next
  <1>3. CASE \/ WorldMoves \/ EncoderRefused \/ UNCHANGED systemVars
             \/ FlushDropsUnserializable
             \/ \E s \in wired : ReportBuffered(s)
    BY <1>3 DEF WorldMoves, EncoderRefused, FlushDropsUnserializable,
                ReportBuffered
  <1>4. CASE Reboot \/ Beyond
    BY <1>4 DEF Reboot, Beyond, EventArrives, ErpSets, Delivery, Faults, Next
  <1> QED
    BY <1>1, <1>2, <1>3, <1>4 DEF SystemNext, Station, Beyond

LEMMA StationInvariant == SystemSpec => [](StationTypes /\ StoreInv)
  <1>1. SystemInit => StationTypes /\ StoreInv
    BY StationStart
  <1>2. StationTypes /\ StoreInv /\ [SystemNext]_systemVars
           => (StationTypes /\ StoreInv)'
    BY StationStep
  <1> QED
    BY <1>1, <1>2, PTL DEF SystemSpec

(* A station with drivers and store is a publisher as Middleware expects:  *)
(* all that is proved of Middleware holds of the system.                   *)
THEOREM SystemIsMiddleware == SystemSpec => Spec
  <1>1. SystemInit => Init
    BY DEF SystemInit
  <1>2. StationTypes /\ [SystemNext]_systemVars => [Next]_vars
    BY StepIsMiddlewares
  <1> QED
    BY <1>1, <1>2, StationInvariant, PTL DEF SystemSpec, Spec

(* The view is right, wherever restarts, outages and replay have been: the *)
(* drivers tell what they find, the store forgets only what a newer event  *)
(* of the same input replaces or what cannot be serialized, and the        *)
(* workstation shows what came last: where the input stands, the slider    *)
(* within its deadband, unless its last report is known to be lost.        *)
THEOREM ViewShowsPositions == SystemSpec => []ViewIsPosition
  <1>1. StationTypes /\ StoreInv /\ ViewIsCurrent => ViewIsPosition
    <2>1. ASSUME StationTypes, StoreInv, ViewIsCurrent, Settled, NEW s \in wired,
                 ~Due(s), ~Unknown(s)
          PROVE  Shown(s)
      <3>1. s \in Inputs /\ ~Moved(s, told[s]) /\ Known(s) /\ ~eventMissed[s]
        BY <2>1 DEF Due, Unknown, Known, StationTypes
      <3>2. current[s] = told[s]
        BY <2>1, <3>1, NothingSays DEF Settled, StoreInv, StoreTells
      <3>3. WorkstationValue(s) = told[s]
        BY <2>1, <3>1, <3>2 DEF Settled, ViewIsCurrent
      <3> QED
        BY <3>1, <3>3 DEF Shown
    <2> QED
      BY <2>1 DEF ViewIsPosition
  <1> QED
    BY <1>1, StationInvariant, SystemIsMiddleware, ViewCurrent, PTL

(***************************************************************************)
(* The lamp                                                                *)
(***************************************************************************)
WantsWhatToggleSays == ~overridden => workstation.desired = workstation.task

(* Between the driver and the backend something of input s is on its way.  *)
Outstanding(s) == ~Absent(store, s) \/ ~AllSent(s) \/ ~Absent(uplink, s)

(* While a restart's damage to the lamp has not been made good, the toggle *)
(* has yet to report, or its report is on its way, or is known to be lost. *)
ForgottenIsOutstanding ==
    (/\ 2 \in wired /\ 2 \notin fresh /\ 2 \notin silent
     /\ ~eventMissed[2] /\ lastCommand = "forgotten")
       => Outstanding(2)

LampSystemInv == WantsWhatToggleSays /\ ForgottenIsOutstanding

(* Every command queued or thrown away makes lastCommand say so.           *)
LEMMA CommandRemembered ==
    ASSUME NEW v, PublishCommand(v)
    PROVE  lastCommand' # "forgotten"
  BY DEF PublishCommand

(* A toggle event is answered, so that it makes good what was forgotten.   *)
LEMMA ToggleIsAnswered ==
    ASSUME NEW e \in StationEvents, e.sourceId = 2
    PROVE  e.type = "ToggleChanged" /\ Answered(e)
  BY EventRanges DEF Answered, SystemSource, InputTypes

Transport ==
    \/ Transmit \/ BrokerAcknowledges \/ StationReconnects \/ OutboxExpires
    \/ BackendAway \/ HandleMessage \/ SetRemoteState
    \/ StationObeys \/ StationAway

(* On its way a toggle event is lost knowingly, or it is answered.         *)
LEMMA TransportKeepsOutstanding ==
    ASSUME MessageTypes, 2 \in Inputs, Transport,
           ~eventMissed'[2], lastCommand' = "forgotten"
    PROVE  /\ ~eventMissed[2] /\ lastCommand = "forgotten"
           /\ AllSent(2)' /\ Absent(uplink', 2) => AllSent(2) /\ Absent(uplink, 2)
  <1>1. CASE Transmit
    <2> DEFINE e == outbox[sent + 1]
    <2>1. /\ uplink' = Append(uplink, e) /\ sent < Len(outbox)
          /\ sent' = sent + 1 /\ outbox' = outbox
          /\ UNCHANGED <<eventMissed, lastCommand>>
      BY <1>1 DEF Transmit
    <2>2. /\ uplink \in Seq(StationEvents) /\ e \in StationEvents
          /\ sent \in Nat /\ Len(outbox) \in Nat
      BY <2>1, ElementOfSeq DEF MessageTypes
    <2>3. ASSUME AllSent(2)', Absent(uplink', 2)
          PROVE  AllSent(2) /\ Absent(uplink, 2)
      <3>1. Absent(uplink, 2) /\ e.sourceId # 2
        BY <2>1, <2>2, <2>3, LastAppended
      <3>2. \A i \in 1..Len(outbox) : i > sent + 1 => outbox[i].sourceId # 2
        BY <2>1, <2>3 DEF AllSent
      <3>3. AllSent(2)
        BY <2>2, <3>1, <3>2 DEF AllSent
      <3> QED
        BY <3>1, <3>3
    <2> QED
      BY <2>1, <2>3
  <1>2. CASE BrokerAcknowledges
    <2>1. UNCHANGED <<uplink, eventMissed, lastCommand>>
      BY <1>2 DEF BrokerAcknowledges
    <2> QED
      BY <1>2, <2>1, AcknowledgedWasSent
  <1>3. CASE StationReconnects
    <2>1. sent' = 0 /\ UNCHANGED <<outbox, uplink, eventMissed, lastCommand>>
      BY <1>3 DEF StationReconnects
    <2> QED
      BY <2>1 DEF AllSent, MessageTypes
  <1>4. CASE OutboxExpires
    <2>1. UNCHANGED <<uplink, lastCommand>>
      BY <1>4 DEF OutboxExpires
    <2>2. ~eventMissed[2]
      <3>1. PICK k \in 1..Len(outbox) : eventMissed' = Marked(eventMissed, outbox[k])
        BY <1>4 DEF OutboxExpires
      <3>2. eventMissed'[2] = (eventMissed[2] \/ 2 = outbox[k].sourceId)
        BY <3>1 DEF Marked
      <3> QED
        BY <3>2, Zenon
    <2>3. AllSent(2)' => AllSent(2)
      BY <1>4, ExpiredOrUnsent
    <2> QED
      BY <2>1, <2>2, <2>3
  <1>5. CASE BackendAway
    <2>1. /\ uplink # <<>> /\ uplink' = Tail(uplink)
          /\ UNCHANGED <<outbox, sent, lastCommand>>
          /\ eventMissed' = Marked(eventMissed, Head(uplink))
      BY <1>5 DEF BackendAway
    <2>2. eventMissed'[2] = (eventMissed[2] \/ 2 = Head(uplink).sourceId)
      BY <2>1 DEF Marked
    <2>3. ~eventMissed[2] /\ Head(uplink).sourceId # 2
      BY <2>2, Zenon
    <2>4. Absent(uplink', 2) => Absent(uplink, 2)
      BY <2>1, <2>3, AbsentBehindHead DEF MessageTypes
    <2> QED
      BY <2>1, <2>3, <2>4 DEF AllSent
  <1>6. CASE HandleMessage
    <2>1. /\ uplink # <<>> /\ uplink' = Tail(uplink)
          /\ UNCHANGED <<outbox, sent, eventMissed>>
          /\ Head(uplink) \in StationEvents
      BY <1>6, TailFacts DEF HandleMessage, MessageTypes
    <2>2. ~Answered(Head(uplink)) /\ lastCommand' = lastCommand
      BY <1>6, CommandRemembered DEF HandleMessage
    <2>3. Head(uplink).sourceId # 2
      BY <2>1, <2>2, ToggleIsAnswered
    <2>4. Absent(uplink', 2) => Absent(uplink, 2)
      BY <2>1, <2>3, AbsentBehindHead DEF MessageTypes
    <2> QED
      BY <2>1, <2>2, <2>4 DEF AllSent
  <1>7. CASE SetRemoteState
    BY <1>7, CommandRemembered DEF SetRemoteState
  <1>8. CASE StationObeys \/ StationAway
    <2>1. UNCHANGED <<outbox, sent, uplink, eventMissed>> /\ lastCommand' = lastCommand
      BY <1>8 DEF StationObeys, StationAway
    <2> QED
      BY <2>1 DEF AllSent
  <1> QED
    BY <1>1, <1>2, <1>3, <1>4, <1>5, <1>6, <1>7, <1>8 DEF Transport

LEMMA ForgottenStep ==
    ASSUME MessageTypes, StationTypes, ForgottenIsOutstanding,
           [SystemNext]_systemVars
    PROVE  ForgottenIsOutstanding'
  <1> SUFFICES ASSUME 2 \in wired', 2 \notin fresh', 2 \notin silent',
                      ~eventMissed'[2], lastCommand' = "forgotten"
               PROVE  Outstanding(2)'
    BY DEF ForgottenIsOutstanding
  <1>1. wired' = wired /\ 2 \in Inputs
    <2>1. wired' = wired
      BY DEF SystemNext, WorldMoves, Station, ReportPublished, ReportBuffered,
             Said, EncoderRefused, Flush, FlushDropsUnserializable, Reboot,
             EventArrives, ErpSets, Delivery, Faults
    <2> QED
      BY <2>1 DEF StationTypes
  <1>2. ASSUME NEW s \in wired, ReportPublished(s)
        PROVE  Outstanding(2)'
    <2>1. /\ ReportOf(s) \in StationEvents /\ ReportOf(s).sourceId = s
          /\ StationPublishes(ReportOf(s)) /\ store' = store
          /\ fresh' = fresh \ {s} /\ silent' = silent \ {s}
      BY <1>2, ReportIsEvent DEF ReportPublished, Said, StationTypes
    <2>2. CASE s = 2
      BY <2>1, <2>2, PublishedIsUnsent DEF Outstanding
    <2>3. CASE s # 2
      <3>1. eventMissed'[2] = (eventMissed[2] /\ 2 # s)
        BY <1>1, <2>1 DEF StationPublishes
      <3>2. ~eventMissed[2]
        BY <2>3, <3>1, Zenon
      <3>3. Outstanding(2)
        BY <1>1, <2>1, <2>3, <3>2 DEF ForgottenIsOutstanding, StationPublishes
      <3>4. AllSent(2)' => AllSent(2)
        BY <2>1, PublishedIsUnsent
      <3> QED
        BY <2>1, <3>3, <3>4 DEF Outstanding, StationPublishes
    <2> QED
      BY <2>2, <2>3
  <1>3. ASSUME NEW s \in wired, ReportBuffered(s)
        PROVE  Outstanding(2)'
    <2>1. /\ ~Absent(store', s) /\ (s # 2 /\ Absent(store', 2) => Absent(store, 2))
          /\ fresh' = fresh \ {s} /\ silent' = silent \ {s}
          /\ UNCHANGED <<outbox, sent, uplink, eventMissed, lastCommand>>
      BY <1>3, BufferedReplaces DEF ReportBuffered, Said
    <2>2. CASE s = 2
      BY <2>1, <2>2 DEF Outstanding
    <2>3. CASE s # 2
      <3>1. Outstanding(2)
        BY <1>1, <2>1, <2>3 DEF ForgottenIsOutstanding
      <3> QED
        BY <2>1, <2>3, <3>1 DEF Outstanding, AllSent
    <2> QED
      BY <2>2, <2>3
  <1>4. CASE Flush
    <2>1. /\ store # <<>> /\ store' = Tail(store)
          /\ fresh' = fresh /\ silent' = silent
          /\ StationPublishes(Head(store)) /\ Head(store) \in StationEvents
      BY <1>4, TailFacts DEF Flush, StationTypes, StationEvents
    <2>2. CASE Head(store).sourceId = 2
      BY <2>1, <2>2, PublishedIsUnsent DEF Outstanding
    <2>3. CASE Head(store).sourceId # 2
      <3>1. eventMissed'[2] = (eventMissed[2] /\ 2 # Head(store).sourceId)
        BY <1>1, <2>1 DEF StationPublishes
      <3>2. ~eventMissed[2]
        BY <2>3, <3>1, Zenon
      <3>3. Outstanding(2)
        BY <1>1, <2>1, <3>2 DEF ForgottenIsOutstanding, StationPublishes
      <3>4. AllSent(2)' => AllSent(2)
        BY <2>1, PublishedIsUnsent
      <3>5. Absent(store', 2) => Absent(store, 2)
        BY <2>1, <2>3, AbsentBehindHead DEF StationTypes
      <3> QED
        BY <2>1, <3>3, <3>4, <3>5 DEF Outstanding, StationPublishes
    <2> QED
      BY <2>2, <2>3
  <1>5. CASE WorldMoves \/ EncoderRefused \/ UNCHANGED systemVars
    <2>1. /\ UNCHANGED <<fresh, store, outbox, sent, uplink, eventMissed,
                         lastCommand>>
          /\ silent \subseteq silent'
      BY <1>5 DEF WorldMoves, EncoderRefused
    <2> QED
      BY <1>1, <2>1 DEF ForgottenIsOutstanding, Outstanding, AllSent
  <1>6. CASE Reboot
    <2>1. fresh' = wired \ {Encoder}
      BY <1>6 DEF Reboot
    <2> QED
      BY <1>1, <2>1 DEF Encoder
  <1>7. CASE Faults /\ BackendRestarts
    BY <1>1, <1>7 DEF BackendRestarts
  <1>8. CASE Beyond /\ Transport
    <2>1. UNCHANGED <<fresh, silent, store>>
      BY <1>8 DEF Beyond, EventArrives, ErpSets, Delivery, Faults
    <2>2. /\ ~eventMissed[2] /\ lastCommand = "forgotten"
          /\ AllSent(2)' /\ Absent(uplink', 2) => AllSent(2) /\ Absent(uplink, 2)
      BY <1>1, <1>8, TransportKeepsOutstanding
    <2> QED
      BY <1>1, <2>1, <2>2 DEF ForgottenIsOutstanding, Outstanding
  <1>9. CASE FlushDropsUnserializable
    <2>1. /\ store # <<>> /\ store' = Tail(store)
          /\ silent' = silent \cup {Head(store).sourceId}
          /\ UNCHANGED <<fresh, outbox, sent, uplink, eventMissed, lastCommand>>
      BY <1>9 DEF FlushDropsUnserializable
    <2>2. 2 \notin silent /\ Head(store).sourceId # 2
      BY <2>1
    <2>3. Outstanding(2)
      BY <1>1, <2>1, <2>2 DEF ForgottenIsOutstanding
    <2>4. Absent(store', 2) => Absent(store, 2)
      BY <2>1, <2>2, TailKeepsStore
    <2> QED
      BY <2>1, <2>3, <2>4 DEF Outstanding, AllSent
  <1>10. Beyond => (Faults /\ BackendRestarts) \/ (Beyond /\ Transport)
    BY DEF Beyond, Transport, EventArrives, ErpSets, Delivery, Faults
  <1> QED
    BY <1>2, <1>3, <1>4, <1>5, <1>6, <1>7, <1>8, <1>9, <1>10
       DEF SystemNext, Station, Beyond

LEMMA WantsStep ==
    ASSUME MessageTypes, CommandsTyped, WantsWhatToggleSays,
           [SystemNext]_systemVars
    PROVE  WantsWhatToggleSays'
  <1>1. CASE EventArrives
    <2> DEFINE e == Head(uplink)
    <2>1. /\ workstation' = WorkstationAfter(workstation, e)
          /\ overridden' = (overridden /\ e.type # "ToggleChanged")
      BY <1>1 DEF EventArrives, HandleMessage
    <2>2. workstation \in Workstations
      BY DEF CommandsTyped
    <2>3. CASE e.type = "ToggleChanged"
      <3>1. workstation'.desired = workstation'.task
        BY <2>1, <2>2, <2>3 DEF WorkstationAfter, Workstations
      <3> QED
        BY <3>1 DEF WantsWhatToggleSays
    <2>4. CASE e.type # "ToggleChanged"
      <3>1. /\ workstation'.desired = workstation.desired
            /\ workstation'.task = workstation.task
        BY <2>1, <2>2, <2>4 DEF WorkstationAfter, Workstations
      <3>2. overridden' <=> overridden
        BY <2>1, <2>4, Zenon
      <3> QED
        BY <3>1, <3>2 DEF WantsWhatToggleSays
    <2> QED
      BY <2>3, <2>4
  <1>2. CASE ErpSets
    BY <1>2 DEF ErpSets, WantsWhatToggleSays
  <1>3. CASE Faults /\ BackendRestarts
    BY <1>3 DEF BackendRestarts, NewWorkstation, WantsWhatToggleSays
  <1>4. CASE UNCHANGED <<workstation, overridden>>
    BY <1>4 DEF WantsWhatToggleSays
  <1>5. EventArrives \/ ErpSets \/ (Faults /\ BackendRestarts)
           \/ UNCHANGED <<workstation, overridden>>
    BY DEF SystemNext, WorldMoves, Station, ReportPublished, ReportBuffered,
           EncoderRefused, Flush, FlushDropsUnserializable, Reboot, Delivery,
           Faults, StationPublishes, StationRestarts, Transmit, BrokerAcknowledges, StationObeys,
           StationReconnects, OutboxExpires, BackendAway, StationAway
  <1> QED
    BY <1>1, <1>2, <1>3, <1>4, <1>5

LEMMA LampSystemInvariant == SystemSpec => []LampSystemInv
  <1>1. SystemInit => LampSystemInv
    BY DEF SystemInit, Init, NewWorkstation, LampSystemInv,
           WantsWhatToggleSays, ForgottenIsOutstanding
  <1>2. /\ MessageTypes /\ CommandsTyped /\ StationTypes /\ LampSystemInv
        /\ [SystemNext]_systemVars
        => LampSystemInv'
    BY ForgottenStep, WantsStep DEF LampSystemInv
  <1> QED
    BY <1>1, <1>2, StationInvariant, SystemIsMiddleware, LampInvariant, PTL
       DEF SystemSpec

(* handle_event() answers every toggle event, known or not: after a reboot *)
(* of either side, lamp, workstation and toggle agree as soon as the       *)
(* toggle's first report has been answered.                                *)
THEOREM LampShowsToggle == SystemSpec => []LampIsToggle
  <1>1. StationTypes /\ CommandsTyped /\ LampInv /\ LampSystemInv /\ ViewIsPosition
           => LampIsToggle
    <2>1. ASSUME StationTypes, CommandsTyped, LampInv, LampSystemInv, ViewIsPosition,
                 Settled, downlink = <<>>, lastCommand # "missed", 2 \in wired,
                 ~Due(2), ~Unknown(2), ~overridden
          PROVE  output = position[2]
      <3>1. workstation.task = position[2]
        BY <2>1 DEF ViewIsPosition, Shown, Moved, Slider, WorkstationValue
      <3>2. workstation.desired = workstation.task
        BY <2>1 DEF LampSystemInv, WantsWhatToggleSays
      <3>3. lastCommand # "forgotten"
        <4>1. 2 \notin fresh /\ 2 \notin silent /\ ~eventMissed[2]
          BY <2>1 DEF Due, Unknown
        <4>2. ~Outstanding(2)
          BY <2>1, NothingSays DEF Settled, Outstanding, AllSent
        <4> QED
          BY <2>1, <4>1, <4>2 DEF LampSystemInv, ForgottenIsOutstanding
      <3>4. lastCommand = "kept"
        BY <2>1, <3>3 DEF CommandsTyped
      <3> QED
        BY <2>1, <3>1, <3>2, <3>4 DEF LampInv
    <2> QED
      BY <2>1 DEF LampIsToggle
  <1> QED
    BY <1>1, StationInvariant, LampSystemInvariant, SystemIsMiddleware,
       LampInvariant, ViewShowsPositions, PTL

=============================================================================
