--------------------------- MODULE NetworkProofs ---------------------------
(***************************************************************************)
(* The network side of a station, in two parts that share nothing.  The    *)
(* Wi-Fi station, for an event loop and an event queue of any size: its    *)
(* flag says what is the case, and a station that may reconnect is never   *)
(* left idle with nobody about to ask the driver.  And the MQTT payloads,  *)
(* for integer types of any width and objects of any size: firmware and    *)
(* middleware read the same in them.                                       *)
(***************************************************************************)
EXTENDS WifiManager, Wire, SequenceTheorems, TLAPS

USE DEF vars, wifiVars

(***************************************************************************)
(* The Wi-Fi station (WifiManager)                                         *)
(***************************************************************************)
DriverEvents == {"start", "disconnected", "gotIp"}

(* What is inductive of the types.                                         *)
WifiTypes ==
    /\ events \in Seq(DriverEvents)
    /\ connected \in BOOLEAN /\ reconnectEnabled \in BOOLEAN
    /\ refused \in BOOLEAN
    /\ driver \in {"off", "idle", "connecting", "online"}
    /\ handler \in {"idle", "check", "reconnect"}
    /\ caller \in {"idle", "connect", "disconnect"}

(* The event that waits longest unhandled says what connected_ will be.    *)
LastEventTells ==
    IF events = <<>>
    THEN connected <=> driver = "online"
    ELSE driver = "online" <=> events[Len(events)] = "gotIp"

(* The start event comes first, before any connection.                     *)
StartComesFirst ==
    /\ \A i \in 1..Len(events) : events[i] = "start" => i = 1 /\ ~connected
    /\ driver = "off" => events = <<>> /\ ~connected

WifiInv == WifiTypes /\ LastEventTells /\ StartComesFirst /\ NeverStranded

(* Handling an event takes it off the front: the others move up by one.    *)
LEMMA FrontHandled ==
    ASSUME NEW s \in Seq(DriverEvents), s # <<>>
    PROVE  /\ Head(s) = s[1] /\ Head(s) \in DriverEvents
           /\ Tail(s) \in Seq(DriverEvents)
           /\ Len(Tail(s)) = Len(s) - 1 /\ Len(s) \in Nat \ {0}
           /\ \A i \in 1..Len(Tail(s)) : Tail(s)[i] = s[i + 1]
           /\ Tail(s) = <<>> <=> Len(s) = 1
  <1>1. Len(s) \in Nat \ {0} /\ Head(s) = s[1] /\ s[1] \in DriverEvents
    OBVIOUS
  <1>2. /\ Tail(s) \in Seq(DriverEvents) /\ Len(Tail(s)) = Len(s) - 1
        /\ \A i \in 1..Len(Tail(s)) : Tail(s)[i] = s[i + 1]
    OBVIOUS
  <1>3. Tail(s) = <<>> <=> Len(s) = 1
    <2>1. Tail(s) = <<>> => Len(Tail(s)) = 0
      BY EmptySeq
    <2>2. Tail(s) # <<>> => Len(Tail(s)) # 0
      BY <1>2, EmptySeq
    <2> QED
      BY <1>1, <1>2, <2>1, <2>2
  <1> QED
    BY <1>1, <1>2, <1>3

(* Posting an event puts it last.                                          *)
LEMMA EventPosted ==
    ASSUME NEW s \in Seq(DriverEvents), NEW e \in DriverEvents
    PROVE  /\ Append(s, e) \in Seq(DriverEvents) /\ Append(s, e) # <<>>
           /\ Len(Append(s, e)) = Len(s) + 1 /\ Len(s) \in Nat
           /\ Append(s, e)[Len(s) + 1] = e
           /\ \A i \in 1..Len(s) : Append(s, e)[i] = s[i]
  OBVIOUS

(***************************************************************************)
(* The four parts of the invariant under steps that leave the events alone.*)
(***************************************************************************)
(* A request changes an idle driver only, and leaves nobody stranded.      *)
LEMMA RequestMade ==
    ASSUME RequestConnect, WifiTypes
    PROVE  /\ driver' \in {"off", "idle", "connecting", "online"}
           /\ refused' \in BOOLEAN
           /\ driver' = "online" <=> driver = "online"
           /\ driver' = "off" <=> driver = "off"
           /\ driver' = "idle" => refused'
  BY DEF RequestConnect, WifiTypes

(* Every step of the driver, the handler and the caller keeps it.          *)
LEMMA WifiInductive == WifiInv /\ [Next]_vars => WifiInv'
<1>. SUFFICES ASSUME WifiInv, [Next]_vars PROVE WifiInv'
  OBVIOUS
<1>. USE DEF WifiInv
<1>1. CASE DriverGetsIp
  <2>1. events' = Append(events, "gotIp") /\ driver' = "online"
    BY <1>1 DEF DriverGetsIp, Post
  <2>. QED  BY <1>1, <2>1, EventPosted DEF DriverGetsIp, WifiTypes,
              LastEventTells, StartComesFirst, NeverStranded, DriverEvents
<1>2. CASE DriverDisconnects
  <2>1. events' = Append(events, "disconnected") /\ driver' = "idle"
    BY <1>2 DEF DriverDisconnects, Post
  <2>. QED  BY <1>2, <2>1, EventPosted DEF DriverDisconnects, WifiTypes,
              LastEventTells, StartComesFirst, NeverStranded, DriverEvents
<1>3. CASE Initialize
  <2>1. events' = Append(events, "start") /\ driver' = "idle"
    BY <1>3 DEF Initialize, Post
  <2>. QED  BY <1>3, <2>1, EventPosted DEF Initialize, WifiTypes,
              LastEventTells, StartComesFirst, NeverStranded, DriverEvents
<1>4. CASE OnStart
  <2>1. /\ events # <<>> /\ events[1] = "start" /\ events' = Tail(events)
        /\ UNCHANGED <<connected, reconnectEnabled, handler, caller>>
    BY <1>4, FrontHandled DEF OnStart, Handling, WifiTypes
  <2>2. RequestConnect /\ WifiTypes
    BY <1>4 DEF OnStart
  <2>. QED  BY <2>1, <2>2, FrontHandled, RequestMade DEF WifiTypes,
              LastEventTells, StartComesFirst, NeverStranded, DriverEvents
<1>5. CASE OnDisconnected
  <2>1. /\ events # <<>> /\ events[1] = "disconnected"
        /\ events' = Tail(events)
    BY <1>5, FrontHandled DEF OnDisconnected, Handling, WifiTypes
  <2>2. /\ connected' = FALSE /\ handler' = "check"
        /\ UNCHANGED <<driver, reconnectEnabled, caller, refused>>
    BY <1>5 DEF OnDisconnected
  <2>3. WifiTypes' /\ NeverStranded'
    BY <2>1, <2>2, FrontHandled DEF WifiTypes, NeverStranded
  <2>4. LastEventTells' /\ StartComesFirst'
    BY <2>1, <2>2, FrontHandled DEF WifiTypes, LastEventTells, StartComesFirst
  <2>. QED  BY <2>3, <2>4
<1>6. CASE OnGotIp
  <2>1. events # <<>> /\ events[1] = "gotIp" /\ events' = Tail(events)
    BY <1>6, FrontHandled DEF OnGotIp, Handling, WifiTypes
  <2>2. /\ connected' = TRUE
        /\ UNCHANGED <<driver, reconnectEnabled, handler, caller, refused>>
    BY <1>6 DEF OnGotIp
  <2>3. WifiTypes'
    BY <2>1, <2>2, FrontHandled DEF WifiTypes
  <2>4. NeverStranded'
    <3>1. ASSUME NEW i \in 1..Len(events),
                 events[i] \in {"start", "disconnected"}
          PROVE  \E j \in 1..Len(events') :
                    events'[j] \in {"start", "disconnected"}
      <4>1. i # 1
        BY <2>1, <3>1
      <4>2. i - 1 \in 1..Len(events') /\ events'[i - 1] = events[i]
        BY <2>1, <4>1, FrontHandled DEF WifiTypes
      <4>. QED  BY <3>1, <4>2
    <3>. QED  BY <2>2, <3>1 DEF NeverStranded
  <2>5. LastEventTells'
    BY <2>1, <2>2, FrontHandled DEF WifiTypes, LastEventTells
  <2>6. StartComesFirst'
    BY <2>1, <2>2, FrontHandled DEF WifiTypes, StartComesFirst
  <2>. QED  BY <2>3, <2>4, <2>5, <2>6
<1>7. CASE DisconnectRequests
  <2>1. CASE driver = "idle"
    BY <1>7, <2>1 DEF DisconnectRequests, WifiTypes, LastEventTells,
                      StartComesFirst, NeverStranded
  <2>2. CASE driver # "idle"
    <3>1. events' = Append(events, "disconnected") /\ driver' = "idle"
      BY <1>7, <2>2 DEF DisconnectRequests, Post
    <3>. QED  BY <1>7, <3>1, EventPosted DEF DisconnectRequests, WifiTypes,
                LastEventTells, StartComesFirst, NeverStranded, DriverEvents
  <2>. QED  BY <2>1, <2>2
<1>8. CASE Reconnect \/ ConnectRequests
  <2>1. RequestConnect /\ UNCHANGED <<events, connected, reconnectEnabled>>
    BY <1>8 DEF Reconnect, ConnectRequests
  <2>. QED  BY <1>8, <2>1, RequestMade DEF Reconnect, ConnectRequests,
              WifiTypes, LastEventTells, StartComesFirst, NeverStranded
<1>9. CASE CheckReconnect
  BY <1>9 DEF CheckReconnect, WifiTypes, LastEventTells, StartComesFirst,
              NeverStranded
<1>10. CASE Call
  BY <1>10 DEF Call, WifiTypes, LastEventTells, StartComesFirst, NeverStranded
<1>11. CASE AccessPointChanges \/ ApplicationReceives \/ UNCHANGED vars
  BY <1>11 DEF AccessPointChanges, ApplicationReceives, WifiTypes,
               LastEventTells, StartComesFirst, NeverStranded
<1>. QED  BY <1>1, <1>2, <1>3, <1>4, <1>5, <1>6, <1>7, <1>8, <1>9, <1>10,
            <1>11 DEF Next, HandlerTask, CallerTask

(* Before initialize() there are no events and nobody is stranded.         *)
LEMMA WifiStarts == Init => WifiInv
<1>. SUFFICES ASSUME Init PROVE WifiInv
  OBVIOUS
<1>1. events = <<>> /\ events \in Seq(DriverEvents) /\ Len(events) = 0
  BY EmptySeq DEF Init
<1>2. WifiTypes /\ NeverStranded
  BY <1>1 DEF Init, WifiTypes, NeverStranded
<1>3. LastEventTells /\ StartComesFirst
  BY <1>1 DEF Init, LastEventTells, StartComesFirst
<1>. QED  BY <1>2, <1>3 DEF WifiInv

(* However losses, disconnect() and connect() interleave with the handler, *)
(* an idle station that may reconnect has been refused or will be asked    *)
(* for: WifiManager's retry of "ordinary connection loss" has no gap.      *)
THEOREM StationNeverStranded == Spec => []NeverStranded
<1>1. WifiInv => NeverStranded
  BY DEF WifiInv
<1>. QED  BY <1>1, WifiStarts, WifiInductive, PTL DEF Spec

(* isConnected() tells the driver's state whenever no event is pending.    *)
THEOREM ConnectedStaysCurrent == Spec => []ConnectedIsCurrent
<1>1. WifiInv => ConnectedIsCurrent
  BY DEF WifiInv, LastEventTells, ConnectedIsCurrent
<1>. QED  BY <1>1, WifiStarts, WifiInductive, PTL DEF Spec

(* Neither the queue nor the event loop outgrows its size.                 *)
SizesOK == QueueTypeOK /\ accessPoint \in BOOLEAN /\ Len(events) <= MaxEvents

(* The two notices the handler sends are events; a full queue keeps out    *)
(* what it cannot hold.                                                    *)
LEMMA NoticeSent ==
    ASSUME QueueTypeOK, NEW type \in LinkTypes, NEW up \in BOOLEAN,
           SendOrDrop(LinkEvent(type, up))
    PROVE  QueueTypeOK'
<1>1. LinkEvent(type, up) \in EventRecords
  BY DEF LinkEvent, Event, EventRecords, EventTypes, Values
<1>2. CASE QueueHasRoom
  <2>1. queue' = Append(queue, LinkEvent(type, up))
    BY <1>2 DEF SendOrDrop
  <2>2. /\ Append(queue, LinkEvent(type, up)) \in Seq(EventRecords)
        /\ Len(queue') = Len(queue) + 1 /\ Len(queue) \in Nat
    BY <1>1, <2>1 DEF QueueTypeOK
  <2>. QED  BY <1>2, <2>1, <2>2, QueueCapacityAssumption
            DEF QueueTypeOK, QueueHasRoom
<1>3. CASE ~QueueHasRoom
  BY <1>3 DEF SendOrDrop, QueueTypeOK
<1>. QED  BY <1>2, <1>3

(* The application takes the oldest notice off its queue.                  *)
LEMMA NoticeReceived ==
    ASSUME QueueTypeOK, Receive
    PROVE  QueueTypeOK'
<1>1. queue # <<>> /\ queue' = Tail(queue)
  BY DEF Receive
<1>2. queue \in Seq(EventRecords) /\ Len(queue) <= QueueCapacity
  BY DEF QueueTypeOK
<1>3. /\ Tail(queue) \in Seq(EventRecords)
      /\ Len(Tail(queue)) = Len(queue) - 1 /\ Len(queue) \in Nat
  BY <1>1, <1>2
<1>4. Len(Tail(queue)) <= QueueCapacity
  BY <1>2, <1>3, QueueCapacityAssumption
<1>. QED  BY <1>1, <1>3, <1>4 DEF QueueTypeOK

(* Post() asks for room first, and handling makes some.                    *)
LEMMA SizesKept == WifiInv /\ SizesOK /\ [Next]_vars => SizesOK'
<1>. SUFFICES ASSUME WifiInv, SizesOK, [Next]_vars PROVE SizesOK'
  OBVIOUS
<1>1. events \in Seq(DriverEvents) /\ Len(events) \in Nat
  BY DEF WifiInv, WifiTypes
<1>2. ASSUME NEW e \in DriverEvents, Post(e)
      PROVE  Len(events') <= MaxEvents
  BY <1>1, <1>2, EventPosted, MaxEventsAssumption DEF Post, CanPost
<1>3. ASSUME NEW e, Handling(e)
      PROVE  Len(events') <= MaxEvents
  BY <1>1, <1>3, FrontHandled, MaxEventsAssumption DEF Handling, SizesOK
<1>4. UNCHANGED queue => QueueTypeOK'
  BY DEF SizesOK, QueueTypeOK
<1>5. CASE DriverGetsIp \/ DriverDisconnects \/ Initialize
  BY <1>2, <1>4, <1>5 DEF DriverGetsIp, DriverDisconnects, Initialize,
                          DriverEvents, SizesOK
<1>6. CASE AccessPointChanges
  BY <1>4, <1>6 DEF AccessPointChanges, SizesOK
<1>7. CASE OnStart
  BY <1>3, <1>4, <1>7 DEF OnStart, SizesOK
<1>8. CASE OnDisconnected
  <2>1. QueueTypeOK'
    BY <1>8, NoticeSent DEF OnDisconnected, SizesOK, LinkTypes
  <2>. QED  BY <1>3, <1>8, <2>1 DEF OnDisconnected, SizesOK
<1>9. CASE OnGotIp
  <2>1. QueueTypeOK'
    BY <1>9, NoticeSent DEF OnGotIp, SizesOK, LinkTypes
  <2>. QED  BY <1>3, <1>9, <2>1 DEF OnGotIp, SizesOK
<1>10. CASE CheckReconnect \/ Reconnect \/ ConnectRequests \/ Call
  BY <1>4, <1>10 DEF CheckReconnect, Reconnect, ConnectRequests, Call, SizesOK
<1>11. CASE DisconnectRequests
  BY <1>2, <1>4, <1>11 DEF DisconnectRequests, DriverEvents, SizesOK
<1>12. CASE ApplicationReceives
  BY <1>12, NoticeReceived DEF ApplicationReceives, SizesOK
<1>13. CASE UNCHANGED vars
  BY <1>4, <1>13 DEF SizesOK
<1>. QED  BY <1>5, <1>6, <1>7, <1>8, <1>9, <1>10, <1>11, <1>12, <1>13
          DEF Next, HandlerTask, CallerTask

(* The manager's fields, its queue and the event loop keep their types.    *)
THEOREM WifiTypesKept == Spec => []TypeOK
<1>1. Init => SizesOK
  BY EmptySeq, QueueCapacityAssumption, MaxEventsAssumption
     DEF Init, QueueInit, QueueTypeOK, SizesOK
<1>2. WifiInv /\ SizesOK => TypeOK
  BY DEF WifiInv, WifiTypes, DriverEvents, SizesOK, TypeOK
<1>. QED  BY <1>1, <1>2, WifiStarts, WifiInductive, SizesKept, PTL DEF Spec

(***************************************************************************)
(* The MQTT payloads (Wire): station events                                *)
(***************************************************************************)
(* What the firmware writes of what it publishes, the middleware takes.    *)
LEMMA PublishedIsTaken ==
    ASSUME NEW e \in PublishedEvents, NEW n \in SequenceIds
    PROVE  LET data == SerializeEvent(Event(e.type, e.sourceId, e.value, n))
           IN  ParseEvent(data) = data
  <1> DEFINE data == SerializeEvent(Event(e.type, e.sourceId, e.value, n))
  <1>1. /\ data.event_type = eventTypeToString(e.type)
        /\ data.source_id = e.sourceId /\ data.value = e.value
        /\ data.sequence_id = n
    BY DEF SerializeEvent, Event
  <1> HIDE DEF data
  <1>2. SUFFICES
          /\ eventTypeToString(e.type) \in DOMAIN INPUTS
          /\ e.sourceId = INPUTS[eventTypeToString(e.type)][1]
          /\ e.value \in INPUTS[eventTypeToString(e.type)][2]
                         ..INPUTS[eventTypeToString(e.type)][3]
    BY <1>1 DEF ParseEvent, data
  <1>3. CASE e.type = "ButtonPressed"
    <2>1. eventTypeToString(e.type) = "button_pressed"
      BY <1>3 DEF eventTypeToString
    <2>2. e.sourceId = 1 /\ e.value = 1
      BY <1>3 DEF PublishedEvents
    <2> QED
      BY <2>1, <2>2 DEF INPUTS
  <1>4. CASE e.type = "ButtonReleased"
    <2>1. eventTypeToString(e.type) = "button_released"
      BY <1>4 DEF eventTypeToString
    <2>2. e.sourceId = 1 /\ e.value = 0
      BY <1>4 DEF PublishedEvents
    <2> QED
      BY <2>1, <2>2 DEF INPUTS
  <1>5. CASE e.type = "ToggleChanged"
    <2>1. eventTypeToString(e.type) = "toggle_changed"
      BY <1>5 DEF eventTypeToString
    <2>2. e.sourceId = 2 /\ e.value \in {0, 1}
      BY <1>5 DEF PublishedEvents
    <2> QED
      BY <2>1, <2>2 DEF INPUTS
  <1>6. CASE e.type = "EncoderChanged"
    <2>1. eventTypeToString(e.type) = "encoder_changed"
      BY <1>6 DEF eventTypeToString
    <2>2. e.sourceId = 3 /\ e.value \in Int32Min..Int32Max
      BY <1>6, LimitsAssumption DEF PublishedEvents
    <2> QED
      BY <2>1, <2>2 DEF INPUTS
  <1>7. CASE e.type = "AnalogChanged"
    <2>1. eventTypeToString(e.type) = "analog_changed"
      BY <1>7 DEF eventTypeToString
    <2>2. e.sourceId = 4 /\ e.value \in 0..100
      BY <1>7 DEF PublishedEvents
    <2> QED
      BY <2>1, <2>2 DEF INPUTS
  <1>8. CASE e.type = "Heartbeat"
    <2>1. eventTypeToString(e.type) = "heartbeat"
      BY <1>8 DEF eventTypeToString
    <2>2. e.sourceId = 0 /\ e.value \in 0..Int32Max
      BY <1>8, LimitsAssumption DEF PublishedEvents
    <2> QED
      BY <2>1, <2>2 DEF INPUTS
  <1>9. CASE e.type = "SyncRequested"
    <2>1. eventTypeToString(e.type) = "sync_requested"
      BY <1>9 DEF eventTypeToString
    <2>2. e.sourceId = 0 /\ e.value \in Int32Min..Int32Max
      BY <1>9, LimitsAssumption DEF PublishedEvents
    <2> QED
      BY <2>1, <2>2 DEF INPUTS
  <1>10. CASE e.type = "FaultDetected"
    <2>1. eventTypeToString(e.type) = "fault_detected"
      BY <1>10 DEF eventTypeToString
    <2>2. e.sourceId = 0 /\ e.value \in Int32Min..Int32Max
      BY <1>10, LimitsAssumption DEF PublishedEvents
    <2> QED
      BY <2>1, <2>2 DEF INPUTS
  <1> QED
    BY <1>3, <1>4, <1>5, <1>6, <1>7, <1>8, <1>9, <1>10 DEF PublishedEvents

(***************************************************************************)
(* Commands, taken apart twice                                             *)
(***************************************************************************)
(* cJSON's strings end at the first NUL; a text without one is untouched. *)
LEMMA CutAtNul ==
    ASSUME NEW s
    PROVE  CString(Text(s)) = Text(s) /\ CString(WithNul(s)) # WithNul(s)
  <1> DEFINE Pieces == {s, "NUL", "junk"}
  <1>1. ASSUME NEW t \in Seq(Pieces), Len(t) >= 1
        PROVE  /\ CString(t) \in Seq(Pieces) /\ Len(CString(t)) = 1
               /\ CString(t)[1] = t[1]
    BY <1>1, SubSeqProperties DEF CString
  <1>2. Text(s) \in Seq(Pieces) /\ Len(Text(s)) = 1 /\ Text(s)[1] = s
    BY DEF Text
  <1>3. WithNul(s) \in Seq(Pieces) /\ Len(WithNul(s)) = 3
    BY DEF WithNul
  <1> HIDE DEF Pieces
  <1>4. CString(Text(s)) = Text(s)
    BY <1>1, <1>2, SeqEqual
  <1>5. CString(WithNul(s)) # WithNul(s)
    BY <1>1, <1>3
  <1> QED
    BY <1>4, <1>5

(* The two keys differ, and none with a NUL is a name of the contract.     *)
LEMMA FourNames ==
    /\ Text("command") # Text("value")
    /\ WithNul("value") \notin {Text("command"), Text("value")}
    /\ WithNul("set_output") \notin {Text("set_output"), Text("set_state")}
  <1>1. "command" # "value"
    OBVIOUS
  <1> QED
    BY <1>1, CutAtNul DEF Text

(* json_object and the exact key set.                                      *)
ExactKeys(p) ==
    /\ \A i, j \in DOMAIN p.fields :
          p.fields[i].key = p.fields[j].key => i = j
    /\ {p.fields[i].key : i \in DOMAIN p.fields}
          = {Text("command"), Text("value")}

ItemIndexPython(p, name) ==
    CHOOSE i \in DOMAIN p.fields : p.fields[i].key = Text(name)

(* A JSON object of at most 512 bytes, whatever its fields.                *)
IsObject(p) ==
    /\ p.top = "object" /\ p.fits = TRUE
    /\ \E n \in Nat : p.fields \in [1..n -> Fields]

(* What keys and strings the fields of an object have.                      *)
LEMMA ObjectFields ==
    ASSUME NEW p, IsObject(p)
    PROVE  /\ Len(p.fields) \in Nat /\ DOMAIN p.fields = 1..Len(p.fields)
           /\ \A i \in 1..Len(p.fields) :
                 /\ p.fields[i].key \in Keys
                 /\ p.fields[i].value.kind = "string" =>
                       p.fields[i].value.text \in
                          {Text("set_output"), Text("set_state"),
                           Text("true"), WithNul("set_output")}
  <1>1. PICK n \in Nat : p.fields \in [1..n -> Fields]
    BY DEF IsObject
  <1>2. Len(p.fields) = n /\ DOMAIN p.fields = 1..n
    BY <1>1
  <1>3. ASSUME NEW i \in 1..n
        PROVE  /\ p.fields[i].key \in Keys
               /\ p.fields[i].value.kind = "string" =>
                     p.fields[i].value.text \in
                        {Text("set_output"), Text("set_state"),
                         Text("true"), WithNul("set_output")}
    <2>1. p.fields[i] \in Fields
      BY <1>1
    <2>2. p.fields[i].key \in Keys /\ p.fields[i].value \in JsonValues
      BY <2>1 DEF Fields
    <2> QED
      BY <2>2 DEF JsonValues
  <1> QED
    BY <1>2, <1>3

(* The exact keys name one field each.                                     *)
LEMMA PythonFinds ==
    ASSUME NEW p, IsObject(p), ExactKeys(p), NEW i \in 1..Len(p.fields)
    PROVE  /\ p.fields[i].key \in {Text("command"), Text("value")}
           /\ \A name : p.fields[i].key = Text(name)
                           => ItemIndexPython(p, name) = i
  <1>1. DOMAIN p.fields = 1..Len(p.fields)
    BY ObjectFields
  <1>2. p.fields[i].key \in {Text("command"), Text("value")}
    BY <1>1 DEF ExactKeys
  <1>3. ASSUME NEW name, p.fields[i].key = Text(name)
        PROVE  ItemIndexPython(p, name) = i
    <2>1. /\ ItemIndexPython(p, name) \in DOMAIN p.fields
          /\ p.fields[ItemIndexPython(p, name)].key = Text(name)
      BY <1>1, <1>3 DEF ItemIndexPython
    <2> QED
      BY <1>1, <1>3, <2>1 DEF ExactKeys
  <1> QED
    BY <1>2, <1>3

(* A NUL that the firmware looks for is one that protocol.py never takes:  *)
(* not as a key, not as the name of a command, not as a value.             *)
LEMMA NulRefusedByBoth ==
    ASSUME NEW p, IsObject(p), ~NulFree(p)
    PROVE  ParseCommandPython(p) = Rejected
  <1> SUFFICES ASSUME ExactKeys(p)
               PROVE  ParseCommandPython(p) = Rejected
    BY DEF ParseCommandPython, ExactKeys
  <1> DEFINE command == p.fields[ItemIndexPython(p, "command")].value
             value == p.fields[ItemIndexPython(p, "value")].value
  <1>1. PICK text \in Strings(p) : text # CString(text)
    BY DEF NulFree
  <1>2. DOMAIN p.fields = 1..Len(p.fields)
    BY ObjectFields
  <1>3. CASE \E i \in 1..Len(p.fields) : text = p.fields[i].key
    <2>1. PICK i \in 1..Len(p.fields) : text = p.fields[i].key
      BY <1>3
    <2>2. text = WithNul("value")
      BY <1>1, <2>1, ObjectFields, CutAtNul DEF Keys
    <2>3. text \in {Text("command"), Text("value")}
      BY <2>1, PythonFinds
    <2> QED
      BY <2>2, <2>3, FourNames
  <1>4. CASE \E i \in 1..Len(p.fields) :
                p.fields[i].value.kind = "string"
                   /\ text = p.fields[i].value.text
    <2>1. PICK i \in 1..Len(p.fields) :
                p.fields[i].value.kind = "string"
                   /\ text = p.fields[i].value.text
      BY <1>4
    <2>2. text = WithNul("set_output")
      BY <1>1, <2>1, ObjectFields, CutAtNul
    <2>3. CASE p.fields[i].key = Text("command")
      <3>1. command.text \notin {Text("set_output"), Text("set_state")}
        BY <2>1, <2>2, <2>3, PythonFinds, FourNames
      <3> QED
        BY <3>1 DEF ParseCommandPython, ItemIndexPython
    <2>4. CASE p.fields[i].key = Text("value")
      <3>1. value.kind = "string"
        BY <2>1, <2>4, PythonFinds
      <3> QED
        BY <3>1 DEF ParseCommandPython, ItemIndexPython
    <2> QED
      BY <2>3, <2>4, PythonFinds
  <1> QED
    BY <1>1, <1>2, <1>3, <1>4 DEF Strings

(* Without one, cJSON's strings are the texts.                             *)
LEMMA FreeOfNul ==
    ASSUME NEW p, IsObject(p), NulFree(p), NEW i \in 1..Len(p.fields)
    PROVE  /\ CString(p.fields[i].key) = p.fields[i].key
           /\ p.fields[i].key \in {Text("command"), Text("value")}
           /\ p.fields[i].value.kind = "string" =>
                 CString(p.fields[i].value.text) = p.fields[i].value.text
  <1>1. DOMAIN p.fields = 1..Len(p.fields)
    BY ObjectFields
  <1>2. p.fields[i].key \in Strings(p)
    BY <1>1 DEF Strings
  <1>3. p.fields[i].value.kind = "string" =>
           p.fields[i].value.text \in Strings(p)
    BY <1>1 DEF Strings
  <1>4. CString(p.fields[i].key) = p.fields[i].key
    BY <1>2 DEF NulFree
  <1>5. p.fields[i].key # WithNul("value")
    BY <1>4, CutAtNul
  <1> QED
    BY <1>3, <1>4, <1>5, ObjectFields DEF NulFree, Keys

(* Two fields with both names are the exact keys.                          *)
LEMMA SameKeys ==
    ASSUME NEW p, IsObject(p), NulFree(p)
    PROVE  /\ ExactKeys(p) <=> /\ Len(p.fields) = 2
                               /\ HasItem(p, "command") /\ HasItem(p, "value")
           /\ ExactKeys(p) =>
                 \A name \in {"command", "value"} :
                    /\ ItemIndex(p, name) = ItemIndexPython(p, name)
                    /\ ItemIndex(p, name) \in 1..Len(p.fields)
  <1>1. Len(p.fields) \in Nat /\ DOMAIN p.fields = 1..Len(p.fields)
    BY ObjectFields
  <1>2. \A name : HasItem(p, name) <=>
            \E i \in 1..Len(p.fields) : p.fields[i].key = Text(name)
    BY <1>1, FreeOfNul DEF HasItem
  <1>3. ASSUME ExactKeys(p)
        PROVE  /\ Len(p.fields) = 2
               /\ HasItem(p, "command") /\ HasItem(p, "value")
    <2>1. PICK c \in 1..Len(p.fields) : p.fields[c].key = Text("command")
      BY <1>1, <1>3 DEF ExactKeys
    <2>2. PICK v \in 1..Len(p.fields) : p.fields[v].key = Text("value")
      BY <1>1, <1>3 DEF ExactKeys
    <2>3. c # v
      BY <2>1, <2>2, FourNames
    <2>4. ASSUME NEW i \in 1..Len(p.fields)
          PROVE  i = c \/ i = v
      <3>1. \/ p.fields[i].key = p.fields[c].key
            \/ p.fields[i].key = p.fields[v].key
        BY <2>1, <2>2, FreeOfNul
      <3>2. \A j \in 1..Len(p.fields) :
               p.fields[i].key = p.fields[j].key => i = j
        BY <1>1, <1>3 DEF ExactKeys
      <3> QED
        BY <3>1, <3>2
    <2>5. Len(p.fields) = 2
      <3>1. Len(p.fields) >= 2
        BY <1>1, <2>3
      <3>2. ~(Len(p.fields) >= 3)
        <4>1. ASSUME Len(p.fields) >= 3
              PROVE  FALSE
          <5>1. 1 \in 1..Len(p.fields) /\ 2 \in 1..Len(p.fields)
                   /\ 3 \in 1..Len(p.fields)
            BY <1>1, <4>1
          <5> QED
            BY <2>4, <5>1
        <4> QED
          BY <4>1
      <3>3. \A n \in Nat : n >= 2 /\ ~(n >= 3) => n = 2
        OBVIOUS
      <3> QED
        BY <1>1, <3>1, <3>2, <3>3, Zenon
    <2> QED
      BY <1>2, <2>1, <2>2, <2>5
  <1>4. ASSUME Len(p.fields) = 2, HasItem(p, "command"), HasItem(p, "value")
        PROVE  ExactKeys(p)
    <2>1. PICK c \in 1..2 : p.fields[c].key = Text("command")
      BY <1>2, <1>4
    <2>2. PICK v \in 1..2 : p.fields[v].key = Text("value")
      BY <1>2, <1>4
    <2>3. c # v
      BY <2>1, <2>2, FourNames
    <2>4. DOMAIN p.fields = {c, v}
      BY <1>1, <1>4, <2>3
    <2> QED
      BY <2>1, <2>2, <2>4, FourNames DEF ExactKeys
  <1>5. ASSUME ExactKeys(p), NEW name \in {"command", "value"}
        PROVE  /\ ItemIndex(p, name) = ItemIndexPython(p, name)
               /\ ItemIndex(p, name) \in 1..Len(p.fields)
    <2>1. PICK k \in 1..Len(p.fields) : p.fields[k].key = Text(name)
      BY <1>2, <1>3, <1>5
    <2>2. \A i \in 1..Len(p.fields) : p.fields[i].key = Text(name) => i = k
      BY <1>1, <1>5, <2>1 DEF ExactKeys
    <2>3. ItemIndexPython(p, name) = k
      BY <1>5, <2>1, PythonFinds
    <2>4. /\ k \in DOMAIN p.fields /\ CString(p.fields[k].key) = Text(name)
          /\ \A j \in 1..(k - 1) : CString(p.fields[j].key) # Text(name)
      <3>1. ASSUME NEW j \in 1..(k - 1)
            PROVE  CString(p.fields[j].key) # Text(name)
        <4>1. j \in 1..Len(p.fields) /\ j # k
          BY <1>1
        <4> QED
          BY <2>2, <4>1, FreeOfNul
      <3> QED
        BY <1>1, <2>1, <3>1, FreeOfNul
    <2>5. /\ ItemIndex(p, name) \in DOMAIN p.fields
          /\ CString(p.fields[ItemIndex(p, name)].key) = Text(name)
      BY <2>4 DEF ItemIndex
    <2>6. ItemIndex(p, name) = k
      BY <1>1, <2>2, <2>5, FreeOfNul
    <2> QED
      BY <2>3, <2>6
  <1> QED
    BY <1>3, <1>4, <1>5

(* The two parsers agree on every object, and on everything else too.      *)
LEMMA ParsersAgree ==
    ASSUME NEW p, IsObject(p) \/ p.top # "object" \/ p.fits # TRUE
    PROVE  parseCommand(p) = ParseCommandPython(p)
  <1>1. CASE ~IsObject(p)
    <2>1. ~p.fits \/ p.top # "object"
      BY <1>1
    <2> QED
      BY <2>1 DEF parseCommand, ParseCommandPython
  <1>2. CASE IsObject(p) /\ ~NulFree(p)
    <2>1. parseCommand(p) = Rejected
      BY <1>2 DEF parseCommand
    <2> QED
      BY <1>2, <2>1, NulRefusedByBoth
  <1>3. CASE IsObject(p) /\ NulFree(p) /\ ~ExactKeys(p)
    <2>1. parseCommand(p) = Rejected
      BY <1>3, SameKeys DEF parseCommand
    <2>2. ParseCommandPython(p) = Rejected
      BY <1>3 DEF ParseCommandPython, ExactKeys
    <2> QED
      BY <2>1, <2>2
  <1>4. CASE IsObject(p) /\ NulFree(p) /\ ExactKeys(p)
    <2> DEFINE command == p.fields[ItemIndexPython(p, "command")].value
               value == p.fields[ItemIndexPython(p, "value")].value
               Valid == \/ value.kind = "bool"
                        \/ value.kind = "number" /\ value.halves \in {0, 2}
    <2>1. /\ ItemIndex(p, "command") = ItemIndexPython(p, "command")
          /\ ItemIndex(p, "value") = ItemIndexPython(p, "value")
          /\ ItemIndex(p, "command") \in 1..Len(p.fields)
          /\ Len(p.fields) = 2 /\ HasItem(p, "command") /\ HasItem(p, "value")
      BY <1>4, SameKeys
    <2>2. command.kind = "string" => CString(command.text) = command.text
      BY <1>4, <2>1, FreeOfNul
    <2>3. p.fits /\ p.top = "object"
      BY <1>4 DEF IsObject
    <2>4. parseCommand(p) =
             IF /\ command.kind = "string" /\ Valid
                /\ CString(command.text) \in
                      {Text("set_output"), Text("set_state")}
             THEN Command(CString(command.text)[1], TruthOf(value))
             ELSE Rejected
      BY <1>4, <2>1, <2>3 DEF parseCommand
    <2>5. ParseCommandPython(p) =
             IF /\ command.kind = "string"
                /\ command.text \in {Text("set_output"), Text("set_state")}
                /\ Valid
             THEN Command(command.text[1], TruthOf(value))
             ELSE Rejected
      BY <1>4, <2>3 DEF ParseCommandPython, ExactKeys, ItemIndexPython
    <2> HIDE DEF command, value
    <2> QED
      BY <2>2, <2>4, <2>5
  <1> QED
    BY <1>1, <1>2, <1>3, <1>4

(* A payload that fits and has an object at the top is such an object.      *)
LEMMA PayloadsAreObjects ==
    ASSUME NEW p \in Payloads
    PROVE  IsObject(p) \/ p.top # "object" \/ p.fits # TRUE
  <1>1. CASE p.top = "object" /\ p.fits = TRUE
    <2>1. p.fields \in UNION {[1..n -> Fields] : n \in 0..MaxFields}
      BY <1>1 DEF Payloads
    <2>2. PICK n \in 0..MaxFields : p.fields \in [1..n -> Fields]
      BY <2>1
    <2>3. \E m \in Nat : p.fields \in [1..m -> Fields]
      <3>1. n \in Nat
        BY MaxFieldsAssumption
      <3> QED
        BY <2>2, <3>1
    <2>4. IsObject(p)
      BY <1>1, <2>3, Zenon DEF IsObject
    <2> QED
      BY <2>4
  <1> QED
    BY <1>1

(* make_command's two fields say what it was asked to say.                 *)
LEMMA MadeIsMeant ==
    ASSUME NEW name \in {"set_output", "set_state"}, NEW on \in BOOLEAN
    PROVE  parseCommand(MakeCommand(name, on)) = Command(name, on)
  <1> DEFINE p == MakeCommand(name, on)
             c == [key |-> Text("command"),
                   value |-> [kind |-> "string", text |-> Text(name)]]
             v == [key |-> Text("value"), value |-> [kind |-> "bool", is |-> on]]
  <1>1. p.top = "object" /\ p.fits = TRUE /\ p.fields = <<c, v>>
    BY DEF MakeCommand
  <1>2. c \in Fields /\ v \in Fields
    BY DEF Fields, Keys, JsonValues
  <1>3. /\ c.key = Text("command") /\ v.key = Text("value")
        /\ c.value.kind = "string" /\ c.value.text = Text(name)
        /\ v.value.kind = "bool" /\ v.value.is = on
    OBVIOUS
  <1> HIDE DEF p, c, v
  <1>4. p.fields \in [1..2 -> Fields] /\ DOMAIN p.fields = {1, 2}
           /\ p.fields[1] = c /\ p.fields[2] = v
    BY <1>1, <1>2
  <1>5. IsObject(p)
    BY <1>1, <1>4 DEF IsObject
  <1>6. ExactKeys(p)
    BY <1>3, <1>4, FourNames DEF ExactKeys
  <1>7. ItemIndexPython(p, "command") = 1 /\ ItemIndexPython(p, "value") = 2
    <2>1. 1 \in 1..Len(p.fields) /\ 2 \in 1..Len(p.fields)
      BY <1>4
    <2> QED
      BY <1>3, <1>4, <1>5, <1>6, <2>1, PythonFinds
  <1>8. Text(name) \in {Text("set_output"), Text("set_state")}
           /\ Text(name)[1] = name
    BY DEF Text
  <1>9. ParseCommandPython(p) = Command(name, on)
    <2>1. p.fields[1].value.text[1] = name
      BY <1>3, <1>4, <1>8
    <2>2. TruthOf(p.fields[2].value) = on
      BY <1>3, <1>4 DEF TruthOf
    <2>3. ParseCommandPython(p) =
             Command(p.fields[1].value.text[1], TruthOf(p.fields[2].value))
      BY <1>1, <1>3, <1>4, <1>6, <1>7, <1>8
         DEF ParseCommandPython, ExactKeys, ItemIndexPython
    <2> QED
      BY <2>1, <2>2, <2>3
  <1>10. parseCommand(p) = Command(name, on)
    BY <1>5, <1>9, ParsersAgree
  <1> QED
    BY <1>10 DEF p

(***************************************************************************)
(* The traffic                                                             *)
(***************************************************************************)
WireInv ==
    nextSequenceId \in SequenceIds /\ EventsUnderstood /\ SameCommands

LEMMA WireStarts ==
    ASSUME WireInit
    PROVE  WireInv
  BY LimitsAssumption
     DEF WireInit, WireInv, SequenceIds, EventsUnderstood, SameCommands

LEMMA WireStep ==
    ASSUME WireInv, [WireNext]_wireVars
    PROVE  WireInv'
  <1> USE DEF WireInv
  <1>1. CASE EventCrosses
    <2>1. PICK e \in PublishedEvents :
             firmware' = SerializeEvent(Event(e.type, e.sourceId, e.value,
                                              nextSequenceId))
      BY <1>1 DEF EventCrosses
    <2>2. middleware' = firmware'
      BY <1>1, <2>1, PublishedIsTaken DEF EventCrosses
    <2>3. nextSequenceId' \in SequenceIds
      BY <1>1, LimitsAssumption DEF EventCrosses, SequenceIds
    <2>4. topic' = "events"
      BY <1>1 DEF EventCrosses
    <2> QED
      BY <2>2, <2>3, <2>4 DEF EventsUnderstood, SameCommands
  <1>2. CASE CommandCrosses
    <2>1. PICK p \in Payloads : /\ firmware' = parseCommand(p)
                                /\ middleware' = ParseCommandPython(p)
      BY <1>2 DEF CommandCrosses
    <2>2. middleware' = firmware'
      BY <2>1, PayloadsAreObjects, ParsersAgree
    <2>3. topic' = "commands" /\ nextSequenceId' = nextSequenceId
      BY <1>2 DEF CommandCrosses
    <2> QED
      BY <2>2, <2>3 DEF EventsUnderstood, SameCommands
  <1>3. CASE MadeCommandCrosses
    <2>1. PICK name \in {"set_output", "set_state"}, on \in BOOLEAN :
             /\ middleware' = Command(name, on)
             /\ firmware' = parseCommand(MakeCommand(name, on))
      BY <1>3 DEF MadeCommandCrosses
    <2>2. middleware' = firmware'
      BY <2>1, MadeIsMeant
    <2>3. topic' = "commands" /\ nextSequenceId' = nextSequenceId
      BY <1>3 DEF MadeCommandCrosses
    <2> QED
      BY <2>2, <2>3 DEF EventsUnderstood, SameCommands
  <1>4. CASE Handled
    BY <1>4 DEF Handled, EventsUnderstood, SameCommands
  <1>5. CASE UNCHANGED wireVars
    BY <1>5 DEF wireVars, EventsUnderstood, SameCommands
  <1> QED
    BY <1>1, <1>2, <1>3, <1>4, <1>5 DEF WireNext

LEMMA WireInvariant == WireSpec => []WireInv
  BY WireStarts, WireStep, PTL DEF WireSpec

(* MessageSerializer::serializeEvent and protocol.parse_event, for integer *)
(* types of any width: what the firmware may publish, at the limits of its *)
(* values and after any number of wraps of the sequence counter, is taken  *)
(* for what it is.                                                         *)
THEOREM EventsAreUnderstood == WireSpec => []EventsUnderstood
  <1>1. WireInv => EventsUnderstood
    BY DEF WireInv
  <1> QED
    BY <1>1, WireInvariant, PTL

(* MessageSerializer::parseCommand and protocol.parse_command, for objects *)
(* with any number of fields: they take the same commands for the same,    *)
(* and make_command's for what it meant.                                   *)
THEOREM CommandsAreTheSame == WireSpec => []SameCommands
  <1>1. WireInv => SameCommands
    BY DEF WireInv
  <1> QED
    BY <1>1, WireInvariant, PTL

=============================================================================
