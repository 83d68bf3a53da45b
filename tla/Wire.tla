-------------------------------- MODULE Wire --------------------------------
(***************************************************************************)
(* The two ends of the MQTT contract, written twice: the firmware's        *)
(* MessageSerializer.cpp in C++ on cJSON, the middleware's protocol.py in  *)
(* Python.  Both libraries are external and taken to read JSON as it is    *)
(* defined; cJSON hands out C strings, which end at the first NUL.  A text *)
(* is its list of fields, a repeated name appears twice.                   *)
(***************************************************************************)
EXTENDS Events, Sequences

CONSTANTS
    Int32Min, Int32Max, UInt32Max,   \* scaled: the limits of the C++ types
    MaxFields                        \* bound: fields of a payload

ASSUME LimitsAssumption ==
    /\ Int32Min \in Int /\ Int32Min < 0
    /\ Int32Max \in Nat /\ 100 <= Int32Max /\ UInt32Max \in Nat \ {0}
ASSUME MaxFieldsAssumption == MaxFields \in Nat

VARIABLES
    nextSequenceId,  \* nextSequenceId_, a std::uint32_t
    topic,           \* the topic of the message on the wire, or "none"
    firmware,        \* what the firmware means by it
    middleware       \* what the middleware means by it

wireVars == <<nextSequenceId, topic, firmware, middleware>>

Rejected == [rejected |-> TRUE]

(***************************************************************************)
(* Station events                                                          *)
(***************************************************************************)
(* The types Application::shouldPublish lets out.                          *)
eventTypeToString(type) ==
    CASE type = "ButtonPressed"  -> "button_pressed"
      [] type = "ButtonReleased" -> "button_released"
      [] type = "ToggleChanged"  -> "toggle_changed"
      [] type = "EncoderChanged" -> "encoder_changed"
      [] type = "AnalogChanged"  -> "analog_changed"
      [] type = "SyncRequested"  -> "sync_requested"
      [] type = "Heartbeat"      -> "heartbeat"
      [] type = "FaultDetected"  -> "fault_detected"
      [] OTHER -> "none"

SerializeEvent(e) ==
    [event_type |-> eventTypeToString(e.type), source_id |-> e.sourceId,
     value |-> e.value, sequence_id |-> e.sequenceId]

(* INPUTS: source, lowest and highest value of each event type.            *)
INPUTS ==
    [button_pressed  |-> <<1, 1, 1>>,
     button_released |-> <<1, 0, 0>>,
     toggle_changed  |-> <<2, 0, 1>>,
     encoder_changed |-> <<3, Int32Min, Int32Max>>,
     analog_changed  |-> <<4, 0, 100>>,
     heartbeat       |-> <<0, 0, Int32Max>>,
     fault_detected  |-> <<0, Int32Min, Int32Max>>,
     sync_requested  |-> <<0, Int32Min, Int32Max>>]

(* Mutant: sequence ids start at one, so none of them is zero.             *)
SequenceIdsFromOne == 1..UInt32Max

SequenceIds == 0..UInt32Max

ParseEvent(data) ==
    IF /\ data.event_type \in DOMAIN INPUTS
       /\ data.sequence_id \in SequenceIds
       /\ data.source_id = INPUTS[data.event_type][1]
       /\ data.value \in INPUTS[data.event_type][2]..INPUTS[data.event_type][3]
    THEN data ELSE Rejected

(* What reaches publishOrBuffer(): the drivers' events, the heartbeat with *)
(* the free heap, and the system events, with values at their limits.      *)
PublishedEvents ==
    LET limits == {Int32Min, -1, 0, 1, Int32Max}
    IN  [type : {"ButtonPressed"}, sourceId : {1}, value : {1}]
          \cup [type : {"ButtonReleased"}, sourceId : {1}, value : {0}]
          \cup [type : {"ToggleChanged"}, sourceId : {2}, value : {0, 1}]
          \cup [type : {"EncoderChanged"}, sourceId : {3}, value : limits]
          \cup [type : {"AnalogChanged"}, sourceId : {4}, value : {0, 1, 100}]
          \cup [type : {"Heartbeat"}, sourceId : {0}, value : limits \cap Nat]
          \cup [type : {"SyncRequested", "FaultDetected"}, sourceId : {0},
                value : limits]

(***************************************************************************)
(* Commands                                                                *)
(***************************************************************************)
(* A string is the sequence of its pieces; a number counts halves.         *)
Text(s) == <<s>>
WithNul(s) == <<s, "NUL", "junk">>
CString(text) == SubSeq(text, 1, 1)

Keys == {Text("command"), Text("value"), WithNul("value")}
JsonValues ==
    [kind : {"string"},
     text : {Text("set_output"), Text("set_state"), Text("true"),
             WithNul("set_output")}]
      \cup [kind : {"bool"}, is : BOOLEAN]
      \cup [kind : {"number"}, halves : {-2, 0, 1, 2, 4}]
      \cup [kind : {"other"}]       \* null, arrays and objects

Fields == [key : Keys, value : JsonValues]

(* top: a JSON object, another JSON value, or no JSON (junk after the      *)
(* object, a fragment); fits: at most 512 bytes.                           *)
Payloads ==
    [top : {"object"}, fits : {TRUE},
     fields : UNION {[1..n -> Fields] : n \in 0..MaxFields}]
      \cup [top : {"object"}, fits : {FALSE},
            fields : {<<[key |-> Text("command"), value |->
                           [kind |-> "string", text |-> Text("set_output")]],
                        [key |-> Text("value"), value |->
                           [kind |-> "bool", is |-> TRUE]]>>}]
      \cup [top : {"value", "malformed"}, fits : BOOLEAN, fields : {<<>>}]

Strings(p) ==
    {p.fields[i].key : i \in DOMAIN p.fields}
      \cup {p.fields[i].value.text :
              i \in {j \in DOMAIN p.fields : p.fields[j].value.kind = "string"}}

Command(name, on) == [command |-> name, value |-> on]

TruthOf(v) == IF v.kind = "bool" THEN v.is ELSE v.halves = 2

(* cJSON_GetObjectItemCaseSensitive: the first item of that name.          *)
ItemIndex(p, name) ==
    CHOOSE i \in DOMAIN p.fields :
        /\ CString(p.fields[i].key) = Text(name)
        /\ \A j \in 1..(i - 1) : CString(p.fields[j].key) # Text(name)

HasItem(p, name) ==
    \E i \in DOMAIN p.fields : CString(p.fields[i].key) = Text(name)

(* Mutant: the payload is not searched for NULs before it is parsed.       *)
NulUnchecked(p) == TRUE

NulFree(p) == \A text \in Strings(p) : text = CString(text)

(* MessageSerializer::parseCommand                                         *)
parseCommand(p) ==
    IF /\ p.fits /\ NulFree(p) /\ p.top = "object"
       /\ Len(p.fields) = 2 /\ HasItem(p, "command") /\ HasItem(p, "value")
    THEN LET command == p.fields[ItemIndex(p, "command")].value
             value == p.fields[ItemIndex(p, "value")].value
         IN  IF /\ command.kind = "string"
                /\ \/ value.kind = "bool"
                   \/ value.kind = "number" /\ value.halves \in {0, 2}
                /\ CString(command.text) \in
                      {Text("set_output"), Text("set_state")}
             THEN Command(CString(command.text)[1], TruthOf(value))
             ELSE Rejected
    ELSE Rejected

(* protocol.parse_command: json_object refuses a repeated key, the key set *)
(* has to be exact, and a bool counts before the numbers are looked at.    *)
ParseCommandPython(p) ==
    IF /\ p.fits /\ p.top = "object"
       /\ \A i, j \in DOMAIN p.fields :
             p.fields[i].key = p.fields[j].key => i = j
       /\ {p.fields[i].key : i \in DOMAIN p.fields}
             = {Text("command"), Text("value")}
    THEN LET Item(name) ==
                 p.fields[CHOOSE i \in DOMAIN p.fields :
                              p.fields[i].key = Text(name)].value
         IN  IF /\ Item("command").kind = "string"
                /\ Item("command").text \in
                      {Text("set_output"), Text("set_state")}
                /\ \/ Item("value").kind = "bool"
                   \/ /\ Item("value").kind = "number"
                      /\ Item("value").halves \in {0, 2}
             THEN Command(Item("command").text[1], TruthOf(Item("value")))
             ELSE Rejected
    ELSE Rejected

(* make_command                                                            *)
MakeCommand(name, on) ==
    [top |-> "object", fits |-> TRUE,
     fields |-> <<[key |-> Text("command"),
                   value |-> [kind |-> "string", text |-> Text(name)]],
                  [key |-> Text("value"),
                   value |-> [kind |-> "bool", is |-> on]]>>]

(***************************************************************************)
(* The traffic                                                             *)
(***************************************************************************)
WireInit ==
    /\ nextSequenceId = 1
    /\ topic = "none" /\ firmware = Rejected /\ middleware = Rejected

(* processEvent() numbers the event, the middleware reads it.              *)
EventCrosses ==
    /\ topic = "none" /\ topic' = "events"
    /\ \E e \in PublishedEvents :
          firmware' = SerializeEvent(Event(e.type, e.sourceId, e.value,
                                           nextSequenceId))
    /\ middleware' = ParseEvent(firmware')
    /\ nextSequenceId' = (nextSequenceId + 1) % (UInt32Max + 1)

(* Any text, the middleware's own commands among them.                     *)
CommandCrosses ==
    /\ topic = "none" /\ topic' = "commands"
    /\ \E p \in Payloads :
          firmware' = parseCommand(p) /\ middleware' = ParseCommandPython(p)
    /\ UNCHANGED nextSequenceId

(* The command the middleware meant, and what the firmware makes of it.    *)
MadeCommandCrosses ==
    /\ topic = "none" /\ topic' = "commands"
    /\ \E name \in {"set_output", "set_state"}, on \in BOOLEAN :
          /\ middleware' = Command(name, on)
          /\ firmware' = parseCommand(MakeCommand(name, on))
    /\ UNCHANGED nextSequenceId

Handled ==
    /\ topic # "none" /\ topic' = "none"
    /\ firmware' = Rejected /\ middleware' = Rejected
    /\ UNCHANGED nextSequenceId

WireNext ==
    EventCrosses \/ CommandCrosses \/ MadeCommandCrosses \/ Handled

WireSpec == WireInit /\ [][WireNext]_wireVars

(***************************************************************************)
(* Properties                                                              *)
(***************************************************************************)
(* Whatever the station may publish, at the limits of its types and across *)
(* the wrap of the sequence counter, is an event the middleware takes, and *)
(* takes for what it is.                                                   *)
EventsUnderstood == topic = "events" => middleware = firmware

(* tests/test_firmware_contract.py asks this of fourteen payloads: the two *)
(* parsers accept the same ones, and read the same command in them.        *)
SameCommands == topic = "commands" => middleware = firmware

=============================================================================
