------------------------------- MODULE Events -------------------------------
(***************************************************************************)
(* The events of events/Event.hpp: everything the tasks of a station say   *)
(* to one another travels as one of these records.  timestampMs is left    *)
(* out: no decision of the firmware reads it.                              *)
(***************************************************************************)
EXTENDS Integers, FiniteSets

CONSTANTS
    Inputs,   \* source ids of the inputs that are wired: a subset of 1..4
    Counts    \* the encoder counts and analog percentages told apart

ASSUME InputsAssumption == Inputs \subseteq 1..4
ASSUME CountsAssumption == Counts \subseteq Int

(* DeviceConfig.hpp numbers the inputs 1 button, 2 toggle, 3 encoder,      *)
(* 4 analog; 0 is the source of commands, connectivity and heartbeats.     *)
SystemSource == 0

InputTypes ==
    {"ButtonPressed", "ButtonReleased", "ToggleChanged", "EncoderChanged",
     "AnalogChanged"}

CommandTypes == {"SetOutput", "RemoteStateUpdate"}

LinkTypes ==
    {"WifiConnected", "WifiDisconnected", "MqttConnected", "MqttDisconnected"}

EventTypes == InputTypes \cup CommandTypes \cup LinkTypes
                \cup {"SyncRequested", "FaultDetected", "Heartbeat", "None"}

Values == {0, 1} \cup Counts

Event(type, sourceId, value, sequenceId) ==
    [type |-> type, sourceId |-> sourceId, value |-> value,
     sequenceId |-> sequenceId]

EventRecords ==
    [type : EventTypes, sourceId : Inputs \cup {SystemSource}, value : Values,
     sequenceId : Nat]

NoEvent == Event("None", SystemSource, 0, 0)

(* The only types an input of each source produces, and their values.      *)
SourceOf(type) ==
    CASE type \in {"ButtonPressed", "ButtonReleased"} -> 1
      [] type = "ToggleChanged"  -> 2
      [] type = "EncoderChanged" -> 3
      [] type = "AnalogChanged"  -> 4
      [] OTHER -> SystemSource

ValuesOf(type) ==
    CASE type = "ButtonPressed" -> {1}
      [] type = "ButtonReleased" -> {0}
      [] type = "ToggleChanged" -> {0, 1}
      [] OTHER -> Counts

(* What a driver sends: no sequence id yet, Application gives it one.      *)
InputEvents ==
    {e \in [type : InputTypes, sourceId : Inputs, value : Values,
            sequenceId : {0}] :
        /\ e.sourceId = SourceOf(e.type)
        /\ e.value \in ValuesOf(e.type)}

(* What MessageSerializer::parseCommand makes of a valid command.          *)
CommandEvents ==
    [type : CommandTypes, sourceId : {SystemSource}, value : {0, 1},
     sequenceId : {0}]

LinkEvent(type, up) ==
    Event(type, SystemSource, IF up THEN 1 ELSE 0, 0)

Heartbeat == Event("Heartbeat", SystemSource, 0, 0)

=============================================================================
