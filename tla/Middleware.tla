----------------------------- MODULE Middleware -----------------------------
(***************************************************************************)
(* backend/service.py and backend/odoo_adapter.py, one station, and the    *)
(* MQTT sessions between them.  The backend runs in Paho's network thread  *)
(* only, so a message is handled in one step.                              *)
(*                                                                         *)
(* External: the station's esp-mqtt outbox, which keeps a QoS 1 message    *)
(* until the broker acknowledges it, sends all of it again after a lost    *)
(* connection and lets messages expire; the broker's in-order delivery to  *)
(* sessions that keep nothing while a client is away.                      *)
(***************************************************************************)
EXTENDS Events, SequencesExt

CONSTANTS
    SystemEvents,  \* the system events the station sends
    MaxOutbox,     \* bound: messages the broker has not acknowledged
    MaxTransit     \* bound: messages on their way, in each direction

ASSUME SystemEventsAssumption ==
    SystemEvents \subseteq {"Heartbeat", "FaultDetected", "SyncRequested"}
ASSUME MaxOutboxAssumption == MaxOutbox \in Nat \ {0}
ASSUME MaxTransitAssumption == MaxTransit \in Nat \ {0}

VARIABLES
    outbox,       \* external: accepted by the station's client, oldest first
    sent,         \* external: how many of them this connection has sent
    uplink,       \* external: events between broker and backend
    workstation,  \* MockOdooAdapter.workstations[station]
    downlink,     \* external: commands on their way to the station
    output,       \* the station's output state
    \* History, read by no action:
    current,      \* the last value the station published, per input
    eventMissed,  \* an event of the input expired or found no backend since
    lastCommand   \* "kept", "missed": refused or without a station, or
                  \*   "forgotten": a restart has undone what it did

stationVars == <<outbox, sent, current>>
commandVars == <<downlink, output, lastCommand>>
vars == <<stationVars, uplink, workstation, eventMissed, commandVars>>

(* protocol.py's INPUTS: what parse_event accepts, without the numbers.    *)
StationEvents ==
    InputEvents \cup {[Heartbeat EXCEPT !.type = t] : t \in SystemEvents}

(* class Workstation's defaults.                                           *)
NewWorkstation ==
    [button |-> 0, task |-> 0, target |-> 0, progress |-> 0, desired |-> 0,
     fault |-> 0]

Init ==
    /\ outbox = <<>> /\ sent = 0 /\ uplink = <<>>
    /\ workstation = NewWorkstation
    /\ downlink = <<>> /\ output = 0
    /\ current = [s \in Inputs |-> 0]
    /\ eventMissed = [s \in Inputs |-> FALSE] /\ lastCommand = "kept"

Marked(missed, e) ==
    [s \in Inputs |-> missed[s] \/ s = e.sourceId]

(***************************************************************************)
(* From the station to the backend                                         *)
(***************************************************************************)
StationPublishes(e) ==
    /\ Len(outbox) < MaxOutbox
    /\ outbox' = Append(outbox, e)
    /\ current' = [s \in Inputs |->
                      IF s = e.sourceId THEN e.value ELSE current[s]]
    /\ eventMissed' = [s \in Inputs |-> eventMissed[s] /\ s # e.sourceId]
    /\ UNCHANGED <<sent, uplink, workstation, commandVars>>

Transmit ==
    /\ sent < Len(outbox) /\ Len(uplink) < MaxTransit
    /\ uplink' = Append(uplink, outbox[sent + 1])
    /\ sent' = sent + 1
    /\ UNCHANGED <<outbox, current, workstation, eventMissed, commandVars>>

BrokerAcknowledges ==
    /\ sent > 0
    /\ outbox' = Tail(outbox) /\ sent' = sent - 1
    /\ UNCHANGED <<current, uplink, workstation, eventMissed, commandVars>>

(* All that was not acknowledged goes out again, in order.                 *)
StationReconnects ==
    /\ sent' = 0
    /\ UNCHANGED <<outbox, current, uplink, workstation, eventMissed,
                   commandVars>>

OutboxExpires ==
    /\ \E i \in 1..Len(outbox) :
          /\ outbox' = RemoveAt(outbox, i)
          /\ sent' = IF i <= sent THEN sent - 1 ELSE sent
          /\ eventMissed' = Marked(eventMissed, outbox[i])
    /\ UNCHANGED <<current, uplink, workstation, commandVars>>

(* The backend is not connected.                                           *)
BackendAway ==
    /\ uplink # <<>>
    /\ uplink' = Tail(uplink)
    /\ eventMissed' = Marked(eventMissed, Head(uplink))
    /\ UNCHANGED <<stationVars, workstation, commandVars>>

(***************************************************************************)
(* handle_message()                                                        *)
(***************************************************************************)
(* Mutant: counts are increments.                                          *)
WorkstationAfterAdding(w, e) ==
    CASE e.type = "ToggleChanged" ->
            [w EXCEPT !.task = e.value, !.desired = e.value]
      [] e.type = "EncoderChanged" -> [w EXCEPT !.target = @ + e.value]
      [] OTHER -> w

(* MockOdooAdapter.handle_event: the workstation after the event ...       *)
WorkstationAfter(w, e) ==
    CASE e.type \in {"ButtonPressed", "ButtonReleased"} ->
            [w EXCEPT !.button = e.value]
      [] e.type = "ToggleChanged" ->
            [w EXCEPT !.task = e.value, !.desired = e.value]
      [] e.type = "EncoderChanged" -> [w EXCEPT !.target = e.value]
      [] e.type = "AnalogChanged"  -> [w EXCEPT !.progress = e.value]
      [] e.type = "FaultDetected"  -> [w EXCEPT !.fault = e.value]
      [] OTHER -> w

(* Mutant: only a toggle that tells something new is answered.             *)
AnsweredIfNew(e) ==
    \/ e.type = "ToggleChanged" /\ e.value # workstation.task
    \/ e.type = "SyncRequested"

(* ... and the event types it answers with a command.                      *)
Answered(e) == e.type \in {"ToggleChanged", "SyncRequested"}

(* client.publish() queues the command, or reports failure and queues it   *)
(* all the same (not connected) or not at all (too many queued).           *)
PublishCommand(value) ==
    \/ /\ Len(downlink) < MaxTransit
       /\ downlink' = Append(downlink, value)
       /\ lastCommand' = "kept"
       /\ UNCHANGED output
    \/ /\ lastCommand' = "missed"
       /\ UNCHANGED <<downlink, output>>

(* The workstation is changed first; when publish() then fails, the        *)
(* exception is logged and nothing is taken back or tried again.           *)
HandleMessage ==
    /\ uplink # <<>>
    /\ uplink' = Tail(uplink)
    /\ LET e == Head(uplink) IN
          /\ workstation' = WorkstationAfter(workstation, e)
          /\ IF Answered(e)
             THEN PublishCommand(workstation'.desired)
             ELSE UNCHANGED commandVars
    /\ UNCHANGED <<stationVars, eventMissed>>

(* Mutant: the ERP's own change is not recorded.                           *)
SetRemoteStateUnrecorded ==
    /\ \E on \in {0, 1} : PublishCommand(on)
    /\ UNCHANGED <<stationVars, uplink, workstation, eventMissed>>

(* set_remote_state(), whose caller publishes what it returns.             *)
SetRemoteState ==
    /\ \E on \in {0, 1} :
          /\ workstation' = [workstation EXCEPT !.desired = on]
          /\ PublishCommand(on)
    /\ UNCHANGED <<stationVars, uplink, eventMissed>>

(***************************************************************************)
(* From the backend to the station                                         *)
(***************************************************************************)
(* The station's application task sets its output, possibly for a command  *)
(* that is delivered once more.                                            *)
StationObeys ==
    /\ downlink # <<>>
    /\ output' = Head(downlink)
    /\ downlink' \in {downlink, Tail(downlink)}
    /\ UNCHANGED <<stationVars, uplink, workstation, eventMissed,
                   lastCommand>>

(* The station is not subscribed, or its event queue is full.              *)
StationAway ==
    /\ downlink # <<>>
    /\ downlink' = Tail(downlink)
    /\ lastCommand' = IF Len(downlink) = 1 THEN "missed" ELSE lastCommand
    /\ UNCHANGED <<stationVars, uplink, workstation, eventMissed, output>>

(***************************************************************************)
(* Restarts: neither side keeps anything.                                  *)
(***************************************************************************)
Lost(messages) == [s \in Inputs |-> \E i \in DOMAIN messages :
                                       messages[i].sourceId = s]

(* A reboot: the outbox is RAM, and LedDriver::initialize() switches off.  *)
StationRestarts ==
    /\ outbox' = <<>> /\ sent' = 0
    /\ LET unsent == Lost(SubSeq(outbox, sent + 1, Len(outbox)))
       IN  eventMissed' = [s \in Inputs |-> eventMissed[s] \/ unsent[s]]
    /\ output' = 0 /\ lastCommand' = "forgotten"
    /\ UNCHANGED <<current, uplink, workstation, downlink>>

(* A new MockOdooAdapter: every workstation is back at its defaults, and   *)
(* the broker keeps nothing for a session that is gone.                    *)
BackendRestarts ==
    /\ workstation' = NewWorkstation
    /\ uplink' = <<>>
    /\ eventMissed' = [s \in Inputs |-> TRUE]
    /\ lastCommand' = "forgotten"
    /\ UNCHANGED <<stationVars, downlink, output>>

Next ==
    \/ \E e \in StationEvents : StationPublishes(e)
    \/ Transmit \/ BrokerAcknowledges
    \/ StationReconnects \/ OutboxExpires \/ BackendAway
    \/ HandleMessage \/ SetRemoteState \/ StationObeys \/ StationAway
    \/ StationRestarts \/ BackendRestarts

Spec == Init /\ [][Next]_vars

(***************************************************************************)
(* Properties                                                              *)
(***************************************************************************)
Messages(s) == s \in Seq(StationEvents)

(* Messages, workstation and output stay within the protocol's ranges.     *)
TypeOK ==
    /\ Messages(outbox) /\ Len(outbox) <= MaxOutbox
    /\ sent \in 0..Len(outbox)
    /\ Messages(uplink) /\ Len(uplink) <= MaxTransit
    /\ workstation \in [button : {0, 1}, task : {0, 1}, target : Values,
                        progress : Values, desired : {0, 1}, fault : Values]
    /\ downlink \in Seq({0, 1}) /\ Len(downlink) <= MaxTransit
    /\ output \in {0, 1} /\ lastCommand \in {"kept", "missed", "forgotten"}

WorkstationValue(s) ==
    CASE s = 1 -> workstation.button
      [] s = 2 -> workstation.task
      [] s = 3 -> workstation.target
      [] OTHER -> workstation.progress

(* "Inputs carry absolute values, so immediate QoS 1 duplicates are        *)
(* idempotent", and so is an outbox sent again from its oldest message on: *)
(* when nothing is on its way any more, the workstation shows the last     *)
(* value of each input, unless a message expired, nobody was listening, or *)
(* a restart lost it.                                                      *)
ViewIsCurrent ==
    outbox = <<>> /\ uplink = <<>> =>
        \A s \in Inputs : eventMissed[s] \/ WorkstationValue(s) = current[s]

(* The output the workstation wants is the last one the station was told;  *)
(* a missed command is made good by the next, and only the last counts.    *)
OutputFollows ==
    downlink = <<>> /\ lastCommand = "kept" => output = workstation.desired

=============================================================================
