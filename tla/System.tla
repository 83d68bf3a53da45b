------------------------------- MODULE System -------------------------------
(***************************************************************************)
(* One station and the middleware from end to end: the inputs of the world *)
(* on one side, the workstation's view of them on the other.  The station  *)
(* is what its own modules show of it: the drivers report a change, or the *)
(* first value, once (InputTask); an event is published if nothing waits,  *)
(* and waits in the offline store otherwise, from where it is published,   *)
(* or dropped when it cannot be serialized (Application).  Everything from *)
(* the outbox on is Middleware's.  Both sides may restart at any moment,   *)
(* and neither keeps anything.                                             *)
(***************************************************************************)
EXTENDS Middleware

CONSTANTS
    StoreCapacity,   \* OfflineEventStore's
    Deadband,        \* the slider's deadbandPercent_
    Detents,         \* bound: the counts the encoder may be at
    WiredSets        \* bound: the inputs a station may have

ASSUME WiredSetsAssumption == WiredSets \subseteq SUBSET Inputs
(* OFFLINE_EVENT_QUEUE_SIZE is 64, and a station has at most four inputs.  *)
ASSUME StoreHoldsInputs ==
    StoreCapacity \in Nat /\ Cardinality(Inputs) <= StoreCapacity
ASSUME DeadbandAssumption == Deadband \in Nat
(* The encoder counts from 0.                                              *)
ASSUME DetentsAssumption == Detents \subseteq Counts /\ 0 \in Detents

VARIABLES
    wired,       \* the inputs this station has, one of WiredSets
    position,    \* external: the value of each input
    told,        \* the value each driver compares with
    fresh,       \* inputs whose initialEventPending_ is set
    store,       \* events_ of the OfflineEventStore
    \* History, read by no action:
    silent,      \* inputs whose last report the station has thrown away
                 \*   itself, or that have not made one since the boot
    overridden   \* the ERP has set the output since the last toggle event

positionVars == <<wired, position>>
driverVars == <<told, fresh, silent>>
endVars == <<positionVars, driverVars, store>>
systemVars == <<endVars, overridden, vars>>

Buffer == INSTANCE OfflineEventStore WITH coalescedCount <- 0

Encoder == 3
Slider == 4

(* What an input can be at, and its driver can report.                     *)
PositionsOf(s) ==
    IF s \in {1, 2} THEN {0, 1} ELSE IF s = Encoder THEN Detents ELSE Counts

(* The drivers take the value they find, and owe a first report of it; the *)
(* encoder counts from zero, and owes none.                                *)
SystemInit ==
    /\ Init /\ store = <<>> /\ silent = {Encoder} /\ overridden = FALSE
    /\ wired \in WiredSets
    /\ position \in [Inputs -> Values]
    /\ \A s \in Inputs : position[s] \in IF s = Encoder \/ s \notin wired
                                         THEN {0} ELSE PositionsOf(s)
    /\ told = position /\ fresh = wired \ {Encoder}

(***************************************************************************)
(* The station                                                             *)
(***************************************************************************)
WorldMoves ==
    /\ \E s \in wired : \E v \in PositionsOf(s) \ {position[s]} :
          position' = [position EXCEPT ![s] = v]
    /\ UNCHANGED <<wired, driverVars, store, overridden, vars>>

(* The slider stays silent within its deadband of what it told.            *)
Moved(s, from) ==
    /\ from # position[s]
    /\ s = Slider => \/ from - position[s] >= Deadband
                     \/ position[s] - from >= Deadband

Due(s) == s \in fresh \/ Moved(s, told[s])

ReportOf(s) ==
    CHOOSE e \in InputEvents : e.sourceId = s /\ e.value = position[s]

Said(s) ==
    /\ Due(s)
    /\ told' = [told EXCEPT ![s] = position[s]] /\ fresh' = fresh \ {s}
    /\ silent' = silent \ {s}
    /\ UNCHANGED positionVars

(* Mutant: an event is published although older ones wait.                 *)
ReportPublishedPastStore(s) ==
    /\ Said(s)
    /\ StationPublishes(ReportOf(s)) /\ UNCHANGED <<store, overridden>>

(* publishOrBuffer(): older events go first.                               *)
ReportPublished(s) ==
    /\ Said(s)
    /\ store = <<>>
    /\ StationPublishes(ReportOf(s)) /\ UNCHANGED <<store, overridden>>

(* Not connected, out of memory, or the client's outbox is full.           *)
ReportBuffered(s) ==
    /\ Said(s)
    /\ store' = Buffer!Pushed(store, ReportOf(s))
    /\ UNCHANGED <<overridden, vars>>

(* RotaryEncoder::publishCount() ignores a full event queue.               *)
EncoderRefused ==
    /\ Encoder \in wired /\ Due(Encoder)
    /\ told' = [told EXCEPT ![Encoder] = position[Encoder]]
    /\ silent' = silent \cup {Encoder}
    /\ UNCHANGED <<positionVars, fresh, store, overridden, vars>>

Flush ==
    /\ store # <<>>
    /\ StationPublishes(Head(store)) /\ store' = Tail(store)
    /\ UNCHANGED <<positionVars, driverVars, overridden>>

(* There is no memory to serialize the oldest event: it is lost for good,  *)
(* and those behind it go on.                                              *)
FlushDropsUnserializable ==
    /\ store # <<>>
    /\ store' = Tail(store)
    /\ silent' = silent \cup {Head(store).sourceId}
    /\ UNCHANGED <<positionVars, told, fresh, overridden, vars>>

(* Mutant: the drivers do not report the value they start from.            *)
RebootUnreported ==
    /\ StationRestarts
    /\ store' = <<>> /\ silent' = {Encoder}
    /\ position' = [s \in Inputs |-> IF s = Encoder THEN 0 ELSE position[s]]
    /\ told' = position' /\ fresh' = {}
    /\ UNCHANGED <<wired, overridden>>

(* Store and outbox are lost; the drivers start anew.                      *)
Reboot ==
    /\ StationRestarts
    /\ store' = <<>> /\ silent' = {Encoder}
    /\ position' = [s \in Inputs |-> IF s = Encoder THEN 0 ELSE position[s]]
    /\ told' = position' /\ fresh' = wired \ {Encoder}
    /\ UNCHANGED <<wired, overridden>>

Station ==
    \/ \E s \in wired : ReportPublished(s) \/ ReportBuffered(s)
    \/ EncoderRefused \/ Flush \/ FlushDropsUnserializable \/ Reboot

(***************************************************************************)
(* The network and the middleware                                          *)
(***************************************************************************)
(* A toggle event takes the ERP's word back.                               *)
EventArrives ==
    /\ HandleMessage
    /\ overridden' = (overridden /\ Head(uplink).type # "ToggleChanged")
    /\ UNCHANGED endVars

(* Bound: the ERP sets the lamp of a station that has a toggle.  Without   *)
(* one, nothing here depends on the lamp.                                  *)
ErpSets ==
    /\ 2 \in wired
    /\ SetRemoteState /\ overridden' = TRUE
    /\ UNCHANGED endVars

Delivery ==
    /\ Transmit \/ BrokerAcknowledges \/ StationObeys
    /\ UNCHANGED <<endVars, overridden>>

Faults ==
    /\ \/ StationReconnects \/ OutboxExpires
       \/ BackendAway \/ StationAway \/ BackendRestarts
    /\ UNCHANGED <<endVars, overridden>>

SystemNext ==
    WorldMoves \/ Station \/ EventArrives \/ ErpSets \/ Delivery \/ Faults

SystemSpec == SystemInit /\ [][SystemNext]_systemVars

(* The tasks of the station run, the client sends what it holds, the       *)
(* broker acknowledges, and the backend handles what arrives.              *)
Fairness ==
    /\ WF_systemVars(\E s \in wired : ReportPublished(s) \/ ReportBuffered(s))
    /\ WF_systemVars(Flush)
    /\ WF_systemVars(Transmit /\ UNCHANGED <<endVars, overridden>>)
    /\ WF_systemVars(BrokerAcknowledges /\ UNCHANGED <<endVars, overridden>>)
    /\ WF_systemVars(EventArrives)

SystemFairSpec == SystemSpec /\ Fairness

(***************************************************************************)
(* Properties                                                              *)
(***************************************************************************)
(* Someone on the way, the station included, has thrown the input's last   *)
(* report away, or there was none.                                         *)
Unknown(s) == eventMissed[s] \/ s \in silent

(* What the driver would not report: the slider's value is shown within    *)
(* its deadband, any other exactly.                                        *)
Shown(s) == ~Moved(s, WorkstationValue(s))

Settled == outbox = <<>> /\ uplink = <<>> /\ store = <<>>

(* A reboot loses store and outbox (docs/known-limitations.md), but not    *)
(* the view: once nothing is on its way, the workstation shows where every *)
(* input stands, whatever order the outage, the replay, the retransmission *)
(* and the restarts came in, and the slider to within its deadband.  An    *)
(* encoder counts as known from its first report after the boot on, and an *)
(* input whose waiting event was dropped from its next report on.          *)
ViewIsPosition ==
    Settled => \A s \in wired : Due(s) \/ Unknown(s) \/ Shown(s)

(* After a reboot the lamp is off until the toggle's first report, or a    *)
(* later command, makes the middleware say again what it wants: when that  *)
(* has arrived, lamp, workstation and toggle agree, unless the ERP has     *)
(* said otherwise since.                                                   *)
LampIsToggle ==
    (/\ Settled /\ downlink = <<>> /\ lastCommand # "missed"
     /\ 2 \in wired /\ ~Due(2) /\ ~Unknown(2) /\ ~overridden)
       => output = position[2]

Disturbed ==
    position' # position \/ Faults \/ Reboot \/ EncoderRefused

(* Once the inputs rest and the link no longer fails, the view catches up, *)
(* though the flush may still drop what it cannot serialize: what is       *)
(* dropped does not hold up the rest.                                      *)
ViewCatchesUp ==
    <>[][~Disturbed]_systemVars =>
        <>[](\A s \in wired : Unknown(s) \/ Shown(s))

=============================================================================
