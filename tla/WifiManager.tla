---------------------------- MODULE WifiManager ----------------------------
(***************************************************************************)
(* network/WifiManager.cpp: the station side of the Wi-Fi driver.  Three   *)
(* parties touch it: the caller of initialize(), connect() and             *)
(* disconnect(); the Wi-Fi driver, which is external and posts events; and *)
(* the event-loop task, which runs handleWifiEvent() for one event after   *)
(* the other, later than the driver posted it.  reconnectEnabled_ is an    *)
(* atomic that caller and handler touch without a lock.                    *)
(*                                                                         *)
(* main.cpp calls initialize() only; the other two are part of what the    *)
(* class offers.                                                           *)
(***************************************************************************)
EXTENDS EventQueue

CONSTANT MaxEvents    \* the size of the system event loop's queue
ASSUME MaxEventsAssumption == MaxEvents \in Nat \ {0}

VARIABLES
    accessPoint,       \* external: attempts succeed, connections hold
    driver,            \* external: "off", "idle", "connecting" or "online"
    events,            \* external: posted and not yet handled
    connected,         \* connected_
    reconnectEnabled,  \* reconnectEnabled_
    handler,           \* STA_DISCONNECTED's handler: its next step
    caller,            \* the API call that has set its flag only
    refused            \* history: esp_wifi_connect() refused the last
                       \*   request that found the driver idle

wifiVars == <<connected, reconnectEnabled>>
vars == <<queue, accessPoint, driver, events, wifiVars, handler, caller,
          refused>>

Init ==
    /\ QueueInit
    /\ accessPoint \in BOOLEAN /\ driver = "off" /\ events = <<>>
    /\ connected = FALSE /\ reconnectEnabled = TRUE
    /\ handler = "idle" /\ caller = "idle" /\ refused = FALSE

(***************************************************************************)
(* The Wi-Fi driver                                                        *)
(***************************************************************************)
CanPost == Len(events) < MaxEvents
Post(event) == CanPost /\ events' = Append(events, event)

(* esp_wifi_connect(): a driver that is not idle ignores it; an idle one   *)
(* may refuse it.                                                          *)
RequestConnect ==
    IF driver # "idle"
    THEN UNCHANGED <<driver, refused>>
    ELSE /\ refused' \in BOOLEAN
         /\ driver' = IF refused' THEN driver ELSE "connecting"

(* An attempt ends, or a connection is lost.                               *)
DriverGetsIp ==
    /\ driver = "connecting" /\ accessPoint
    /\ driver' = "online" /\ Post("gotIp")
    /\ UNCHANGED <<queue, accessPoint, wifiVars, handler, caller, refused>>

DriverDisconnects ==
    /\ driver \in {"connecting", "online"} /\ ~accessPoint
    /\ driver' = "idle" /\ Post("disconnected")
    /\ UNCHANGED <<queue, accessPoint, wifiVars, handler, caller, refused>>

AccessPointChanges ==
    /\ accessPoint' = ~accessPoint
    /\ UNCHANGED <<queue, driver, events, wifiVars, handler, caller, refused>>

(***************************************************************************)
(* handleWifiEvent()                                                       *)
(***************************************************************************)
Handling(event) ==
    /\ handler = "idle"
    /\ events # <<>> /\ Head(events) = event
    /\ events' = Tail(events)

OnStart ==
    /\ Handling("start")
    /\ RequestConnect
    /\ UNCHANGED <<queue, accessPoint, wifiVars, handler, caller>>

(* Mutant: connected_ keeps its value.                                     *)
OnDisconnectedStale ==
    /\ Handling("disconnected")
    /\ SendOrDrop(LinkEvent("WifiDisconnected", FALSE))
    /\ handler' = "check"
    /\ UNCHANGED <<accessPoint, driver, wifiVars, caller, refused>>

(* Mutant: only a connection that was up is retried.                       *)
OnDisconnectedOnlyIfUp ==
    /\ Handling("disconnected")
    /\ connected' = FALSE
    /\ SendOrDrop(LinkEvent("WifiDisconnected", FALSE))
    /\ handler' = IF connected THEN "check" ELSE "idle"
    /\ UNCHANGED <<accessPoint, driver, reconnectEnabled, caller, refused>>

OnDisconnected ==
    /\ Handling("disconnected")
    /\ connected' = FALSE
    /\ SendOrDrop(LinkEvent("WifiDisconnected", FALSE))
    /\ handler' = "check"
    /\ UNCHANGED <<accessPoint, driver, reconnectEnabled, caller, refused>>

(* reconnectEnabled_ is read ...                                           *)
CheckReconnect ==
    /\ handler = "check"
    /\ handler' = IF reconnectEnabled THEN "reconnect" ELSE "idle"
    /\ UNCHANGED <<queue, accessPoint, driver, events, wifiVars, caller, refused>>

(* ... and then the request is made; a refusal is only logged.             *)
Reconnect ==
    /\ handler = "reconnect"
    /\ RequestConnect
    /\ handler' = "idle"
    /\ UNCHANGED <<queue, accessPoint, events, wifiVars, caller>>

OnGotIp ==
    /\ Handling("gotIp")
    /\ connected' = TRUE
    /\ SendOrDrop(LinkEvent("WifiConnected", TRUE))
    /\ UNCHANGED <<accessPoint, driver, reconnectEnabled, handler, caller,
                   refused>>

HandlerTask ==
    OnStart \/ OnDisconnected \/ CheckReconnect \/ Reconnect \/ OnGotIp

(***************************************************************************)
(* The public methods.  Before initialize() has succeeded, connect() and   *)
(* disconnect() return at once.                                            *)
(***************************************************************************)
Initialize ==
    /\ driver = "off"
    /\ driver' = "idle" /\ Post("start")
    /\ UNCHANGED <<queue, accessPoint, wifiVars, handler, caller, refused>>

(* connect() and disconnect() set the flag ...                             *)
Call ==
    /\ driver # "off" /\ caller = "idle"
    /\ caller' \in {"connect", "disconnect"}
    /\ reconnectEnabled' = (caller' = "connect")
    /\ UNCHANGED <<queue, accessPoint, driver, events, connected, handler,
                   refused>>

(* ... and then turn to the driver.                                        *)
ConnectRequests ==
    /\ caller = "connect"
    /\ RequestConnect
    /\ caller' = "idle"
    /\ UNCHANGED <<queue, accessPoint, events, wifiVars, handler>>

DisconnectRequests ==
    /\ caller = "disconnect"
    /\ IF driver = "idle" THEN UNCHANGED <<driver, events>>
                          ELSE driver' = "idle" /\ Post("disconnected")
    /\ caller' = "idle"
    /\ UNCHANGED <<queue, accessPoint, wifiVars, handler, refused>>

CallerTask == Initialize \/ ConnectRequests \/ DisconnectRequests

ApplicationReceives ==
    /\ Receive
    /\ UNCHANGED <<accessPoint, driver, events, wifiVars, handler, caller,
                   refused>>

Next ==
    \/ DriverGetsIp \/ DriverDisconnects \/ AccessPointChanges
    \/ HandlerTask \/ CallerTask \/ Call \/ ApplicationReceives

Spec == Init /\ [][Next]_vars

(* Every attempt ends, posted events are handled, calls return.            *)
Fairness ==
    /\ WF_vars(DriverGetsIp \/ DriverDisconnects)
    /\ WF_vars(HandlerTask) /\ WF_vars(CallerTask)

FairSpec == Spec /\ Fairness

(***************************************************************************)
(* Properties                                                              *)
(***************************************************************************)
(* Flags, driver and event loop keep the values they can have.             *)
TypeOK ==
    /\ QueueTypeOK
    /\ accessPoint \in BOOLEAN /\ connected \in BOOLEAN
    /\ reconnectEnabled \in BOOLEAN /\ refused \in BOOLEAN
    /\ driver \in {"off", "idle", "connecting", "online"}
    /\ events \in Seq({"start", "disconnected", "gotIp"})
    /\ Len(events) <= MaxEvents
    /\ handler \in {"idle", "check", "reconnect"}
    /\ caller \in {"idle", "connect", "disconnect"}

(* isConnected() follows the driver through late and queued events: with   *)
(* none left to handle it says what is the case.                           *)
ConnectedIsCurrent ==
    events = <<>> => (connected <=> driver = "online")

(* "Retry ordinary connection loss": a station that may reconnect is never *)
(* left idle with nobody about to ask the driver again, however losses,    *)
(* disconnect() and connect() interleave, unless the driver refused.       *)
NeverStranded ==
    driver = "idle" /\ reconnectEnabled =>
        \/ refused
        \/ \E i \in 1..Len(events) : events[i] \in {"start", "disconnected"}
        \/ handler \in {"check", "reconnect"}
        \/ caller = "connect"

(* With the access point back for good, the station gets online, unless it *)
(* was told to stay away or the driver refused its request.                *)
ComesBack ==
    <>[](accessPoint /\ reconnectEnabled /\ ~refused) => <>[]connected

(* "respect an explicit disconnect": once disconnect() has returned, no    *)
(* reconnect is asked for.                                                 *)
RespectsDisconnect ==
    [][handler = "reconnect" /\ driver' # driver
          => reconnectEnabled \/ caller = "disconnect"]_vars

=============================================================================
