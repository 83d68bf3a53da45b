---------------------------- MODULE MqttManager ----------------------------
(***************************************************************************)
(* network/MqttManager.cpp as the other tasks see it.  The esp-mqtt task   *)
(* runs handleEvent() for one event at a time and holds the client's API   *)
(* lock from the first line of the handler to its return; publish(), which *)
(* the application task calls, needs that lock only inside                 *)
(* esp_mqtt_client_enqueue().  connected_ is an atomic both sides touch    *)
(* without the lock.                                                       *)
(*                                                                         *)
(* The network, the broker and the client library are external.  The link  *)
(* comes and goes at any time; the client notices later and calls the      *)
(* handler; a subscribe request or an enqueue may be refused (no heap,     *)
(* outbox at its limit).                                                   *)
(***************************************************************************)
EXTENDS EventQueue

CONSTANT Commands       \* the commands the backend publishes
ASSUME CommandsAssumption == Commands \subseteq CommandEvents

VARIABLES
    link,         \* external: the broker can be reached
    connected,    \* connected_
    subscribed,   \* external: the broker holds our command subscription
    handler       \* where handleEvent() is: "idle", "notify", "subscribe"

mqttVars == <<link, connected, subscribed, handler>>

MqttInit ==
    /\ link = FALSE /\ connected = FALSE /\ subscribed = FALSE
    /\ handler = "idle"

(* esp-mqtt holds its API lock exactly while the handler runs.             *)
ApiLockFree == handler = "idle"

NetworkChanges ==
    /\ link' = ~link
    /\ UNCHANGED <<connected, subscribed, handler, queue>>

(* MQTT_EVENT_CONNECTED.  A new session starts without subscriptions.      *)
OnConnected ==
    /\ ApiLockFree /\ link /\ ~connected
    /\ connected' = TRUE /\ subscribed' = FALSE /\ handler' = "notify"
    /\ UNCHANGED <<link, queue>>

(* MQTT_EVENT_DISCONNECTED.                                                *)
OnDisconnected ==
    /\ ApiLockFree /\ ~link /\ connected
    /\ connected' = FALSE /\ subscribed' = FALSE /\ handler' = "notify"
    /\ UNCHANGED <<link, queue>>

(* Mutant: the handler waits for room in the queue.                        *)
PublishConnectionEventBlocking ==
    /\ handler = "notify"
    /\ Send(LinkEvent(IF connected THEN "MqttConnected"
                                   ELSE "MqttDisconnected", connected))
    /\ handler' = IF connected THEN "subscribe" ELSE "idle"
    /\ UNCHANGED <<link, connected, subscribed>>

(* publishConnectionEvent(): the result of the send is ignored.            *)
PublishConnectionEvent ==
    /\ handler = "notify"
    /\ SendOrDrop(LinkEvent(IF connected THEN "MqttConnected"
                                         ELSE "MqttDisconnected", connected))
    /\ handler' = IF connected THEN "subscribe" ELSE "idle"
    /\ UNCHANGED <<link, connected, subscribed>>

(* subscribe(commandTopic(), 1): the handler ignores the result.           *)
Subscribe ==
    /\ handler = "subscribe"
    /\ subscribed' \in BOOLEAN
    /\ handler' = "idle"
    /\ UNCHANGED <<link, connected, queue>>

(* MQTT_EVENT_DATA with a message that passes handleIncomingMessage()'s    *)
(* tests and parses.  One that does not changes nothing.                   *)
OnCommand ==
    /\ ApiLockFree /\ link /\ connected /\ subscribed
    /\ \E c \in Commands : SendOrDrop(c)
    /\ UNCHANGED mqttVars

MqttTask ==
    OnConnected \/ OnDisconnected \/ PublishConnectionEvent \/ Subscribe

MqttTypeOK ==
    /\ link \in BOOLEAN /\ connected \in BOOLEAN /\ subscribed \in BOOLEAN
    /\ handler \in {"idle", "notify", "subscribe"}

(* docs/mqtt-integration.md: ESP-MQTT "resubscribes on each connection".   *)
(* A session whose CONNECTED handler is done receives commands.            *)
SubscribedOnceConnected == connected /\ handler = "idle" => subscribed

=============================================================================
