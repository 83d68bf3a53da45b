------------------------------- MODULE Startup -------------------------------
(***************************************************************************)
(* main.cpp: app_main brings the station up step after step, each step may *)
(* fail, and a failure returns and leaves running what was started so far. *)
(* The tasks are started as it goes: they run while the rest comes up, and *)
(* go on after a failure.  What the tasks do in detail is the business of  *)
(* the modules Application, InputTask, WifiManager and MqttManager.        *)
(***************************************************************************)
EXTENDS EventQueue, SequencesExt

VARIABLES
    nvs,           \* external: what nvs_flash_init() finds
    step,          \* position in StartOrder of the step app_main is at
    failed,        \* app_main has returned early
    storeMutex,    \* OfflineEventStore::mutex_ could be created
    mqttConnected, \* connected_ of the MqttManager
    unsent         \* what became of input events no connection could take:
                   \*   a subset of {"buffered", "lost"}

taskVars == <<queue, mqttConnected, unsent>>
mainVars == <<nvs, step, failed, storeMutex>>
vars == <<taskVars, mainVars>>

(* Mutant: MQTT is started as soon as its client exists.                   *)
StartOrderMqttFirst ==
    <<"nvs", "queue", "store", "output", "inputs", "mqttClient",
      "applicationTask", "inputTask", "mqtt", "netif", "eventLoop",
      "wifiDriver", "wifiHandlers", "wifi">>

(* The steps of app_main, WifiManager::initialize() step by step.          *)
StartOrder ==
    <<"nvs", "queue", "store", "output", "inputs", "mqttClient",
      "applicationTask", "inputTask", "netif", "eventLoop", "wifiDriver",
      "wifiHandlers", "wifi", "mqtt">>

Done(s) == \E i \in 1..(step - 1) : StartOrder[i] = s
Current(s) == ~failed /\ step <= Len(StartOrder) /\ StartOrder[step] = s

Init ==
    /\ QueueInit
    /\ nvs \in {"ready", "noFreePages", "newVersion", "broken"}
    /\ step = 1 /\ failed = FALSE /\ storeMutex = FALSE
    /\ mqttConnected = FALSE /\ unsent = {}

(***************************************************************************)
(* app_main                                                                *)
(***************************************************************************)
NvsInitialises ==
    /\ Current("nvs") /\ nvs = "ready"
    /\ step' = step + 1
    /\ UNCHANGED <<taskVars, nvs, failed, storeMutex>>

(* Mutant: only one of the two reparable results is repaired.              *)
NvsErasedForSpaceOnly ==
    /\ Current("nvs") /\ nvs = "noFreePages"
    /\ nvs' \in {"ready", "broken"}
    /\ UNCHANGED <<taskVars, step, failed, storeMutex>>

(* nvs_flash_erase() and a second try, which may end like the first.       *)
NvsErased ==
    /\ Current("nvs") /\ nvs \in {"noFreePages", "newVersion"}
    /\ nvs' \in {"ready", "broken"}
    /\ UNCHANGED <<taskVars, step, failed, storeMutex>>

(* ESP_ERROR_CHECK on a failed erase aborts: the chip restarts, and finds  *)
(* the partition as the erase left it.                                     *)
NvsEraseAborts ==
    /\ Current("nvs") /\ nvs \in {"noFreePages", "newVersion"}
    /\ nvs' \in {"ready", "noFreePages", "newVersion"}
    /\ UNCHANGED <<taskVars, step, failed, storeMutex>>

(* Nobody asks whether the store got its mutex.                            *)
StoreConstructed ==
    /\ Current("store")
    /\ storeMutex' \in BOOLEAN /\ step' = step + 1
    /\ UNCHANGED <<taskVars, nvs, failed>>

StepSucceeds ==
    /\ ~failed /\ step <= Len(StartOrder)
    /\ StartOrder[step] \notin {"nvs", "store"}
    /\ step' = step + 1
    /\ UNCHANGED <<taskVars, nvs, failed, storeMutex>>

StepFails ==
    /\ ~failed /\ step <= Len(StartOrder) /\ StartOrder[step] # "store"
    /\ Current("nvs") => nvs = "broken"
    /\ failed' = TRUE
    /\ UNCHANGED <<taskVars, nvs, step, storeMutex>>

AppMain ==
    \/ NvsInitialises \/ NvsErased \/ NvsEraseAborts
    \/ StoreConstructed \/ StepSucceeds \/ StepFails

(***************************************************************************)
(* The tasks, from the moment they are started                             *)
(***************************************************************************)
InputTaskSends ==
    /\ Done("inputTask")
    /\ \E e \in InputEvents : SendOrDrop(e)
    /\ UNCHANGED <<mainVars, mqttConnected, unsent>>

WifiSends ==
    /\ Done("wifi")
    /\ \E up \in BOOLEAN :
          SendOrDrop(LinkEvent(IF up THEN "WifiConnected"
                               ELSE "WifiDisconnected", up))
    /\ UNCHANGED <<mainVars, mqttConnected, unsent>>

MqttSends ==
    /\ Done("mqtt")
    /\ mqttConnected' = ~mqttConnected
    /\ SendOrDrop(LinkEvent(IF mqttConnected' THEN "MqttConnected"
                            ELSE "MqttDisconnected", mqttConnected'))
    /\ UNCHANGED <<mainVars, unsent>>

(* Mutant: without a started MQTT client, input events are thrown away.    *)
ApplicationHandlesOnline ==
    /\ Done("applicationTask") /\ Receive
    /\ unsent' = IF Received \notin InputEvents \/ mqttConnected THEN unsent
                 ELSE unsent \cup
                        {IF storeMutex /\ Done("mqtt")
                         THEN "buffered" ELSE "lost"}
    /\ UNCHANGED <<mainVars, mqttConnected>>

(* Mutant: the application waits for the network before it works.          *)
ApplicationWaitsForMqtt ==
    /\ Done("mqtt") /\ Receive
    /\ unsent' = IF Received \notin InputEvents \/ mqttConnected THEN unsent
                 ELSE unsent \cup {IF storeMutex THEN "buffered" ELSE "lost"}
    /\ UNCHANGED <<mainVars, mqttConnected>>

(* publish() refuses without a connection; push() refuses without a mutex. *)
ApplicationHandles ==
    /\ Done("applicationTask") /\ Receive
    /\ unsent' = IF Received \notin InputEvents \/ mqttConnected THEN unsent
                 ELSE unsent \cup {IF storeMutex THEN "buffered" ELSE "lost"}
    /\ UNCHANGED <<mainVars, mqttConnected>>

Next ==
    \/ AppMain
    \/ InputTaskSends \/ WifiSends \/ MqttSends \/ ApplicationHandles

Spec == Init /\ [][Next]_vars

(* app_main runs until it returns, and the application task runs; an erase *)
(* that is tried at every restart does not abort for ever.                 *)
Fairness ==
    /\ WF_vars(NvsInitialises \/ StoreConstructed \/ StepSucceeds \/ StepFails)
    /\ SF_vars(NvsErased)
    /\ WF_vars(ApplicationHandles)

FairSpec == Spec /\ Fairness

(***************************************************************************)
(* Properties                                                              *)
(***************************************************************************)
(* What a started task or driver touches without asking.                   *)
Needs ==
    [applicationTask |-> {"queue", "store", "output"},
     inputTask       |-> {"queue", "inputs", "applicationTask"},
     wifiDriver      |-> {"nvs", "netif", "eventLoop"},
     wifi            |-> {"queue", "wifiHandlers"},
     mqtt            |-> {"queue", "mqttClient", "netif"}]

(* docs/firmware-architecture.md: "Networking is initialized before MQTT   *)
(* can use the TCP/IP stack", and the same for every other task: at no     *)
(* moment of a start, failed or not, does one run without what it uses.    *)
TasksFindWhatTheyUse ==
    \A s \in DOMAIN Needs : Done(s) => \A n \in Needs[s] : Done(n)

(* "Start input polling after the application is ready to consume events": *)
(* no event waits in a queue that nobody reads, and an input event is lost *)
(* only by a store that has no mutex, however far the network came up.     *)
NoEventWithoutConsumer ==
    /\ queue # <<>> => Done("applicationTask")
    /\ "lost" \in unsent => ~storeMutex

(* A start that fails after the tasks run leaves a station that serves its *)
(* inputs: the queue never fills up for good.                              *)
InputsServed == [](Done("inputTask") => <>QueueHasRoom)

(* A storage partition that can be repaired is repaired before anything    *)
(* else starts, also when the repair itself is cut short by a restart.     *)
StorageRepaired == <>(Done("nvs") \/ nvs = "broken")

=============================================================================
