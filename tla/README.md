# A TLA+ model of the visual management station

An ESP32-S3 station reads a button, a toggle, a rotary encoder and a slider,
keeps a logical state and one lamp, and exchanges events and commands with a
Python backend over MQTT. This directory holds a model of that system in TLA+,
the TLC runs that check it on small instances, and proofs of its main
properties for all instances. Paths below are relative to `src/`; firmware
files are under `firmware/main/`.

## The system

| Component | State | Operations | Interacts with |
|---|---|---|---|
| `events/EventQueue` | FreeRTOS queue of 32 events | `send` (never waits, may be refused), `receive` (waits up to 1 s) | every producer; the application task consumes |
| `drivers/DigitalInput` (button, toggle) | last raw level, stable level, time of the last change, initial report pending | `update`, polled every 10 ms | sends to the queue; a refused send is tried again |
| `drivers/RotaryEncoder` | previous quadrature state, count | `update` | sends to the queue; a refused send is lost |
| `drivers/AnalogInput` | last reported percentage, initial report pending | `update` | sends to the queue; a refused send is tried again |
| `app/InputManager` | none | the input task: the four `update()` in turn, every 10 ms | the drivers |
| `app/Application` | next sequence id; position in `run` / `processEvent` / `publishOrBuffer` / `flushOfflineEvents` | the application task | queue, state, output, store, MQTT |
| `state/StateManager`, `outputs/OutputManager`, `drivers/LedDriver` | button, toggle, encoder, analog, output; level of the LED pin | `handleEvent` | called by the application task |
| `storage/OfflineEventStore` | deque of up to 64 events, count of superseded ones, a mutex | `push` (supersedes per source), `pop`, `peek`, `clear` | called by the application task |
| `network/MqttManager` | `connected_` (atomic) | handler in the esp-mqtt task; `publish`, `subscribe` | queue; broker |
| `network/WifiManager` | `connected_`, `reconnectEnabled_` (atomics) | handler in the event-loop task; `initialize`, `connect`, `disconnect` | queue; Wi-Fi driver |
| `network/MessageSerializer` | none | `serializeEvent` (may fail without heap), `parseCommand` | Application, MqttManager; the other end is `protocol.py` |
| `main.cpp` | none | start-up in a fixed order; returns at the first failure | all |
| `backend/service.py`, `odoo_adapter.py` | one workstation record per station | `handle_message`, `handle_event`, `set_remote_state` | broker |
| `backend/protocol.py` | none | validation of topics and payloads | service, simulated station |
| `backend/demo.py` | `online`, `pending` (64 events, new ones dropped), `sequence` | `emit`, `flush`, `reconnect`, `receive` | the bench's stations are built from it |
| `bench/harness.py`, `run_bench.py`, `broker.py` | per station: toggles awaiting a command, counters; a real MQTT client | `_deliver`, `emit`, MQTT callbacks; scenarios A, B, C | demo's station, the middleware, a broker it stops and starts |

What is hard, and what makes each part correct:

* **Delivery.** The application task tests `connected_`, then calls `publish()`,
  which tests it again and hands the message to a client that may refuse it. The
  esp-mqtt task changes the flag in between. Every event that gets a sequence id
  must end in exactly one place; events must leave oldest first; after an outage
  the backend must end at the station's current values; a `MqttConnected` notice
  lost at a full queue must not leave the backlog waiting.
* **Waiting on one another.** The esp-mqtt task sends to the queue while it
  holds the client's lock; the task that empties the queue waits for that lock.
* **The store at its limit.** Superseding, capacity and order work together only
  because of the order of the statements in `push`.
* **Drivers.** Bounce, a full queue, saturation, invalid transitions, drift
  below the deadband: what is reported must stay tied to what was last accepted.
* **Wi-Fi.** Losses, late driver events and API calls interleave with a handler
  that reads a flag and then acts; nobody else ever reconnects.
* **Backend.** QoS 1 repeats whole stretches of events; a command can be lost
  after the workstation was changed.
* **One queue for four drivers.** The input task polls them in a fixed order,
  and whoever is polled first takes the room. No driver may starve or disturb
  another.
* **Start-up.** Tasks run while the rest is still coming up, and go on when it
  fails. Nothing may touch what does not exist yet, and no event may wait for a
  consumer that was never started.
* **Restarts.** Station and backend keep nothing. After any restart only the
  drivers' first reports bring the view and the lamp back.
* **One contract, written twice.** Events and commands are encoded in C++ and
  decoded in Python and the other way round, with different ideas of strings,
  repeated keys and numbers.
* **The bench.** A connection that dies during a flush, a client that refuses
  what it keeps, and pairing of commands with toggles by their order only.

`PROJECT.json` lists these hazards line by line with the properties that guard
each of them.

## The modules

| Module | Models | Extends |
|---|---|---|
| `Events` | `Event.hpp`, the wiring in `main.cpp`, results of `parseCommand` | |
| `EventQueue` | `EventQueue.cpp` | `Events` |
| `OfflineEventStore` | `OfflineEventStore.cpp` | `Events` |
| `Backlog` | the contract in `OfflineEventStore.hpp`, as a set: the abstract specification of the store | `Events` |
| `StoreUser` | the store under a caller that uses all of it, as the host tests do | `OfflineEventStore`, `Backlog` by `INSTANCE` |
| `MqttManager` | `MqttManager.cpp` and the client and broker behind it | `EventQueue` |
| `StateManager` | `StateManager.cpp`, `OutputManager.cpp`, `LedDriver.cpp` | `Events` |
| `Application` | `Application.cpp`, composed with queue, store, MQTT and state | the four above |
| `DigitalInput`, `RotaryEncoder`, `AnalogInput` | one driver each against a world and a queue | `EventQueue` |
| `WifiManager` | `WifiManager.cpp`, the Wi-Fi driver and the event loop | `EventQueue` |
| `InputTask` | `InputManager.cpp` with the four drivers as wired in `main.cpp` | `EventQueue`, `StateManager`; the drivers by `INSTANCE` |
| `Startup` | `main.cpp`'s `app_main`, `WifiManager::initialize` step by step | `EventQueue` |
| `Middleware` | backend service and mock adapter, the MQTT sessions, restarts | `Events` |
| `Wire` | `MessageSerializer.cpp` and `protocol.py`, as two codecs of one contract, and the events and commands that cross | `Events` |
| `System` | a station and the middleware from end to end | `Middleware`, `OfflineEventStore` by `INSTANCE` |
| `Bench` | `SimulatedStation`, `BenchStation` and scenario C | |
| `EventSequences` | lemmas about sequences of events, and induction over sets of numbers | `Events` |
| `StoreProofs` | lemmas about the store | `OfflineEventStore`, `EventSequences` |
| `ApplicationProofs` | proofs about `Application` | `StoreProofs` |
| `DriverProofs` | proofs about the three driver classes | the drivers |
| `InputTaskProofs` | proofs about `InputTask` | `EventSequences` |
| `NetworkProofs` | proofs about `WifiManager` and `Wire` | both |
| `SystemProofs` | proofs about `Middleware` and `System` | `System`, `EventSequences` |
| `ScenarioProofs` | proofs about `Startup`, `StoreUser` and `Bench` | the three, `StoreProofs` |

`MC*.tla` and `*.cfg` are the instances for TLC. `MCDrivers` puts the three
driver classes side by side, one at work in each behaviour; `MCStoreUser` does the
same with the store and the codecs, which share nothing.

### How the state and the steps correspond to the code

`Application.pc` is the application task's position. The task is cut where it
meets something another task can change: the queue, `connected_`, and the
client's lock. Everything between two such accesses is one step, because the
store, the state and the LED belong to this task. The labels:

| `pc` | Position |
|---|---|
| `receive` | in `eventQueue_.receive` |
| `handle` | `processEvent` after its flush: state, output, sequence id |
| `direct`, `publish`, `enqueue`, `buffer` | in `publishOrBuffer`: at `isConnected()`; at `connected_` in `publish()`; at the client's lock; keeping the event |
| `flush`, `peek`, `flushPublish`, `flushEnqueue` | the same in `flushOfflineEvents`; `ret` holds the step to return to |
| `retry`, `heartbeat` | the rest of the loop in `run` |

`MqttManager.handler` is the esp-mqtt task's position in its event handler.
While it is not `"idle"` the task holds the API lock (`ApiLockFree`), so
`enqueue` has to wait. A subscribe request or an enqueue may be refused.

In the drivers, one `update()` is one step; between two of them the pin, the
shaft or the slider moves at will, other producers fill the queue and the
application empties it. `DigitalInput` counts ticks since the last raw change.
`RotaryEncoder` keeps the C++ table as it is and lets the shaft turn up to three
edges between polls. `AnalogInput` keeps the scaling by 4095.

In `WifiManager` the handler's read of `reconnectEnabled_` and its request are
two steps, and so are the flag and the request in `connect()` and
`disconnect()`; `events` holds what the driver posted and the event loop has not
handled.

In `Middleware` a message is handled in one step, because Paho's network thread
is the only thread. `outbox` and `sent` are the client's unacknowledged
messages: a reconnection sends all of them again.

`InputTask` instantiates the driver modules, so its polls are their `Update`
actions and nothing is written a second time. `pc` is the position in
`InputManager::run`. What the other tasks do to the queue appears as
`ApplicationReceives` and `CallbackSends`. `ImplementsDrivers` reads the queue
through `SeenBy`: a driver can tell its own events from all others, and the task
is then a behaviour of that driver's own specification. So the properties of the
`drivers` run, with its bouncing and fast inputs, carry over to the task.

`Startup.step` is the position in `StartOrder`, `failed` an early return. A
started task is reduced to what it does to the queue and the store; its details
are in its own module.

`System` composes at the level the other modules justify: a driver reports a
change once (`InputTask`, the drivers), an event is published when nothing
waits, and is stored otherwise (`Application`), and the steps from the client's
outbox on are `Middleware`'s own, each with what it does to the station's ends.
The oldest stored event may also be dropped because it cannot be serialized
(`FlushDropsUnserializable`), and the flush goes on behind it. `wired` is the set
of inputs a behaviour is about. `told` and `fresh` are the drivers' comparison
value and `initialEventPending_`; the slider reports a move from `told` by its
deadband or more, every other driver any move (`Moved`). A reboot empties store
and outbox and initialises the drivers anew. Losses are remembered per input:
`eventMissed` for the network's and the middleware's, `silent` for the station's
own, namely a dropped event, an encoder count the queue refused, and an encoder
that has not reported since the boot. The properties excuse an input whose last
report is among them (`Unknown`), until its next one.

`Wire` writes a message as a list of fields. Strings are lists of pieces, one of
which may be a NUL, numbers count halves, and integer types are eight bits wide
with their limits as constants. `parseCommand` and `ParseCommandPython` are
translated from the two sources independently; `firmware` and `middleware` hold
what each side means by the message on the wire.

In `Bench` the lock of a `BenchStation` makes an `emit` one step, but the
connection is tested without it: `Outcomes` lets it die before or during any
delivery of the flush. `disturbed` records that the outage lost or repeated
something.

History variables (`newest`, `published`, `lost`, `lastAccepted`, `tally`,
`reported`, `refused`, ...) are read by no action.

## The runs

| Run | Asks | Result |
|---|---|---|
| `application` | Is every numbered event in one place, in order, never rejected, and is the replay's end current? Is the store a `Backlog`? | holds, 2.7 million states |
| `application_live` | Does the published view catch up when the link lasts? Does the task always return to its queue? | holds |
| `resubscription` | Is a connected session subscribed, as the comment in `MqttManager.cpp` and the MQTT document say? | **violated**: the result of `subscribe` is ignored |
| `store_and_codecs` | Does the deque implement `Backlog`, with system events too? Do the two codecs understand the same events, across the wrap of the sequence counter, and the same commands? | holds |
| `drivers` | No bounce and no repetition reported? Is the encoder's count that of a lossless saturating counter? Is noise below the deadband never reported, and every lasting level in the end? | holds; the count unless the shaft outran the polls |
| `analog_deadband` | Does only a change of more than the deadband report, as the header says? | **violated**: a change of exactly the deadband does |
| `wifi` | Is the station ever left offline with nobody about to ask? Is `isConnected()` current? | holds, but for refused requests |
| `wifi_disconnect` | Is an explicit disconnect respected, as the handler's comment says? | **violated**: flag and request are two steps |
| `input_task` | Does every event land in the field of its input? Does the task implement each driver's specification? Does an input that comes to rest reach the `StateManager`, with the others competing for the queue? | holds |
| `startup` | Does every task find what it uses, every event a consumer, whatever step fails? Is NVS repaired? | holds |
| `system` | Do workstation and output end at the latest values through repeats, losses and restarts? Does the view end at the input's position, the slider's within its deadband, and the lamp at the toggle's? Does the view get there once the faults end? | holds, but for inputs whose last report was lost or dropped |
| `bench` | Do scenario C's numbers add up, in order, and does the recovery end by itself? | holds |

The third violation needs a caller of `disconnect()`, which `main.cpp` is not.
The same class also connects on `STA_START` without looking at the flag. The
models allow `connect()` and `disconnect()` because the class offers them.

`bench` asks of the pairing of commands with toggles only that it is right while
nothing is lost or repeated (`PairsRightUndisturbed`). Across the outage of
scenario C it need not be: an event or a command is lost while one client is
back and the other not yet subscribed, or an event that is sent again is
answered twice, and every later round trip is then measured against the wrong
toggle. The comment at `bench/harness.py:220` makes no exception for that.

Some weaknesses of the code are excused by the properties next to them, and are
listed as hazards without a property: a refused `esp_wifi_connect()` is never
tried again (`NeverStranded` and `ComesBack` assume none is refused); an event
store without its mutex refuses every push (`NoEventWithoutConsumer` names it);
drivers polled late may find the queue full in every round
(`RestingInputsReachState` assumes room again and again). A flash erase that
fails for ever is left out by `Startup`'s fairness, and once the shaft has outrun
the polls only `NeverAgainstTheShaft` says anything of the encoder's count.

### Bounds

* `MaxSequence` numbers the events of a behaviour: 2 in `application`, with two
  inputs, a queue of one and a store of two. That is enough for an event and a
  newer one of the same source or another, a full queue when a notice or
  command arrives, a full store, and a flush that stops between two entries.
  Commands and connection changes are unbounded. A third event needs no new
  kind of step: what more events can do to the order is proved.
* `application_live` has one input, one event and one command value, and unbounded
  connection changes.
* `StoreUser`: five pushes into three places, two inputs and faults.
* `drivers`: a debounce interval of three ticks; counts from -2 to 2, so both
  limits are reached, and `MaxTurn` 3, so a reading can alias; ten readings
  around percentage steps, the deadband and the ends of the range; a queue of
  two that others fill.
* `WifiManager`: `MaxEvents` 3 unhandled events, a queue of one.
* `InputTask`: a queue of one, so that any send takes the room of any other, the
  worst case for a shared queue. A debounce interval that has always run out, a
  counter of 0..1 and two readings keep the product of four drivers small; the
  `drivers` run has the rest, and `ImplementsDrivers` connects the two. All four
  compete with their first reports; afterwards the inputs of one of
  `MovingSets` move: a contact and the slider, or the encoder. The button is
  left out of `ImplementsDrivers`, because the toggle is the same class with the
  same parameters.
* `Startup`: two inputs and a queue of two, which fills up when nobody reads.
* `Wire`: all payloads of up to three fields from three keys and twelve values,
  so repeated, missing and extra fields all occur. `UInt32Max` is 7, and the
  counter runs through all its values and over the wrap; nothing in either codec
  depends on the size of a range.
* `System`: a station with a toggle, whose lamp the middleware commands, with an
  encoder, whose refused reports are not repeated, or with a slider
  (`WiredSets`); a store with room for all three; `MaxOutbox` 2, so an older
  value is delivered again after a newer one; `MaxTransit` 1 in each direction,
  since what waits in the outbox and what is in transit keep their order. The
  slider is at 0, 1 or 2 with a deadband of 2, so it moves by less than the
  deadband and by exactly the deadband; the encoder is at 0 or 1 (`Detents`). The
  ERP sets the lamp where there is a toggle to contradict. The four invariants
  are proved for all bounds, and for stations with several inputs.
* `Bench`: `MaxEvents` 4 and a capacity of 2, so that the buffer fills up during
  the outage with an event left to find it full.

### Fairness

* `Application`: weak fairness of the application task and of the esp-mqtt
  task, which FreeRTOS never suspends for good. Strong fairness of getting the
  client's lock, because a FreeRTOS mutex goes to a waiting task although the
  esp-mqtt task takes it again and again. Strong fairness of a flush being
  accepted: an outbox drains while the link holds, so the client does not refuse
  the oldest event for ever. Nothing is assumed of the network; `ViewCatchesUp`
  is conditional on a link that lasts.
* `drivers`: for the contact, the input task polls for ever, time passes, the
  application task has the higher priority and empties the queue, and a poll
  that finds room again and again uses it once (strong fairness of
  `ContactReports`, the queue being filled by others in between).
* `WifiManager`: attempts end, posted events are handled, calls return.
  `ComesBack` is conditional on an access point that stays and on requests the
  driver does not refuse.
* `InputTask`: the same, for all drivers and the task as a whole: a driver that
  has something to say and finds room in its turn again and again says it.
  `RestingInputsReachState` is conditional on such room, which the code does not
  promise: another driver may take it in each round.
* `Startup`: `app_main` goes on, the application task runs, and an erase that is
  tried at every boot does not abort for ever. There is no fairness of the other
  tasks' sends.
* `System`: the station's tasks run, the client sends, the broker acknowledges,
  the backend handles. `ViewCatchesUp` is conditional on inputs that rest and on
  faults of the link that end. It is not conditional on memory: the flush may go
  on dropping events.
* `Bench`: the harness goes on, and both clients try again until they connect,
  as `reconnect_delay_set` asks of them. The deadline `GivesUp` has no fairness:
  the recovery must not need it.
* `Middleware` on its own: safety properties only.

Deadlock is checked in every run except `startup` and `bench`:
`app_main` returns and a start that failed early leaves no task, and a scenario
of the bench ends.

## What is proved

Every safety property the runs check, invariant, action property or refinement,
is also a theorem. The theorems hold for every set of inputs, every capacity and
every bound that the named assumptions of the module allow. The type invariants
of `Application`, `RotaryEncoder`, `AnalogInput`, `WifiManager` and `Middleware`
are among them; in the other modules types are part of the invariant.

* `ApplicationProofs`
  * `TypeCorrect`: `TypeOK` is inductive as it stands. `ControlOK`, the relation
    between `pc` and `ret`, is part of it, because a flush returns to `ret`.
  * `AccountsBalance`: `Accounting` is inductive with `TypeOK`. The lemmas about
    `push` in `StoreProofs` give the length and the count after each case.
  * `BacklogStaysOrdered` and `AcceptanceInOrder`: `BacklogOrdered` is
    strengthened by what `pc` says of the event in hand (it is the youngest
    number, and at `publish` and `enqueue` the store is empty), and by numbers
    above `lastAccepted`. The action property follows from the same invariant.
  * `NothingRejected`: assumes `Cardinality(Inputs) <= StoreCapacity`, which the
    firmware meets with 4 and 64. The buffered entries have pairwise different
    sources, all of them inputs because no heartbeat is buffered, so a full
    store holds an entry of every input, and the next event supersedes one.
  * `StoreIsBacklog`: the refinement `KeepsBacklog`. Under the refinement mapping
    `ToSet(store)` a push is `Put`, a pop is `Take`, and every other step leaves
    the set alone. The order of the backlog is what makes the head of the deque
    the oldest element of the set.
  * `NewestNeverForgotten` and `ReplayIsCurrent`: the invariant adds to the order
    of the backlog, for each input, where its newest event is. `Placed` is the
    case distinction between accepted, stored, in hand and counted as lost;
    `NumbersOK`, `EntriesOK`, `HandOK` and `PublishedOK` compare the sequence ids
    at each of these places with the newest one; `SoundOK` says that queue and
    hand carry a type and value their input sends.
* `DriverProofs`
  * The encoder: the invariant ties its state to the dial. As long as no poll was
    outrun the last reading is the dial's phase, and the count is the saturated
    sum (`CountIsLossless`). `DirectionKept` and `StalenessEnds` follow from the
    transition table, which the proof goes through case by case.
  * The slider, `BaselineKept` and `NoiseKeptQuiet`: `stablePercent` equals the
    last value the queue took, and every percentage is in 0..100; division by
    4095 is bounded in a lemma.
  * The contact, `DebounceHolds` and `LevelsAlternate`: the timer never claims
    more quiet than there was on the pin (`TimerIsHonest`), and the stable level
    is the one reported last, except while the first report is due
    (`SettledIsReported`).
* `InputTaskProofs`
  * `StationFollows`: `TaskInv` says of each driver that what it reported last is
    in its newest event in the queue or, when none is waiting, in its field of
    the state; drivers stay in the ranges of their values, so that what they
    send are events of their inputs. `EncoderAssumption` and
    `SliderAssumption` state those ranges; the firmware's are the whole of
    `int32_t` and 0..100.
  * `TaskImplementsDrivers`: the refinement `ImplementsDrivers`. Each step of the
    task is, seen by the toggle, the encoder or the slider, a step of that
    driver's specification or a stutter: another driver's send is one by
    somebody else, or is not seen at all. The properties proved in `DriverProofs`
    therefore hold in the task.
* `NetworkProofs`
  * `StationNeverStranded` and `ConnectedStaysCurrent` with two strengthenings:
    the last unhandled event tells whether the driver is online, and the start
    event precedes every connection. `WifiTypesKept` adds the sizes of both
    queues.
  * `EventsAreUnderstood`: what `serializeEvent` writes for any event the station
    publishes is valid to `protocol.py` and means the same event.
    `CommandsAreTheSame`: the two parsers accept the same payloads, and get the
    same commands from them, for any number of fields in any order and with any
    repetition. `WireInv` adds the range of the sequence counter. The only
    assumptions are about the limits of the integer types, which hold of the
    C++ ones.
* `SystemProofs`
  * `LampObeys`: the last command on its way carries the desired output, and when
    none is, the output does.
  * `ViewCurrent`: for an input of which nothing was lost, the value of its last
    message in `uplink` followed by the unsent part of `outbox`, or the
    workstation's if there is none, is the current one; and each message that was
    sent and may be sent again is followed by a last one with that value.
  * `SystemIsMiddleware`: each step of `System` is one of `Middleware` or leaves
    it alone, so the two theorems above hold from end to end.
  * `ViewShowsPositions`: what an input told last is in the store or, when no
    event of it is there, is what the station has published (`StoreTells`), and
    `ViewCurrent` does the rest. An event dropped from the store takes its input
    out of this until the next report (`Known`), and leaves the others' events as
    they are (`TailKeepsStore`). A driver that has nothing to report is where it
    told, the slider within its deadband of it. Needs `StoreHoldsInputs`, as
    `NothingRejected` does, and `DetentsAssumption`.
  * `LampShowsToggle`: the workstation's desired output is the toggle's unless
    the ERP overrode it, and damage that a restart did to the lamp is known
    about: the toggle has yet to report, or its report is under way, lost or
    dropped (`ForgottenIsOutstanding`).
* `ScenarioProofs`
  * `NothingStartsTooEarly` and `EventsHaveConsumers`: what has been done is a
    prefix of `StartOrder`; before the application task runs nothing is in the
    queue, and an event was only lost to a store without its mutex (`StartInv`).
  * `StoreKeepsItsPromise`: the refinement `ImplementsBacklog`, for a caller that
    mixes events of inputs and of the system, `pop` and `clear` as it likes.
    `UserInv` is the order of the sequence ids.
  * `OldestGoesFirst`, `CountersAddUp`, `PairingIsRight`: `BenchInv`. The events
    that wait, the events in the buffer and the client's messages are each in
    order and follow one another, except that a refused event is both at the end
    of the client's messages and at the head of the buffer (`BenchOrder`). As
    long as nothing was lost or repeated, the waiting toggles are exactly those
    of the commands on their way followed by those the broker has yet to forward
    (`Paired`). Both need what `Toggles` makes of two lists put together, which is
    proved by induction over the length of a prefix.

The provers cannot instantiate the library's induction theorems. Where a lemma
needs induction over numbers it is stated of a set: `NumbersByInduction` says that
a set of naturals that holds 0 and every successor holds all of them, and follows
from the existence of a least element.

Only model-checked: the liveness properties (`ViewCatchesUp`, `KeepsReceiving`,
`LastingLevelReported`, `RestingInputsReachState`, `ComesBack`, `InputsServed`,
`StorageRepaired` and `RecoveryCompletes`). They rest on fairness, which is out of
the prover's reach.

## Not modelled

* `timestampMs`, free heap, times of receipt, layout of JSON text, device ids,
  topics and logging: no decision reads them.
* How the two JSON libraries read text. `Wire` takes both to read JSON as it is
  defined, from UTF-8. Where cJSON is more lenient than the grammar, or Python
  takes another encoding, the two sides may differ.
* `MqttManager::stop`, `LedDriver::toggle`, `OutputManager::setStatusLed`,
  destructors: not called by the firmware.
* Two stations at one backend: workstations are separate records under separate
  topics, and share nothing but the order in which Paho's one thread handles them.
* `SimulatedStation.receive` and `run_demo`, scenarios A and B of the bench, its
  statistics and its output: sequential, with nothing that could interleave.
* `legacy/` and `hardware/`: not part of the running system.

## What could follow

* Theorems that carry the drivers' properties over to `InputTask` by name, from
  `TaskImplementsDrivers` and `DriverProofs`.
* A refinement from `Application` to the station's part of `System`, which now
  rests on comparing the two.
