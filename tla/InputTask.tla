------------------------------ MODULE InputTask ------------------------------
(***************************************************************************)
(* app/InputManager.cpp with the four drivers main.cpp gives it: one task  *)
(* polls button, toggle, encoder and slider in turn, they share one event  *)
(* queue with the network callbacks, and the application task hands what   *)
(* it receives to the StateManager.  Init is InputManager::initialize():   *)
(* every driver has its baseline.  The delay between two rounds needs no   *)
(* step: the others may run between any two polls.                         *)
(***************************************************************************)
EXTENDS EventQueue, StateManager, SequencesExt

CONSTANTS
    Debounce, CountMin, CountMax, MaxTurn, Readings, Deadband,
    MovingSets    \* bound: the inputs that may move in one behaviour

ASSUME AllInputsWired == Inputs = 1..4
ASSUME DebounceAssumption == Debounce \in Nat
ASSUME EncoderAssumption ==
    /\ CountMin \in Int /\ CountMax \in Int /\ CountMin <= 0 /\ 0 <= CountMax
    /\ CountMin..CountMax \subseteq Counts /\ MaxTurn \in Nat \ {0}
ASSUME SliderAssumption ==
    Readings \subseteq Int /\ Deadband \in Nat /\ 0..100 \subseteq Counts
ASSUME MovingAssumption == MovingSets \subseteq SUBSET Inputs

VARIABLES
    moving,       \* external: the inputs that move, one of MovingSets
    pc,           \* the driver InputManager::run polls next
    station,      \* state_ of the StateManager
    buttonLevel, buttonRaw, buttonStable, buttonPending, buttonElapsed,
    buttonReported, buttonUnseen,
    toggleLevel, toggleRaw, toggleStable, togglePending, toggleElapsed,
    toggleReported, toggleUnseen,
    encoderState, encoderCount, encoderTurned, encoderDial, encoderOverrun,
    encoderReported, encoderRefused,
    sliderReading, sliderStable, sliderPending, sliderReported

buttonVars == <<buttonLevel, buttonRaw, buttonStable, buttonPending,
                buttonElapsed, buttonReported, buttonUnseen>>
toggleVars == <<toggleLevel, toggleRaw, toggleStable, togglePending,
                toggleElapsed, toggleReported, toggleUnseen>>
encoderVars == <<encoderState, encoderCount, encoderTurned, encoderDial,
                 encoderOverrun, encoderReported, encoderRefused>>
sliderVars == <<sliderReading, sliderStable, sliderPending, sliderReported>>
driverVars == <<buttonVars, toggleVars, encoderVars, sliderVars>>
taskVars == <<pc, station>>
vars == <<queue, moving, taskVars, driverVars>>

Button == INSTANCE DigitalInput WITH
    ContactSource <- 1, ActiveEvent <- "ButtonPressed",
    InactiveEvent <- "ButtonReleased",
    level <- buttonLevel, lastRawState <- buttonRaw,
    stableState <- buttonStable, contactPending <- buttonPending,
    elapsed <- buttonElapsed, contactReported <- buttonReported,
    unseen <- buttonUnseen

Toggle == INSTANCE DigitalInput WITH
    ContactSource <- 2, ActiveEvent <- "ToggleChanged",
    InactiveEvent <- "ToggleChanged",
    level <- toggleLevel, lastRawState <- toggleRaw,
    stableState <- toggleStable, contactPending <- togglePending,
    elapsed <- toggleElapsed, contactReported <- toggleReported,
    unseen <- toggleUnseen

Encoder == INSTANCE RotaryEncoder WITH
    Source <- 3, previousState <- encoderState, count <- encoderCount,
    turned <- encoderTurned, dial <- encoderDial, overrun <- encoderOverrun,
    reported <- encoderReported, refused <- encoderRefused

Slider == INSTANCE AnalogInput WITH
    SliderSource <- 4, reading <- sliderReading, stablePercent <- sliderStable,
    initialEventPending <- sliderPending, announced <- sliderReported

Init ==
    /\ Button!ContactInit /\ Toggle!ContactInit
    /\ Encoder!Init /\ Slider!SliderInit
    /\ moving \in MovingSets
    /\ pc = "button" /\ station = InitialStation

(***************************************************************************)
(* InputManager::run: each update() in its turn                            *)
(***************************************************************************)
PollButton ==
    /\ pc = "button" /\ pc' = "toggle"
    /\ Button!ContactUpdate
    /\ UNCHANGED <<moving, station, toggleVars, encoderVars, sliderVars>>

PollToggle ==
    /\ pc = "toggle" /\ pc' = "encoder"
    /\ Toggle!ContactUpdate
    /\ UNCHANGED <<moving, station, buttonVars, encoderVars, sliderVars>>

PollEncoder ==
    /\ pc = "encoder" /\ pc' = "slider"
    /\ Encoder!UpdateMoves \/ Encoder!UpdateIgnores
    /\ UNCHANGED <<moving, station, buttonVars, toggleVars, sliderVars>>

PollSlider ==
    /\ pc = "slider" /\ pc' = "button"
    /\ \/ Slider!UpdateReports \/ Slider!UpdateHolds
       \/ Slider!UpdateReadFails
    /\ UNCHANGED <<moving, station, buttonVars, toggleVars, encoderVars>>

(***************************************************************************)
(* The other tasks and the world                                           *)
(***************************************************************************)
ApplicationReceives ==
    /\ Receive
    /\ station' = StateAfter(station, Received)
    /\ UNCHANGED <<moving, pc, driverVars>>

(* Mutant: a callback that finds the queue full overwrites what is in it.  *)
CallbackOverwrites ==
    /\ queue' = IF QueueHasRoom THEN Append(queue, NoEvent) ELSE <<NoEvent>>
    /\ UNCHANGED <<moving, taskVars, driverVars>>

CallbackSends == Send(NoEvent) /\ UNCHANGED <<moving, taskVars, driverVars>>

WorldMoves ==
    /\ \/ /\ 1 \in moving /\ Button!PinChanges
          /\ UNCHANGED <<toggleVars, encoderVars, sliderVars>>
       \/ /\ 2 \in moving /\ Toggle!PinChanges
          /\ UNCHANGED <<buttonVars, encoderVars, sliderVars>>
       \/ /\ 3 \in moving /\ Encoder!Turn
          /\ UNCHANGED <<buttonVars, toggleVars, sliderVars>>
       \/ /\ 4 \in moving /\ Slider!SliderMoves
          /\ UNCHANGED <<buttonVars, toggleVars, encoderVars>>
    /\ UNCHANGED <<moving, taskVars>>

(* One clock: every debounce interval advances together.                   *)
Tick ==
    /\ Button!Tick /\ Toggle!Tick
    /\ UNCHANGED <<moving, taskVars, encoderVars, sliderVars>>

Next ==
    \/ PollButton \/ PollToggle \/ PollEncoder \/ PollSlider
    \/ ApplicationReceives \/ CallbackSends \/ WorldMoves \/ Tick

Spec == Init /\ [][Next]_vars

(* The input task polls for ever, time passes, the application task        *)
(* receives; and a driver that finds room again and again when it is       *)
(* polled, with something to say, says it once.                            *)
Fairness ==
    /\ WF_vars(PollButton \/ PollToggle \/ PollEncoder \/ PollSlider)
    /\ WF_vars(Tick) /\ WF_vars(ApplicationReceives)
    /\ SF_vars(PollButton /\ Button!ContactReports)
    /\ SF_vars(PollToggle /\ Toggle!ContactReports)
    /\ SF_vars(PollSlider /\ Slider!UpdateReports)

FairSpec == Spec /\ Fairness

(***************************************************************************)
(* Properties                                                              *)
(***************************************************************************)
(* Once the queue has been worked off, the station's field of an input     *)
(* holds v: the last event of the input that is still queued sees to it,   *)
(* or there is none and the field holds v already.                         *)
WillHold(source, v) ==
    LET Own == {i \in DOMAIN queue : queue[i].sourceId = source}
    IN  /\ \A i \in Own : (\A j \in Own : j <= i) =>
              StationValue(StateAfter(station, queue[i]), source) = v
        /\ Own = {} => StationValue(station, source) = v

LevelValue(l) == IF l = "active" THEN 1 ELSE 0

(* Four drivers, two of them the same class, and the callbacks share one   *)
(* queue: every event lands in the field of the input that sent it, so     *)
(* that the station holds, once the queue is worked off, what each driver  *)
(* said last, also when other drivers took the room it needed.             *)
StationFollowsDrivers ==
    /\ buttonReported # "none" => WillHold(1, LevelValue(buttonReported))
    /\ toggleReported # "none" => WillHold(2, LevelValue(toggleReported))
    /\ WillHold(3, encoderReported)
    /\ sliderReported # Slider!NothingReported => WillHold(4, sliderReported)

(* What one driver can tell of the queue: its own events and the rest.     *)
SeenBy(source) ==
    [i \in DOMAIN queue |->
        IF queue[i].sourceId = source THEN queue[i] ELSE NoEvent]

ToggleAlone == INSTANCE DigitalInput WITH
    queue <- SeenBy(2),
    ContactSource <- 2, ActiveEvent <- "ToggleChanged",
    InactiveEvent <- "ToggleChanged",
    level <- toggleLevel, lastRawState <- toggleRaw,
    stableState <- toggleStable, contactPending <- togglePending,
    elapsed <- toggleElapsed, contactReported <- toggleReported,
    unseen <- toggleUnseen

EncoderAlone == INSTANCE RotaryEncoder WITH
    queue <- SeenBy(3),
    Source <- 3, previousState <- encoderState, count <- encoderCount,
    turned <- encoderTurned, dial <- encoderDial, overrun <- encoderOverrun,
    reported <- encoderReported, refused <- encoderRefused

SliderAlone == INSTANCE AnalogInput WITH
    queue <- SeenBy(4),
    SliderSource <- 4, reading <- sliderReading, stablePercent <- sliderStable,
    initialEventPending <- sliderPending, announced <- sliderReported

(* The input task implements each driver's own specification: to a driver  *)
(* the other three are senders that may take the room in the queue, and    *)
(* nothing else.  What the driver modules promise holds in this task.      *)
ImplementsDrivers ==
    ToggleAlone!ContactSpec /\ EncoderAlone!Spec /\ SliderAlone!SliderSpec

(* The input task finds room for the driver it polls, again and again.     *)
RoomFor(driver) == []<>(pc = driver /\ QueueHasRoom)

(* An input that comes to rest reaches the station's state, although the   *)
(* other three take the room it needs in round after round, as long as it  *)
(* gets its turn to find some.  Only the encoder must not be refused: it   *)
(* does not ask again.                                                     *)
RestingInputsReachState ==
    /\ \A l \in Button!Levels :
          /\ RoomFor("button") /\ <>[](buttonLevel = l)
                => <>[](station.button = (l = "active"))
          /\ RoomFor("toggle") /\ <>[](toggleLevel = l)
                => <>[](station.toggle = (l = "active"))
    /\ \A r \in Readings :
          RoomFor("slider") /\ <>[](sliderReading = r)
             => <>[]Slider!Near(station.analog, Slider!rawToPercent(r))
    /\ <>[](encoderTurned = 0 /\ ~encoderRefused)
          => <>[](station.encoder = encoderCount)

=============================================================================
