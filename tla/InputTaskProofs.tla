-------------------------- MODULE InputTaskProofs --------------------------
(***************************************************************************)
(* Four drivers on one queue, for a queue of any size and drivers with any *)
(* constants: the station's state follows every driver, and the task that  *)
(* polls them implements the specification of each.                        *)
(***************************************************************************)
EXTENDS InputTask, EventSequences

USE DEF vars, taskVars, driverVars, buttonVars, toggleVars, encoderVars,
        sliderVars

(***************************************************************************)
(* What is in the queue                                                    *)
(***************************************************************************)
SentEvents == InputEvents \cup {NoEvent}

QueueOK == queue \in Seq(SentEvents)

(* An event sets the field of its own input, and no other's.               *)
LEMMA FieldAfter ==
    ASSUME NEW st \in Stations, NEW e \in SentEvents, NEW s \in 1..4
    PROVE  /\ StateAfter(st, e) \in Stations
           /\ StationValue(StateAfter(st, e), s) =
                 IF e.sourceId = s THEN e.value ELSE StationValue(st, s)
  <1>1. CASE e = NoEvent
    <2>1. e.type = "None" /\ e.sourceId = 0
      BY <1>1 DEF NoEvent, Event, SystemSource
    <2>2. StateAfter(st, e) = st
      BY <2>1 DEF StateAfter, CommandTypes
    <2> QED
      BY <2>1, <2>2
  <1>2. CASE e \in InputEvents
    <2>1. /\ e.type \in InputTypes /\ e.value \in Values
          /\ e.sourceId = SourceOf(e.type) /\ e.value \in ValuesOf(e.type)
      BY <1>2 DEF InputEvents
    <2>2. CASE e.type = "ButtonPressed"
      <3>1. e.sourceId = 1 /\ e.value = 1
        BY <2>1, <2>2 DEF SourceOf, ValuesOf
      <3>2. StateAfter(st, e) = [st EXCEPT !.button = TRUE]
        BY <2>2 DEF StateAfter, CommandTypes
      <3>3. StateAfter(st, e) \in Stations
        BY <2>1, <3>2 DEF Stations
      <3> QED
        BY <2>1, <3>1, <3>2, <3>3 DEF StationValue, Stations
    <2>3. CASE e.type = "ButtonReleased"
      <3>1. e.sourceId = 1 /\ e.value = 0
        BY <2>1, <2>3 DEF SourceOf, ValuesOf
      <3>2. StateAfter(st, e) = [st EXCEPT !.button = FALSE]
        BY <2>3 DEF StateAfter, CommandTypes
      <3>3. StateAfter(st, e) \in Stations
        BY <2>1, <3>2 DEF Stations
      <3> QED
        BY <2>1, <3>1, <3>2, <3>3 DEF StationValue, Stations
    <2>4. CASE e.type = "ToggleChanged"
      <3>1. e.sourceId = 2 /\ e.value \in {0, 1}
        BY <2>1, <2>4 DEF SourceOf, ValuesOf
      <3>2. StateAfter(st, e) = [st EXCEPT !.toggle = e.value # 0]
        BY <2>4 DEF StateAfter, CommandTypes
      <3>3. CASE e.value = 0
        <4>1. StateAfter(st, e) = [st EXCEPT !.toggle = FALSE]
          BY <3>2, <3>3
        <4>2. StateAfter(st, e) \in Stations
          BY <4>1 DEF Stations
        <4> QED
          BY <3>1, <3>3, <4>1, <4>2 DEF StationValue, Stations
      <3>4. CASE e.value = 1
        <4>1. (e.value # 0) = TRUE
          BY <3>4
        <4>2. StateAfter(st, e) = [st EXCEPT !.toggle = TRUE]
          BY <3>2, <4>1, Zenon
        <4>3. StateAfter(st, e) \in Stations
          BY <4>2 DEF Stations
        <4> QED
          BY <3>1, <3>4, <4>2, <4>3 DEF StationValue, Stations
      <3> QED
        BY <3>1, <3>3, <3>4
    <2>5. CASE e.type = "EncoderChanged"
      <3>1. e.sourceId = 3
        BY <2>1, <2>5 DEF SourceOf, ValuesOf
      <3>2. StateAfter(st, e) = [st EXCEPT !.encoder = e.value]
        BY <2>5 DEF StateAfter, CommandTypes
      <3>3. StateAfter(st, e) \in Stations
        BY <2>1, <3>2 DEF Stations
      <3> QED
        BY <2>1, <3>1, <3>2, <3>3 DEF StationValue, Stations
    <2>6. CASE e.type = "AnalogChanged"
      <3>1. e.sourceId = 4
        BY <2>1, <2>6 DEF SourceOf, ValuesOf
      <3>2. StateAfter(st, e) = [st EXCEPT !.analog = e.value]
        BY <2>6 DEF StateAfter, CommandTypes
      <3>3. StateAfter(st, e) \in Stations
        BY <2>1, <3>2 DEF Stations
      <3> QED
        BY <2>1, <3>1, <3>2, <3>3 DEF StationValue, Stations
    <2> QED
      BY <2>1, <2>2, <2>3, <2>4, <2>5, <2>6 DEF InputTypes
  <1> QED
    BY <1>1, <1>2 DEF SentEvents

(* The last event of an input decides; the lemmas of EventSequences follow *)
(* it through the queue.                                                   *)
Says(s, v) ==
    LastSays(queue, s, v) /\ (Absent(queue, s) => StationValue(station, s) = v)

LEMMA SaysIsWillHold ==
    ASSUME QueueOK, station \in Stations, NEW s \in 1..4, NEW v, Says(s, v)
    PROVE  WillHold(s, v)
  <1> DEFINE Own == {i \in DOMAIN queue : queue[i].sourceId = s}
  <1>1. DOMAIN queue = 1..Len(queue) /\ Len(queue) \in Nat
    BY DEF QueueOK
  <1>2. ASSUME NEW i \in Own, \A j \in Own : j <= i
        PROVE  StationValue(StateAfter(station, queue[i]), s) = v
    <2>1. i \in 1..Len(queue) /\ queue[i].sourceId = s /\ queue[i] \in SentEvents
      BY <1>1, ElementOfSeq DEF QueueOK
    <2>2. \A j \in 1..Len(queue) : j > i => queue[j].sourceId # s
      BY <1>1, <1>2
    <2>3. queue[i].value = v
      BY <2>1, <2>2 DEF Says, LastSays
    <2> QED
      BY <2>1, <2>3, FieldAfter
  <1>3. ASSUME Own = {}
        PROVE  StationValue(station, s) = v
    BY <1>1, <1>3 DEF Says, Absent
  <1> QED
    BY <1>2, <1>3 DEF WillHold

(* What a sender that found room has done to what each input says.         *)
Sends(e) == Len(queue) < QueueCapacity /\ queue' = Append(queue, e)

LEMMA SendersSay ==
    ASSUME QueueOK, NEW e \in SentEvents, Sends(e), station' = station,
           NEW s, NEW v
    PROVE  /\ QueueOK'
           /\ e.sourceId = s /\ e.value = v => Says(s, v)'
           /\ e.sourceId # s /\ Says(s, v) => Says(s, v)'
  <1>1. queue' = Append(queue, e) /\ queue \in Seq(SentEvents)
    BY DEF Sends, QueueOK
  <1>2. QueueOK'
    BY <1>1, AppendFacts DEF QueueOK
  <1>3. ASSUME e.sourceId = s, e.value = v
        PROVE  Says(s, v)'
    BY <1>1, <1>3, LastAppended DEF Says
  <1>4. ASSUME e.sourceId # s, Says(s, v)
        PROVE  Says(s, v)'
    BY <1>1, <1>4, LastAppended DEF Says
  <1> QED
    BY <1>2, <1>3, <1>4

LEMMA ReceiverHolds ==
    ASSUME QueueOK, station \in Stations, ApplicationReceives,
           NEW s \in 1..4, NEW v, Says(s, v)
    PROVE  QueueOK' /\ station' \in Stations /\ Says(s, v)'
  <1> DEFINE e == Head(queue)
  <1>1. /\ queue # <<>> /\ queue' = Tail(queue)
        /\ station' = StateAfter(station, e)
    BY DEF ApplicationReceives, Receive, Received
  <1>2. queue \in Seq(SentEvents) /\ e \in SentEvents /\ queue' \in Seq(SentEvents)
    BY <1>1, TailFacts DEF QueueOK
  <1>3. station' \in Stations
           /\ StationValue(station', s) = IF e.sourceId = s THEN e.value
                                          ELSE StationValue(station, s)
    BY <1>1, <1>2, FieldAfter
  <1>4. /\ LastSays(queue', s, v)
        /\ Absent(queue', s) /\ e.sourceId = s => e.value = v
        /\ Absent(queue', s) /\ e.sourceId # s => Absent(queue, s)
    BY <1>1, <1>2, LastOfTail DEF Says
  <1>5. Says(s, v)'
    BY <1>3, <1>4 DEF Says
  <1> QED
    BY <1>2, <1>3, <1>5 DEF QueueOK

(***************************************************************************)
(* The inductive invariant: what each driver said last is what its last    *)
(* event in the queue says or, once that is received, its field            *)
(***************************************************************************)
ButtonSaid == buttonReported # "none" => Says(1, LevelValue(buttonReported))
ToggleSaid == toggleReported # "none" => Says(2, LevelValue(toggleReported))
EncoderSaid == Says(3, encoderReported)
SliderSaid ==
    sliderReported # Slider!NothingReported => Says(4, sliderReported)

(* So that what a driver sends is an event of its input: the encoder stays *)
(* within its counts, the slider on readings.                              *)
DriversInRange ==
    /\ encoderState \in 0..3 /\ encoderTurned \in Int
    /\ encoderCount \in CountMin..CountMax
    /\ sliderReading \in Readings

TaskInv ==
    /\ QueueOK /\ station \in Stations /\ DriversInRange
    /\ ButtonSaid /\ ToggleSaid /\ EncoderSaid /\ SliderSaid

(* A step that leaves queue and station alone leaves what is said alone.   *)
LEMMA QuietKeeps ==
    ASSUME TaskInv, queue' = queue, station' = station
    PROVE  /\ QueueOK' /\ station' \in Stations
           /\ buttonReported' = buttonReported => ButtonSaid'
           /\ toggleReported' = toggleReported => ToggleSaid'
           /\ encoderReported' = encoderReported => EncoderSaid'
           /\ sliderReported' = sliderReported => SliderSaid'
  BY DEF TaskInv, QueueOK, ButtonSaid, ToggleSaid, EncoderSaid, SliderSaid,
         Says, LevelValue, Slider!NothingReported

(* Whoever sends, the inputs that did not still say what they said.        *)
LEMMA OthersStillSay ==
    ASSUME TaskInv, NEW e \in SentEvents, Sends(e), station' = station
    PROVE  /\ QueueOK' /\ station' \in Stations
           /\ e.sourceId # 1 /\ buttonReported' = buttonReported => ButtonSaid'
           /\ e.sourceId # 2 /\ toggleReported' = toggleReported => ToggleSaid'
           /\ e.sourceId # 3 /\ encoderReported' = encoderReported
                 => EncoderSaid'
           /\ e.sourceId # 4 /\ sliderReported' = sliderReported => SliderSaid'
  <1> USE DEF TaskInv
  <1>1. QueueOK' /\ station' \in Stations
    BY SendersSay
  <1>2. ASSUME e.sourceId # 1, buttonReported' = buttonReported
        PROVE  ButtonSaid'
    BY <1>2, SendersSay DEF ButtonSaid, LevelValue
  <1>3. ASSUME e.sourceId # 2, toggleReported' = toggleReported
        PROVE  ToggleSaid'
    BY <1>3, SendersSay DEF ToggleSaid, LevelValue
  <1>4. ASSUME e.sourceId # 3, encoderReported' = encoderReported
        PROVE  EncoderSaid'
    BY <1>4, SendersSay DEF EncoderSaid
  <1>5. ASSUME e.sourceId # 4, sliderReported' = sliderReported
        PROVE  SliderSaid'
    BY <1>5, SendersSay DEF SliderSaid, Slider!NothingReported
  <1> QED
    BY <1>1, <1>2, <1>3, <1>4, <1>5

LEMMA ReceiverKeeps ==
    ASSUME TaskInv, ApplicationReceives
    PROVE  TaskInv'
  <1> USE DEF TaskInv
  <1>1. UNCHANGED <<buttonReported, toggleReported, encoderReported,
                    sliderReported, encoderState, encoderTurned,
                    encoderCount, sliderReading>>
    BY DEF ApplicationReceives
  <1>2. QueueOK' /\ station' \in Stations
    BY ReceiverHolds DEF EncoderSaid
  <1>3. ButtonSaid'
    BY <1>1, ReceiverHolds DEF ButtonSaid, LevelValue
  <1>4. ToggleSaid'
    BY <1>1, ReceiverHolds DEF ToggleSaid, LevelValue
  <1>5. EncoderSaid' /\ SliderSaid'
    BY <1>1, ReceiverHolds DEF EncoderSaid, SliderSaid, Slider!NothingReported
  <1>6. DriversInRange'
    BY <1>1 DEF DriversInRange
  <1> QED
    BY <1>2, <1>3, <1>4, <1>5, <1>6

(***************************************************************************)
(* What the drivers send                                                   *)
(***************************************************************************)
LEMMA LevelEvents ==
    ASSUME NEW l
    PROVE  /\ Button!Report(l) \in SentEvents /\ Button!Report(l).sourceId = 1
           /\ Button!Report(l).value = LevelValue(l)
           /\ Toggle!Report(l) \in SentEvents /\ Toggle!Report(l).sourceId = 2
           /\ Toggle!Report(l).value = LevelValue(l)
  BY AllInputsWired
     DEF Button!Report, Button!Event, Toggle!Report, Toggle!Event, LevelValue,
         SentEvents, InputEvents, InputTypes, SourceOf, ValuesOf, Values

CountEvent(n) == Event("EncoderChanged", 3, n, 0)
PercentEvent(n) == Event("AnalogChanged", 4, n, 0)

LEMMA NumberEvents ==
    ASSUME NEW n
    PROVE  /\ n \in CountMin..CountMax => CountEvent(n) \in SentEvents
           /\ CountEvent(n).sourceId = 3 /\ CountEvent(n).value = n
           /\ n \in 0..100 => PercentEvent(n) \in SentEvents
           /\ PercentEvent(n).sourceId = 4 /\ PercentEvent(n).value = n
  BY AllInputsWired, EncoderAssumption, SliderAssumption
     DEF CountEvent, PercentEvent, Event, SentEvents, InputEvents, InputTypes,
         SourceOf, ValuesOf, Values

LEMMA NothingIsSent ==
    NoEvent \in SentEvents /\ NoEvent.sourceId = 0
  BY DEF SentEvents, NoEvent, Event, SystemSource

(***************************************************************************)
(* The four polls                                                          *)
(***************************************************************************)
LEMMA ButtonKeeps ==
    ASSUME TaskInv, PollButton
    PROVE  TaskInv'
  <1> USE DEF TaskInv
  <1>1. /\ UNCHANGED <<station, toggleReported, encoderReported,
                       sliderReported, encoderState, encoderTurned,
                       encoderCount, sliderReading>>
        /\ Button!ContactReports \/ Button!ContactHolds
    BY DEF PollButton, Button!ContactUpdate
  <1>2. DriversInRange'
    BY <1>1 DEF DriversInRange
  <1>3. CASE Button!ContactReports
    <2> DEFINE e == Button!Report(buttonLevel)
    <2>1. Sends(e) /\ buttonReported' = buttonLevel /\ buttonLevel' = buttonLevel
      BY <1>3 DEF Button!ContactReports, Button!Send, Button!QueueHasRoom, Sends
    <2>2. /\ e \in SentEvents /\ e.sourceId = 1
          /\ e.value = LevelValue(buttonLevel)
      BY LevelEvents
    <2> HIDE DEF e
    <2>3. Says(1, LevelValue(buttonLevel))'
      BY <1>1, <2>1, <2>2, SendersSay DEF LevelValue
    <2>4. ButtonSaid'
      BY <2>1, <2>3 DEF ButtonSaid, LevelValue
    <2> QED
      BY <1>1, <1>2, <2>1, <2>2, <2>4, OthersStillSay
  <1>4. CASE Button!ContactHolds
    <2>1. queue' = queue /\ buttonReported' = buttonReported
      BY <1>4 DEF Button!ContactHolds
    <2> QED
      BY <1>1, <1>2, <2>1, QuietKeeps
  <1> QED
    BY <1>1, <1>3, <1>4

LEMMA ToggleKeeps ==
    ASSUME TaskInv, PollToggle
    PROVE  TaskInv'
  <1> USE DEF TaskInv
  <1>1. /\ UNCHANGED <<station, buttonReported, encoderReported,
                       sliderReported, encoderState, encoderTurned,
                       encoderCount, sliderReading>>
        /\ Toggle!ContactReports \/ Toggle!ContactHolds
    BY DEF PollToggle, Toggle!ContactUpdate
  <1>2. DriversInRange'
    BY <1>1 DEF DriversInRange
  <1>3. CASE Toggle!ContactReports
    <2> DEFINE e == Toggle!Report(toggleLevel)
    <2>1. Sends(e) /\ toggleReported' = toggleLevel /\ toggleLevel' = toggleLevel
      BY <1>3 DEF Toggle!ContactReports, Toggle!Send, Toggle!QueueHasRoom, Sends
    <2>2. /\ e \in SentEvents /\ e.sourceId = 2
          /\ e.value = LevelValue(toggleLevel)
      BY LevelEvents
    <2> HIDE DEF e
    <2>3. Says(2, LevelValue(toggleLevel))'
      BY <1>1, <2>1, <2>2, SendersSay DEF LevelValue
    <2>4. ToggleSaid'
      BY <2>1, <2>3 DEF ToggleSaid, LevelValue
    <2> QED
      BY <1>1, <1>2, <2>1, <2>2, <2>4, OthersStillSay
  <1>4. CASE Toggle!ContactHolds
    <2>1. queue' = queue /\ toggleReported' = toggleReported
      BY <1>4 DEF Toggle!ContactHolds
    <2> QED
      BY <1>1, <1>2, <2>1, QuietKeeps
  <1> QED
    BY <1>1, <1>3, <1>4

(* What a poll of the encoder reads, and the step the table makes of it.   *)
LEMMA EncoderReads ==
    ASSUME DriversInRange
    PROVE  /\ Encoder!currentState \in 0..3 /\ Encoder!movement \in -1..1
           /\ encoderCount \in Int
  <1> DEFINE position == CHOOSE i \in 1..4 : Encoder!GrayCycle[i] = encoderState
             next == ((position - 1 + encoderTurned) % 4) + 1
             index == encoderState * 4 + Encoder!currentState + 1
  <1>1. position \in 1..4
    <2>1. \E i \in 1..4 : Encoder!GrayCycle[i] = encoderState
      <3>1. /\ Encoder!GrayCycle[1] = 0 /\ Encoder!GrayCycle[2] = 2
            /\ Encoder!GrayCycle[3] = 3 /\ Encoder!GrayCycle[4] = 1
        BY DEF Encoder!GrayCycle
      <3>2. encoderState \in {0, 1, 2, 3}
        BY DEF DriversInRange
      <3>3. {1, 2, 3, 4} \subseteq 1..4
        OBVIOUS
      <3> QED
        BY <3>1, <3>2, <3>3
    <2> QED
      BY <2>1
  <1> HIDE DEF position
  <1>2. next \in 1..4
    BY <1>1 DEF DriversInRange
  <1>3. Encoder!currentState = Encoder!GrayCycle[next]
    BY DEF Encoder!currentState, Encoder!PhaseAfter, position
  <1> HIDE DEF next
  <1>4. Encoder!currentState \in 0..3
    BY <1>2, <1>3 DEF Encoder!GrayCycle
  <1>5. index \in 1..16
    BY <1>4 DEF DriversInRange
  <1>6. Encoder!movement = Encoder!TransitionTable[index]
    BY DEF Encoder!movement
  <1> HIDE DEF index
  <1>7. Encoder!TransitionTable[index] \in -1..1
    BY <1>5 DEF Encoder!TransitionTable
  <1> QED
    BY <1>4, <1>6, <1>7, EncoderAssumption DEF DriversInRange

LEMMA EncoderKeeps ==
    ASSUME TaskInv, PollEncoder
    PROVE  TaskInv'
  <1> USE DEF TaskInv
  <1>1. /\ UNCHANGED <<station, buttonReported, toggleReported,
                       sliderReported, sliderReading>>
        /\ Encoder!UpdateMoves \/ Encoder!UpdateIgnores
    BY DEF PollEncoder
  <1>2. encoderState' \in 0..3 /\ encoderTurned' = 0
    BY <1>1, EncoderReads
       DEF Encoder!UpdateMoves, Encoder!UpdateIgnores, Encoder!Poll
  <1>3. CASE Encoder!UpdateMoves
    <2> DEFINE moved == encoderCount + Encoder!movement
               e == CountEvent(moved)
    <2>1. /\ encoderCount' = moved
          /\ queue' = IF Encoder!QueueHasRoom THEN Append(queue, e) ELSE queue
          /\ encoderReported' = IF Encoder!QueueHasRoom THEN moved
                                ELSE encoderReported
      BY <1>3 DEF Encoder!UpdateMoves, Encoder!SendOrDrop, CountEvent,
                  Event, Encoder!Event
    <2>2. moved \in CountMin..CountMax
      BY <1>3, EncoderReads, EncoderAssumption
         DEF Encoder!UpdateMoves, Encoder!Saturated, DriversInRange
    <2> HIDE DEF moved
    <2>3. e \in SentEvents /\ e.sourceId = 3 /\ e.value = moved
      BY <2>2, NumberEvents
    <2> HIDE DEF e
    <2>4. DriversInRange'
      BY <1>1, <1>2, <2>1, <2>2 DEF DriversInRange
    <2>5. CASE Encoder!QueueHasRoom
      <3>1. Sends(e) /\ encoderReported' = moved
        BY <2>1, <2>5 DEF Sends, Encoder!QueueHasRoom
      <3>2. EncoderSaid'
        BY <1>1, <2>3, <3>1, SendersSay DEF EncoderSaid
      <3> QED
        BY <1>1, <2>3, <2>4, <3>1, <3>2, OthersStillSay
    <2>6. CASE ~Encoder!QueueHasRoom
      <3>1. queue' = queue /\ encoderReported' = encoderReported
        BY <2>1, <2>6
      <3> QED
        BY <1>1, <2>4, <3>1, QuietKeeps
    <2> QED
      BY <2>5, <2>6
  <1>4. CASE Encoder!UpdateIgnores
    <2>1. UNCHANGED <<queue, encoderCount, encoderReported>>
      BY <1>4 DEF Encoder!UpdateIgnores
    <2>2. DriversInRange'
      BY <1>1, <1>2, <2>1 DEF DriversInRange
    <2> QED
      BY <1>1, <2>1, <2>2, QuietKeeps
  <1> QED
    BY <1>1, <1>3, <1>4

LEMMA SliderReads ==
    ASSUME DriversInRange
    PROVE  Slider!currentPercent \in 0..100
  <1> DEFINE clamped == IF sliderReading < 0 THEN 0
                        ELSE IF sliderReading > 4095 THEN 4095
                        ELSE sliderReading
  <1>1. clamped \in 0..4095
    BY SliderAssumption DEF DriversInRange
  <1>2. Slider!currentPercent = (clamped * 100) \div 4095
    BY DEF Slider!currentPercent, Slider!rawToPercent, Slider!AdcMaxValue
  <1> HIDE DEF clamped
  <1>3. (clamped * 100) \div 4095 \in 0..100
    BY <1>1
  <1> QED
    BY <1>2, <1>3

LEMMA SliderKeeps ==
    ASSUME TaskInv, PollSlider
    PROVE  TaskInv'
  <1> USE DEF TaskInv
  <1>1. /\ UNCHANGED <<station, buttonReported, toggleReported,
                       encoderReported, encoderState, encoderTurned,
                       encoderCount>>
        /\ \/ Slider!UpdateReports \/ Slider!UpdateHolds
           \/ Slider!UpdateReadFails
    BY DEF PollSlider
  <1>2. CASE Slider!UpdateReports
    <2> DEFINE percent == Slider!currentPercent
               e == PercentEvent(percent)
    <2>1. /\ queue' = Append(queue, e) /\ Len(queue) < QueueCapacity
          /\ sliderReported' = percent /\ sliderReading' = sliderReading
      BY <1>2 DEF Slider!UpdateReports, Slider!Send, Slider!QueueHasRoom,
                  PercentEvent, Event, Slider!Event
    <2>2. percent \in 0..100
      BY SliderReads
    <2>3. e \in SentEvents /\ e.sourceId = 4 /\ e.value = percent
      <3> HIDE DEF percent
      <3> QED
        BY <2>2, NumberEvents
    <2>4. DriversInRange'
      BY <1>1, <2>1 DEF DriversInRange
    <2>5. Says(4, sliderReported)'
      <3> HIDE DEF e, percent
      <3> QED
        BY <1>1, <2>1, <2>3, SendersSay DEF Sends
    <2>6. SliderSaid'
      BY <2>5 DEF SliderSaid
    <2> HIDE DEF e, percent
    <2> QED
      BY <1>1, <2>1, <2>3, <2>4, <2>6, OthersStillSay DEF Sends
  <1>3. CASE Slider!UpdateHolds \/ Slider!UpdateReadFails
    <2>1. UNCHANGED <<queue, sliderReading, sliderReported>>
      BY <1>3 DEF Slider!UpdateHolds, Slider!UpdateReadFails, Slider!sliderVars
    <2>2. DriversInRange'
      BY <1>1, <2>1 DEF DriversInRange
    <2> QED
      BY <1>1, <2>1, <2>2, QuietKeeps
  <1> QED
    BY <1>1, <1>2, <1>3

(***************************************************************************)
(* The others, and the theorem                                             *)
(***************************************************************************)
LEMMA CallbackKeeps ==
    ASSUME TaskInv, CallbackSends
    PROVE  TaskInv'
  <1>1. /\ Sends(NoEvent)
        /\ UNCHANGED <<station, buttonReported, toggleReported,
                       encoderReported, sliderReported, encoderState,
                       encoderTurned, encoderCount, sliderReading>>
    BY DEF CallbackSends, Send, QueueHasRoom, Sends
  <1>2. DriversInRange'
    BY <1>1 DEF DriversInRange, TaskInv
  <1> QED
    BY <1>1, <1>2, NothingIsSent, OthersStillSay DEF TaskInv

LEMMA WorldKeeps ==
    ASSUME TaskInv, WorldMoves \/ Tick \/ UNCHANGED vars
    PROVE  TaskInv'
  <1>1. /\ queue' = queue /\ station' = station
        /\ buttonReported' = buttonReported /\ toggleReported' = toggleReported
        /\ encoderReported' = encoderReported
        /\ sliderReported' = sliderReported
    <2>1. CASE WorldMoves
      BY <2>1
         DEF WorldMoves, Button!PinChanges, Toggle!PinChanges, Encoder!Turn,
             Slider!SliderMoves, Button!contactFields, Button!contactHistory,
             Toggle!contactFields, Toggle!contactHistory,
             Encoder!encoderVars, Encoder!historyVars, Slider!analogVars
    <2>2. CASE Tick
      BY <2>2 DEF Tick, Button!Tick, Toggle!Tick
    <2> QED
      BY <2>1, <2>2
  <1>2. DriversInRange'
    <2>1. CASE WorldMoves
      BY <2>1
         DEF WorldMoves, Button!PinChanges, Toggle!PinChanges, Encoder!Turn,
             Slider!SliderMoves, Encoder!encoderVars, TaskInv, DriversInRange
    <2>2. CASE Tick \/ UNCHANGED vars
      BY <2>2 DEF Tick, TaskInv, DriversInRange
    <2> QED
      BY <2>1, <2>2
  <1> QED
    BY <1>1, <1>2, QuietKeeps DEF TaskInv

LEMMA TaskStarts ==
    ASSUME Init
    PROVE  TaskInv
  <1>1. /\ queue = << >> /\ station = InitialStation
        /\ buttonReported = "none" /\ toggleReported = "none"
        /\ encoderReported = 0 /\ encoderState \in 0..3
        /\ encoderTurned = 0 /\ encoderCount = 0
        /\ sliderReading \in Readings
        /\ sliderReported = Slider!NothingReported
    BY DEF Init, Button!ContactInit, Button!QueueInit, Toggle!ContactInit,
           Encoder!Init, Slider!SliderInit
  <1>2. QueueOK
    BY <1>1, EmptyMessages DEF QueueOK
  <1>3. station \in Stations /\ StationValue(station, 3) = 0
    BY <1>1 DEF InitialStation, Stations, StationValue, Values
  <1>4. EncoderSaid
    BY <1>1, <1>3, NothingSays DEF EncoderSaid, Says
  <1>5. DriversInRange
    BY <1>1, EncoderAssumption DEF DriversInRange
  <1> QED
    BY <1>1, <1>2, <1>3, <1>4, <1>5
       DEF TaskInv, ButtonSaid, ToggleSaid, SliderSaid

LEMMA TaskStep ==
    ASSUME TaskInv, [Next]_vars
    PROVE  TaskInv'
  <1> QED
    BY ButtonKeeps, ToggleKeeps, EncoderKeeps, SliderKeeps, ReceiverKeeps,
       CallbackKeeps, WorldKeeps
       DEF Next

LEMMA TaskInvariant == Spec => []TaskInv
  BY TaskStarts, TaskStep, PTL DEF Spec

(* InputManager::run with its four drivers, the network callbacks and      *)
(* Application::run on one event queue, for a queue of any size: what a    *)
(* driver said last is in the station's state as soon as the queue has     *)
(* been worked off, whoever else took room in it.                          *)
THEOREM StationFollows == Spec => []StationFollowsDrivers
  <1>1. TaskInv => StationFollowsDrivers
    <2> SUFFICES ASSUME TaskInv
                 PROVE  StationFollowsDrivers
      OBVIOUS
    <2>1. QueueOK /\ station \in Stations
      BY DEF TaskInv
    <2>2. buttonReported # "none" => WillHold(1, LevelValue(buttonReported))
      BY <2>1, SaysIsWillHold DEF TaskInv, ButtonSaid
    <2>3. toggleReported # "none" => WillHold(2, LevelValue(toggleReported))
      BY <2>1, SaysIsWillHold DEF TaskInv, ToggleSaid
    <2>4. WillHold(3, encoderReported)
      BY <2>1, SaysIsWillHold DEF TaskInv, EncoderSaid
    <2>5. sliderReported # Slider!NothingReported
             => WillHold(4, sliderReported)
      BY <2>1, SaysIsWillHold DEF TaskInv, SliderSaid
    <2> QED
      BY <2>2, <2>3, <2>4, <2>5 DEF StationFollowsDrivers
  <1> QED
    BY <1>1, TaskInvariant, PTL

(***************************************************************************)
(* The queue as one driver sees it                                         *)
(***************************************************************************)
Own(e, s) == IF e.sourceId = s THEN e ELSE NoEvent

Seen(q, s) == [i \in 1..Len(q) |-> Own(q[i], s)]

LEMMA SeenShape ==
    ASSUME NEW q \in Seq(SentEvents), NEW s
    PROVE  /\ Seen(q, s) \in Seq(SentEvents) /\ Len(Seen(q, s)) = Len(q)
           /\ \A i \in 1..Len(q) : Seen(q, s)[i] = Own(q[i], s)
  <1>1. Len(q) \in Nat /\ \A i \in 1..Len(q) : q[i] \in SentEvents
    BY ElementOfSeq
  <1>2. \A i \in 1..Len(q) : Own(q[i], s) \in SentEvents
    BY <1>1, NothingIsSent DEF Own
  <1>3. Seen(q, s) \in [1..Len(q) -> SentEvents]
    BY <1>2 DEF Seen
  <1> QED
    BY <1>1, <1>3 DEF Seen

LEMMA SeenAppended ==
    ASSUME NEW q \in Seq(SentEvents), NEW e \in SentEvents, NEW s
    PROVE  Seen(Append(q, e), s) = Append(Seen(q, s), Own(e, s))
  <1> DEFINE a == Seen(Append(q, e), s)
             b == Append(Seen(q, s), Own(e, s))
  <1>1. Own(e, s) \in SentEvents
    BY NothingIsSent DEF Own
  <1>2. /\ Append(q, e) \in Seq(SentEvents) /\ Len(Append(q, e)) = Len(q) + 1
        /\ Len(q) \in Nat
        /\ Append(q, e)[Len(q) + 1] = e
        /\ \A i \in 1..Len(q) : Append(q, e)[i] = q[i]
    BY AppendFacts
  <1>3. /\ a \in Seq(SentEvents) /\ Len(a) = Len(q) + 1
        /\ \A i \in 1..(Len(q) + 1) : a[i] = Own(Append(q, e)[i], s)
    BY <1>2, SeenShape
  <1>4. /\ b \in Seq(SentEvents) /\ Len(b) = Len(q) + 1
        /\ b[Len(q) + 1] = Own(e, s)
        /\ \A i \in 1..Len(q) : b[i] = Own(q[i], s)
    BY <1>1, SeenShape, AppendFacts
  <1> HIDE DEF a, b
  <1>5. \A i \in 1..Len(a) : a[i] = b[i]
    BY <1>2, <1>3, <1>4
  <1>6. a = b
    BY <1>3, <1>4, <1>5, SeqEqual
  <1> QED
    BY <1>6 DEF a, b

LEMMA SeenTail ==
    ASSUME NEW q \in Seq(SentEvents), q # <<>>, NEW s
    PROVE  Seen(Tail(q), s) = Tail(Seen(q, s)) /\ Seen(q, s) # <<>>
  <1> DEFINE a == Seen(Tail(q), s)
             b == Tail(Seen(q, s))
  <1>1. /\ Tail(q) \in Seq(SentEvents) /\ Len(Tail(q)) = Len(q) - 1
        /\ Len(q) \in Nat \ {0}
        /\ \A i \in 1..(Len(q) - 1) : Tail(q)[i] = q[i + 1]
    BY TailFacts
  <1>2. /\ a \in Seq(SentEvents) /\ Len(a) = Len(q) - 1
        /\ \A i \in 1..(Len(q) - 1) : a[i] = Own(q[i + 1], s)
    <2>1. /\ a \in Seq(SentEvents) /\ Len(a) = Len(Tail(q))
          /\ \A i \in 1..Len(Tail(q)) : a[i] = Own(Tail(q)[i], s)
      BY <1>1, SeenShape
    <2> HIDE DEF a
    <2> QED
      BY <1>1, <2>1
  <1>3. Seen(q, s) # <<>>
    BY <1>1, SeenShape, EmptyMessages
  <1>4. /\ b \in Seq(SentEvents) /\ Len(b) = Len(q) - 1
        /\ \A i \in 1..(Len(q) - 1) : b[i] = Seen(q, s)[i + 1]
    BY <1>3, SeenShape, TailFacts
  <1>5. \A i \in 1..(Len(q) - 1) : b[i] = Own(q[i + 1], s)
    BY <1>1, <1>4, SeenShape
  <1> HIDE DEF a, b
  <1>6. a = b
    BY <1>2, <1>4, <1>5, SeqEqual
  <1> QED
    BY <1>3, <1>6 DEF a, b

LEMMA SeenByIsSeen ==
    ASSUME QueueOK, NEW s
    PROVE  SeenBy(s) = Seen(queue, s) /\ Len(SeenBy(s)) = Len(queue)
  <1>1. DOMAIN queue = 1..Len(queue)
    BY DEF QueueOK
  <1>2. SeenBy(s) = Seen(queue, s)
    BY <1>1 DEF SeenBy, Seen, Own
  <1>3. Len(Seen(queue, s)) = Len(queue)
    BY SeenShape DEF QueueOK
  <1> QED
    BY <1>2, <1>3

(* What sender, receiver and others do to it.                              *)
LEMMA SendIsSeen ==
    ASSUME QueueOK, NEW e \in SentEvents, Sends(e), NEW s
    PROVE  /\ Len(SeenBy(s)) < QueueCapacity
           /\ SeenBy(s)' = Append(SeenBy(s), Own(e, s))
  <1>1. queue' = Append(queue, e) /\ Len(queue) < QueueCapacity
    BY DEF Sends
  <1>2. QueueOK'
    BY <1>1, AppendFacts DEF QueueOK
  <1>3. SeenBy(s)' = Seen(queue', s)
    <2>1. DOMAIN queue' = 1..Len(queue')
      BY <1>2 DEF QueueOK
    <2> QED
      BY <2>1 DEF SeenBy, Seen, Own
  <1> QED
    BY <1>1, <1>3, SeenByIsSeen, SeenAppended DEF QueueOK

LEMMA ReceiveIsSeen ==
    ASSUME QueueOK, Receive, NEW s
    PROVE  SeenBy(s) # <<>> /\ SeenBy(s)' = Tail(SeenBy(s))
  <1>1. queue # <<>> /\ queue' = Tail(queue)
    BY DEF Receive
  <1>2. QueueOK'
    BY <1>1, TailFacts DEF QueueOK
  <1>3. SeenBy(s)' = Seen(queue', s)
    <2>1. DOMAIN queue' = 1..Len(queue')
      BY <1>2 DEF QueueOK
    <2> QED
      BY <2>1 DEF SeenBy, Seen, Own
  <1> QED
    BY <1>1, <1>3, SeenByIsSeen, SeenTail DEF QueueOK

LEMMA NothingIsSeen ==
    ASSUME queue' = queue, NEW s
    PROVE  SeenBy(s)' = SeenBy(s)
  BY DEF SeenBy

LEMMA NothingToSee ==
    ASSUME queue = <<>>, NEW s
    PROVE  SeenBy(s) = <<>>
  <1>1. QueueOK
    BY EmptyMessages DEF QueueOK
  <1> QED
    BY <1>1, SeenByIsSeen, SeenShape DEF QueueOK

(***************************************************************************)
(* Every step of the task is a step of each driver's own specification     *)
(***************************************************************************)
(* What a driver sees while it does nothing itself: nothing, or a sender   *)
(* that takes room.                                                        *)
Bystander(s) ==
    \/ SeenBy(s)' = SeenBy(s)
    \/ /\ Len(SeenBy(s)) < QueueCapacity
       /\ SeenBy(s)' = Append(SeenBy(s), NoEvent)

LEMMA OthersPoll ==
    ASSUME TaskInv, NEW s \in 1..4
    PROVE  /\ PollButton /\ s # 1 => Bystander(s)
           /\ PollToggle /\ s # 2 => Bystander(s)
           /\ PollEncoder /\ s # 3 => Bystander(s)
           /\ PollSlider /\ s # 4 => Bystander(s)
           /\ CallbackSends => Bystander(s)
           /\ WorldMoves \/ Tick \/ UNCHANGED vars => SeenBy(s)' = SeenBy(s)
  <1>1. ASSUME NEW e \in SentEvents, Sends(e), e.sourceId # s
        PROVE  Bystander(s)
    BY <1>1, SendIsSeen DEF TaskInv, Own, Bystander
  <1>2. ASSUME queue' = queue
        PROVE  SeenBy(s)' = SeenBy(s)
    BY <1>2, NothingIsSeen
  <1>3. ASSUME PollButton, s # 1
        PROVE  Bystander(s)
    <2>1. CASE Button!ContactReports
      <3>1. Sends(Button!Report(buttonLevel))
        BY <2>1
           DEF Button!ContactReports, Button!Send, Button!QueueHasRoom, Sends
      <3> QED
        BY <1>1, <1>3, <3>1, LevelEvents
    <2>2. CASE Button!ContactHolds
      BY <1>2, <2>2 DEF Button!ContactHolds, Bystander
    <2> QED
      BY <1>3, <2>1, <2>2 DEF PollButton, Button!ContactUpdate
  <1>4. ASSUME PollToggle, s # 2
        PROVE  Bystander(s)
    <2>1. CASE Toggle!ContactReports
      <3>1. Sends(Toggle!Report(toggleLevel))
        BY <2>1
           DEF Toggle!ContactReports, Toggle!Send, Toggle!QueueHasRoom, Sends
      <3> QED
        BY <1>1, <1>4, <3>1, LevelEvents
    <2>2. CASE Toggle!ContactHolds
      BY <1>2, <2>2 DEF Toggle!ContactHolds, Bystander
    <2> QED
      BY <1>4, <2>1, <2>2 DEF PollToggle, Toggle!ContactUpdate
  <1>5. ASSUME PollEncoder, s # 3
        PROVE  Bystander(s)
    <2>1. CASE Encoder!UpdateMoves
      <3> DEFINE moved == encoderCount + Encoder!movement
      <3>1. queue' = IF Encoder!QueueHasRoom
                     THEN Append(queue, CountEvent(moved)) ELSE queue
        BY <2>1 DEF Encoder!UpdateMoves, Encoder!SendOrDrop, CountEvent,
                    Event, Encoder!Event
      <3>2. moved \in CountMin..CountMax
        BY <2>1, EncoderReads, EncoderAssumption
           DEF Encoder!UpdateMoves, Encoder!Saturated, DriversInRange, TaskInv
      <3> HIDE DEF moved
      <3>3. CASE Encoder!QueueHasRoom
        BY <1>1, <1>5, <3>1, <3>2, <3>3, NumberEvents
           DEF Sends, Encoder!QueueHasRoom
      <3>4. CASE ~Encoder!QueueHasRoom
        BY <1>2, <3>1, <3>4 DEF Bystander
      <3> QED
        BY <3>3, <3>4
    <2>2. CASE Encoder!UpdateIgnores
      BY <1>2, <2>2 DEF Encoder!UpdateIgnores, Bystander
    <2> QED
      BY <1>5, <2>1, <2>2 DEF PollEncoder
  <1>6. ASSUME PollSlider, s # 4
        PROVE  Bystander(s)
    <2>1. CASE Slider!UpdateReports
      <3>1. Sends(PercentEvent(Slider!currentPercent))
        BY <2>1 DEF Slider!UpdateReports, Slider!Send, Slider!QueueHasRoom,
                    PercentEvent, Event, Slider!Event, Sends
      <3> QED
        BY <1>1, <1>6, <3>1, SliderReads, NumberEvents DEF TaskInv
    <2>2. CASE Slider!UpdateHolds \/ Slider!UpdateReadFails
      BY <1>2, <2>2
         DEF Slider!UpdateHolds, Slider!UpdateReadFails, Slider!sliderVars,
             Bystander
    <2> QED
      BY <1>6, <2>1, <2>2 DEF PollSlider
  <1>7. CallbackSends => Bystander(s)
    BY <1>1, NothingIsSent DEF CallbackSends, Send, QueueHasRoom, Sends
  <1>8. WorldMoves \/ Tick \/ UNCHANGED vars => queue' = queue
    BY DEF WorldMoves, Tick, Button!PinChanges, Toggle!PinChanges,
           Encoder!Turn, Slider!SliderMoves, Button!Tick
  <1> QED
    BY <1>2, <1>3, <1>4, <1>5, <1>6, <1>7, <1>8

LEMMA ToggleStep ==
    ASSUME TaskInv, [Next]_vars
    PROVE  [ToggleAlone!ContactNext]_(ToggleAlone!contactVars)
  <1> USE DEF ToggleAlone!contactVars, ToggleAlone!pinVars,
              ToggleAlone!contactFields, ToggleAlone!contactHistory,
              ToggleAlone!ContactNext, ToggleAlone!ContactUpdate
  <1>1. ASSUME Bystander(2), UNCHANGED toggleVars
        PROVE  [ToggleAlone!ContactNext]_(ToggleAlone!contactVars)
    BY <1>1 DEF Bystander, ToggleAlone!ContactOthersSend, ToggleAlone!Send,
                ToggleAlone!QueueHasRoom, ToggleAlone!NoEvent,
                ToggleAlone!Event, ToggleAlone!SystemSource, NoEvent, Event,
                SystemSource
  <1>2. CASE PollButton \/ PollEncoder \/ PollSlider \/ CallbackSends
    <2>1. UNCHANGED toggleVars
      BY <1>2 DEF PollButton, PollEncoder, PollSlider, CallbackSends
    <2> QED
      BY <1>1, <1>2, <2>1, OthersPoll
  <1>3. CASE PollToggle /\ Toggle!ContactReports
    <2> DEFINE e == Toggle!Report(toggleLevel)
    <2>1. Sends(e)
      BY <1>3 DEF Toggle!ContactReports, Toggle!Send, Toggle!QueueHasRoom, Sends
    <2>2. Own(e, 2) = e /\ e \in SentEvents
      BY LevelEvents DEF Own
    <2>3. Len(SeenBy(2)) < QueueCapacity /\ SeenBy(2)' = Append(SeenBy(2), e)
      BY <2>1, <2>2, SendIsSeen DEF TaskInv
    <2>4. e = ToggleAlone!Report(toggleLevel)
      BY DEF Toggle!Report, Toggle!Event, ToggleAlone!Report,
             ToggleAlone!Event
    <2> HIDE DEF e
    <2>5. ToggleAlone!Send(ToggleAlone!Report(toggleLevel))
      BY <2>3, <2>4 DEF ToggleAlone!Send, ToggleAlone!QueueHasRoom
    <2>6. ToggleAlone!ContactDue /\ ToggleAlone!Sample
      BY <1>3 DEF Toggle!ContactReports, Toggle!ContactDue, Toggle!Sample,
                  Toggle!SinceChange, ToggleAlone!ContactDue,
                  ToggleAlone!Sample, ToggleAlone!SinceChange
    <2>7. ToggleAlone!ContactReports
      BY <1>3, <2>5, <2>6 DEF Toggle!ContactReports, ToggleAlone!ContactReports
    <2> QED
      BY <2>7
  <1>4. CASE PollToggle /\ Toggle!ContactHolds
    <2>1. queue' = queue
      BY <1>4 DEF Toggle!ContactHolds
    <2>2. SeenBy(2)' = SeenBy(2) /\ Len(SeenBy(2)) = Len(queue)
      BY <2>1, NothingIsSeen, SeenByIsSeen DEF TaskInv
    <2>3. ~(ToggleAlone!ContactDue /\ ToggleAlone!QueueHasRoom)
      BY <1>4, <2>2
         DEF Toggle!ContactHolds, Toggle!ContactDue, Toggle!SinceChange,
             Toggle!QueueHasRoom, ToggleAlone!ContactDue,
             ToggleAlone!SinceChange, ToggleAlone!QueueHasRoom
    <2>4. ToggleAlone!Sample
      BY <1>4 DEF Toggle!ContactHolds, Toggle!Sample, Toggle!SinceChange,
                  ToggleAlone!Sample, ToggleAlone!SinceChange
    <2>5. ToggleAlone!ContactHolds
      BY <1>4, <2>2, <2>3, <2>4
         DEF Toggle!ContactHolds, ToggleAlone!ContactHolds
    <2> QED
      BY <2>5
  <1>5. CASE ApplicationReceives
    <2>1. SeenBy(2) # <<>> /\ SeenBy(2)' = Tail(SeenBy(2))
      BY <1>5, ReceiveIsSeen DEF ApplicationReceives, TaskInv
    <2> QED
      BY <1>5, <2>1
         DEF ApplicationReceives, ToggleAlone!ContactDrained,
             ToggleAlone!Receive
  <1>6. CASE WorldMoves
    <2>1. SeenBy(2)' = SeenBy(2)
      BY <1>6, OthersPoll
    <2> QED
      BY <1>6, <2>1
         DEF WorldMoves, Toggle!PinChanges, Toggle!contactFields,
             Toggle!contactHistory, Toggle!Other, Toggle!Levels,
             ToggleAlone!PinChanges, ToggleAlone!Other, ToggleAlone!Levels
  <1>7. CASE Tick
    <2>1. SeenBy(2)' = SeenBy(2)
      BY <1>7, OthersPoll
    <2> QED
      BY <1>7, <2>1
         DEF Tick, Toggle!Tick, Toggle!CapAtDebounce, Toggle!Levels,
             Toggle!pinVars, ToggleAlone!Tick, ToggleAlone!CapAtDebounce,
             ToggleAlone!Levels
  <1>8. CASE UNCHANGED vars
    BY <1>8, OthersPoll
  <1> QED
    BY <1>2, <1>3, <1>4, <1>5, <1>6, <1>7, <1>8
       DEF Next, PollToggle, Toggle!ContactUpdate

LEMMA EncoderStep ==
    ASSUME TaskInv, [Next]_vars
    PROVE  [EncoderAlone!Next]_(EncoderAlone!vars)
  <1> USE DEF EncoderAlone!vars, EncoderAlone!encoderVars,
              EncoderAlone!historyVars, EncoderAlone!Next
  <1>1. ASSUME Bystander(3), UNCHANGED encoderVars
        PROVE  [EncoderAlone!Next]_(EncoderAlone!vars)
    BY <1>1 DEF Bystander, EncoderAlone!OtherSends, EncoderAlone!Send,
                EncoderAlone!QueueHasRoom, EncoderAlone!NoEvent,
                EncoderAlone!Event, EncoderAlone!SystemSource, NoEvent, Event,
                SystemSource
  <1>2. CASE PollButton \/ PollToggle \/ PollSlider \/ CallbackSends
    <2>1. UNCHANGED encoderVars
      BY <1>2 DEF PollButton, PollToggle, PollSlider, CallbackSends
    <2> QED
      BY <1>1, <1>2, <2>1, OthersPoll
  <1>3. /\ EncoderAlone!movement = Encoder!movement
        /\ EncoderAlone!Saturated = Encoder!Saturated
        /\ EncoderAlone!Poll = Encoder!Poll
    BY DEF EncoderAlone!Saturated, EncoderAlone!movement, EncoderAlone!Poll,
           EncoderAlone!currentState, EncoderAlone!PhaseAfter,
           EncoderAlone!GrayCycle, EncoderAlone!TransitionTable,
           EncoderAlone!Clamp, Encoder!Saturated, Encoder!movement,
           Encoder!Poll, Encoder!currentState, Encoder!PhaseAfter,
           Encoder!GrayCycle, Encoder!TransitionTable, Encoder!Clamp
  <1>4. EncoderAlone!QueueHasRoom = Encoder!QueueHasRoom
    BY SeenByIsSeen
       DEF EncoderAlone!QueueHasRoom, Encoder!QueueHasRoom, TaskInv
  <1>5. CASE PollEncoder /\ Encoder!UpdateMoves
    <2> DEFINE moved == encoderCount + Encoder!movement
               e == CountEvent(moved)
    <2>1. /\ encoderCount' = moved
          /\ queue' = IF Encoder!QueueHasRoom THEN Append(queue, e) ELSE queue
      BY <1>5 DEF Encoder!UpdateMoves, Encoder!SendOrDrop, CountEvent, Event,
                  Encoder!Event
    <2>2. moved \in CountMin..CountMax
      BY <1>5, EncoderReads, EncoderAssumption
         DEF Encoder!UpdateMoves, Encoder!Saturated, DriversInRange, TaskInv
    <2>3. e = EncoderAlone!Event("EncoderChanged", 3, encoderCount', 0)
      BY <2>1 DEF CountEvent, Event, EncoderAlone!Event
    <2>4. e \in SentEvents /\ Own(e, 3) = e
      <3> HIDE DEF moved
      <3> QED
        BY <2>2, NumberEvents DEF Own
    <2> HIDE DEF e
    <2>5. SeenBy(3)' = IF Encoder!QueueHasRoom THEN Append(SeenBy(3), e)
                       ELSE SeenBy(3)
      <3>1. CASE Encoder!QueueHasRoom
        <4>1. Sends(e)
          BY <2>1, <3>1 DEF Sends, Encoder!QueueHasRoom
        <4> QED
          BY <2>4, <3>1, <4>1, SendIsSeen DEF TaskInv
      <3>2. CASE ~Encoder!QueueHasRoom
        BY <2>1, <3>2, NothingIsSeen
      <3> QED
        BY <3>1, <3>2
    <2>6. EncoderAlone!SendOrDrop(
             EncoderAlone!Event("EncoderChanged", 3, encoderCount', 0))
      BY <1>4, <2>3, <2>5 DEF EncoderAlone!SendOrDrop
    <2>7. EncoderAlone!UpdateMoves
      BY <1>3, <1>4, <1>5, <2>6
         DEF Encoder!UpdateMoves, EncoderAlone!UpdateMoves
    <2> QED
      BY <2>7
  <1>6. CASE PollEncoder /\ Encoder!UpdateIgnores
    <2>1. SeenBy(3)' = SeenBy(3)
      BY <1>6, NothingIsSeen DEF Encoder!UpdateIgnores
    <2>2. EncoderAlone!UpdateIgnores
      BY <1>3, <1>6, <2>1
         DEF Encoder!UpdateIgnores, EncoderAlone!UpdateIgnores
    <2> QED
      BY <2>2
  <1>7. CASE ApplicationReceives
    <2>1. SeenBy(3) # <<>> /\ SeenBy(3)' = Tail(SeenBy(3))
      BY <1>7, ReceiveIsSeen DEF ApplicationReceives, TaskInv
    <2>2. EncoderAlone!ApplicationReceives
      BY <1>7, <2>1
         DEF ApplicationReceives, EncoderAlone!ApplicationReceives,
             EncoderAlone!Receive
    <2> QED
      BY <2>2
  <1>8. CASE WorldMoves
    <2>1. SeenBy(3)' = SeenBy(3)
      BY <1>8, OthersPoll
    <2>2. CASE Encoder!Turn
      <3>1. EncoderAlone!Turn
        BY <2>1, <2>2
           DEF Encoder!Turn, Encoder!encoderVars, Encoder!historyVars,
               EncoderAlone!Turn
      <3> QED
        BY <3>1
    <2>3. CASE UNCHANGED encoderVars
      BY <2>1, <2>3
    <2> QED
      BY <1>8, <2>2, <2>3 DEF WorldMoves
  <1>9. CASE Tick \/ UNCHANGED vars
    <2>1. SeenBy(3)' = SeenBy(3)
      BY <1>9, OthersPoll
    <2> QED
      BY <1>9, <2>1 DEF Tick
  <1> QED
    BY <1>2, <1>5, <1>6, <1>7, <1>8, <1>9 DEF Next, PollEncoder

LEMMA SliderStep ==
    ASSUME TaskInv, [Next]_vars
    PROVE  [SliderAlone!SliderNext]_(SliderAlone!sliderVars)
  <1> USE DEF SliderAlone!sliderVars, SliderAlone!analogVars,
              SliderAlone!SliderNext
  <1>1. ASSUME Bystander(4), UNCHANGED sliderVars
        PROVE  [SliderAlone!SliderNext]_(SliderAlone!sliderVars)
    BY <1>1 DEF Bystander, SliderAlone!SliderOthersSend, SliderAlone!Send,
                SliderAlone!QueueHasRoom, SliderAlone!NoEvent,
                SliderAlone!Event, SliderAlone!SystemSource, NoEvent, Event,
                SystemSource
  <1>2. CASE PollButton \/ PollToggle \/ PollEncoder \/ CallbackSends
    <2>1. UNCHANGED sliderVars
      BY <1>2 DEF PollButton, PollToggle, PollEncoder, CallbackSends
    <2> QED
      BY <1>1, <1>2, <2>1, OthersPoll
  <1>3. /\ SliderAlone!currentPercent = Slider!currentPercent
        /\ SliderAlone!Due = Slider!Due
    BY DEF SliderAlone!currentPercent, SliderAlone!rawToPercent,
           SliderAlone!AdcMaxValue, SliderAlone!Due, SliderAlone!Near,
           SliderAlone!Distance, Slider!currentPercent, Slider!rawToPercent,
           Slider!AdcMaxValue, Slider!Due, Slider!Near, Slider!Distance
  <1>4. SliderAlone!QueueHasRoom = Slider!QueueHasRoom
    BY SeenByIsSeen DEF SliderAlone!QueueHasRoom, Slider!QueueHasRoom, TaskInv
  <1>5. CASE PollSlider /\ Slider!UpdateReports
    <2> DEFINE percent == Slider!currentPercent
               e == PercentEvent(percent)
    <2>1. Sends(e)
      BY <1>5 DEF Slider!UpdateReports, Slider!Send, Slider!QueueHasRoom,
                  PercentEvent, Event, Slider!Event, Sends
    <2>2. e = SliderAlone!Event("AnalogChanged", 4, percent, 0)
      BY DEF PercentEvent, Event, SliderAlone!Event
    <2>3. e \in SentEvents /\ Own(e, 4) = e
      <3>1. percent \in 0..100
        BY SliderReads DEF TaskInv
      <3> HIDE DEF percent
      <3> QED
        BY <3>1, NumberEvents DEF Own
    <2> HIDE DEF e
    <2>4. Len(SeenBy(4)) < QueueCapacity /\ SeenBy(4)' = Append(SeenBy(4), e)
      BY <2>1, <2>3, SendIsSeen DEF TaskInv
    <2>5. SliderAlone!Send(SliderAlone!Event("AnalogChanged", 4,
                                             SliderAlone!currentPercent, 0))
      BY <1>3, <2>2, <2>4 DEF SliderAlone!Send, SliderAlone!QueueHasRoom
    <2>6. SliderAlone!UpdateReports
      BY <1>3, <1>5, <2>5 DEF Slider!UpdateReports, SliderAlone!UpdateReports
    <2> QED
      BY <2>6
  <1>6. CASE PollSlider /\ (Slider!UpdateHolds \/ Slider!UpdateReadFails)
    <2>1. queue' = queue /\ UNCHANGED sliderVars
      BY <1>6 DEF Slider!UpdateHolds, Slider!UpdateReadFails,
                  Slider!sliderVars, Slider!analogVars
    <2>2. SeenBy(4)' = SeenBy(4)
      BY <2>1, NothingIsSeen
    <2> QED
      BY <2>1, <2>2
  <1>7. CASE ApplicationReceives
    <2>1. SeenBy(4) # <<>> /\ SeenBy(4)' = Tail(SeenBy(4))
      BY <1>7, ReceiveIsSeen DEF ApplicationReceives, TaskInv
    <2>2. SliderAlone!SliderDrained
      BY <1>7, <2>1
         DEF ApplicationReceives, SliderAlone!SliderDrained,
             SliderAlone!Receive
    <2> QED
      BY <2>2
  <1>8. CASE WorldMoves
    <2>1. SeenBy(4)' = SeenBy(4)
      BY <1>8, OthersPoll
    <2>2. CASE Slider!SliderMoves
      <3>1. SliderAlone!SliderMoves
        BY <2>1, <2>2
           DEF Slider!SliderMoves, Slider!analogVars, SliderAlone!SliderMoves
      <3> QED
        BY <3>1
    <2>3. CASE UNCHANGED sliderVars
      BY <2>1, <2>3
    <2> QED
      BY <1>8, <2>2, <2>3 DEF WorldMoves
  <1>9. CASE Tick \/ UNCHANGED vars
    <2>1. SeenBy(4)' = SeenBy(4)
      BY <1>9, OthersPoll
    <2> QED
      BY <1>9, <2>1 DEF Tick
  <1> QED
    BY <1>2, <1>5, <1>6, <1>7, <1>8, <1>9 DEF Next, PollSlider

LEMMA DriversStart ==
    ASSUME Init
    PROVE  /\ ToggleAlone!ContactInit /\ EncoderAlone!Init
           /\ SliderAlone!SliderInit
  <1>1. queue = <<>> /\ Toggle!ContactInit /\ Encoder!Init /\ Slider!SliderInit
    BY DEF Init, Button!ContactInit, Button!QueueInit
  <1>2. SeenBy(2) = <<>> /\ SeenBy(3) = <<>> /\ SeenBy(4) = <<>>
    BY <1>1, NothingToSee
  <1>3. ToggleAlone!ContactInit
    BY <1>1, <1>2
       DEF Toggle!ContactInit, Toggle!Levels, ToggleAlone!ContactInit,
           ToggleAlone!QueueInit, ToggleAlone!Levels
  <1>4. EncoderAlone!Init
    BY <1>1, <1>2 DEF Encoder!Init, EncoderAlone!Init, EncoderAlone!QueueInit
  <1>5. SliderAlone!SliderInit
    BY <1>1, <1>2
       DEF Slider!SliderInit, Slider!rawToPercent, Slider!AdcMaxValue,
           Slider!NothingReported, SliderAlone!SliderInit,
           SliderAlone!QueueInit, SliderAlone!rawToPercent,
           SliderAlone!AdcMaxValue, SliderAlone!NothingReported
  <1> QED
    BY <1>3, <1>4, <1>5

(* InputManager::run implements what DigitalInput, RotaryEncoder and       *)
(* AnalogInput specify: a driver in the task meets only other senders that *)
(* take room in the queue, so that what DriverProofs proves of each class  *)
(* holds of its object in main.cpp.  (The button is the toggle's class     *)
(* once more, polled by the same code.)                                    *)
THEOREM TaskImplementsDrivers == Spec => ImplementsDrivers
  <1>1. Init => /\ ToggleAlone!ContactInit /\ EncoderAlone!Init
                /\ SliderAlone!SliderInit
    BY DriversStart
  <1>2. TaskInv /\ [Next]_vars => [ToggleAlone!ContactNext]_(ToggleAlone!contactVars)
    BY ToggleStep
  <1>3. TaskInv /\ [Next]_vars => [EncoderAlone!Next]_(EncoderAlone!vars)
    BY EncoderStep
  <1>4. TaskInv /\ [Next]_vars => [SliderAlone!SliderNext]_(SliderAlone!sliderVars)
    BY SliderStep
  <1> QED
    BY <1>1, <1>2, <1>3, <1>4, TaskInvariant, PTL
       DEF Spec, ImplementsDrivers, ToggleAlone!ContactSpec,
           EncoderAlone!Spec, SliderAlone!SliderSpec

=============================================================================
