---------------------------- MODULE DriverProofs ----------------------------
(***************************************************************************)
(* The three driver classes, each for every value of its constants: for a  *)
(* counter of any width, any deadband and any debounce interval, a queue   *)
(* of any size, a shaft any number of edges ahead of the polls and         *)
(* readings no ADC returns.                                                *)
(***************************************************************************)
EXTENDS RotaryEncoder, AnalogInput, DigitalInput, SequenceTheorems, TLAPS

USE DEF vars, encoderVars, historyVars, sliderVars, analogVars

(***************************************************************************)
(* The encoder (RotaryEncoder): polled in time it counts like a lossless   *)
(* saturating counter, and the queue's last count is stale only while it   *)
(* refuses.                                                                *)
(***************************************************************************)

(* The table gives the edges the shaft has turned, and nothing for two: a  *)
(* half turn of the cycle has no direction.                                *)
LEMMA TableReadsShaft ==
    ASSUME NEW state \in 0..3, NEW edges \in Int
    PROVE  /\ PhaseAfter(state, edges) \in 0..3
           /\ edges \in -2..2 =>
                 TransitionTable[state * 4 + PhaseAfter(state, edges) + 1]
                    = IF edges \in -1..1 THEN edges ELSE 0
  <1> DEFINE position == CHOOSE i \in 1..4 : GrayCycle[i] = state
             next == ((position - 1 + edges) % 4) + 1
  <1>1. /\ state = 0 => position = 1
        /\ state = 1 => position = 4
        /\ state = 2 => position = 2
        /\ state = 3 => position = 3
    BY DEF GrayCycle
  <1>2. position \in 1..4
    BY <1>1
  <1> HIDE DEF position
  <1>3. next \in 1..4
    BY <1>2
  <1>4. PhaseAfter(state, edges) = GrayCycle[next]
    BY DEF PhaseAfter, position
  <1>5. GrayCycle[next] \in 0..3
    <2> HIDE DEF next
    <2> QED
      BY <1>3 DEF GrayCycle
  <1>6. ASSUME edges \in -2..2
        PROVE  TransitionTable[state * 4 + GrayCycle[next] + 1]
                  = IF edges \in -1..1 THEN edges ELSE 0
    <2>1. CASE state = 0
      <3>1. next = CASE edges = 1  -> 2
                     [] edges = -1 -> 4
                     [] edges = 0  -> 1
                     [] OTHER      -> 3
        BY <1>1, <1>6, <2>1
      <3>2. GrayCycle[next] = CASE edges = 1  -> 2
                                [] edges = -1 -> 1
                                [] edges = 0  -> 0
                                [] OTHER      -> 3
        BY <1>6, <3>1 DEF GrayCycle
      <3> HIDE DEF next
      <3>3. state * 4 + GrayCycle[next] + 1 = CASE edges = 1  -> 3
                                                [] edges = -1 -> 2
                                                [] edges = 0  -> 1
                                                [] OTHER      -> 4
        BY <1>6, <2>1, <3>2
      <3> QED
        BY <1>6, <3>3 DEF TransitionTable
    <2>2. CASE state = 1
      <3>1. next = CASE edges = 1  -> 1
                     [] edges = -1 -> 3
                     [] edges = 0  -> 4
                     [] OTHER      -> 2
        BY <1>1, <1>6, <2>2
      <3>2. GrayCycle[next] = CASE edges = 1  -> 0
                                [] edges = -1 -> 3
                                [] edges = 0  -> 1
                                [] OTHER      -> 2
        BY <1>6, <3>1 DEF GrayCycle
      <3> HIDE DEF next
      <3>3. state * 4 + GrayCycle[next] + 1 = CASE edges = 1  -> 5
                                                [] edges = -1 -> 8
                                                [] edges = 0  -> 6
                                                [] OTHER      -> 7
        BY <1>6, <2>2, <3>2
      <3> QED
        BY <1>6, <3>3 DEF TransitionTable
    <2>3. CASE state = 2
      <3>1. next = CASE edges = 1  -> 3
                     [] edges = -1 -> 1
                     [] edges = 0  -> 2
                     [] OTHER      -> 4
        BY <1>1, <1>6, <2>3
      <3>2. GrayCycle[next] = CASE edges = 1  -> 3
                                [] edges = -1 -> 0
                                [] edges = 0  -> 2
                                [] OTHER      -> 1
        BY <1>6, <3>1 DEF GrayCycle
      <3> HIDE DEF next
      <3>3. state * 4 + GrayCycle[next] + 1 = CASE edges = 1  -> 12
                                                [] edges = -1 -> 9
                                                [] edges = 0  -> 11
                                                [] OTHER      -> 10
        BY <1>6, <2>3, <3>2
      <3> QED
        BY <1>6, <3>3 DEF TransitionTable
    <2>4. CASE state = 3
      <3>1. next = CASE edges = 1  -> 4
                     [] edges = -1 -> 2
                     [] edges = 0  -> 3
                     [] OTHER      -> 1
        BY <1>1, <1>6, <2>4
      <3>2. GrayCycle[next] = CASE edges = 1  -> 1
                                [] edges = -1 -> 2
                                [] edges = 0  -> 3
                                [] OTHER      -> 0
        BY <1>6, <3>1 DEF GrayCycle
      <3> HIDE DEF next
      <3>3. state * 4 + GrayCycle[next] + 1 = CASE edges = 1  -> 14
                                                [] edges = -1 -> 15
                                                [] edges = 0  -> 16
                                                [] OTHER      -> 13
        BY <1>6, <2>4, <3>2
      <3> QED
        BY <1>6, <3>3 DEF TransitionTable
    <2> QED
      BY <2>1, <2>2, <2>3, <2>4
  <1> QED
    BY <1>4, <1>5, <1>6

(* Whatever it reads, the table answers with a step of at most one.        *)
LEMMA TableTypes ==
    ASSUME NEW i \in 1..16
    PROVE  TransitionTable[i] \in -1..1
  BY DEF TransitionTable

LEMMA ClampTypes ==
    ASSUME NEW n \in Int
    PROVE  /\ Clamp(n) \in CountMin..CountMax
           /\ n \in CountMin..CountMax => Clamp(n) = n
  BY CountsHoldZero DEF Clamp

(* The fields of the driver and the history; the queue needs none of them. *)
CountTypes ==
    /\ previousState \in 0..3 /\ count \in CountMin..CountMax
    /\ turned \in -MaxTurn..MaxTurn /\ dial \in CountMin..CountMax
    /\ reported \in CountMin..CountMax
    /\ overrun \in BOOLEAN /\ refused \in BOOLEAN

EncoderInv == CountTypes /\ CountFollowsDial /\ StaleOnlyWhenRefused

(* What a poll finds.                                                      *)
LEMMA PollFinds ==
    ASSUME CountTypes
    PROVE  /\ currentState \in 0..3 /\ movement \in -1..1
           /\ turned \in -1..1 => movement = turned
           /\ turned \in {-2, 2} => movement = 0
           /\ turned \in Int /\ count \in Int /\ dial \in Int
           /\ CountMin \in Int /\ CountMax \in Int
  <1>1. turned \in Int /\ count \in Int /\ dial \in Int
    BY CountsHoldZero, MaxTurnAssumption DEF CountTypes
  <1>2. currentState \in 0..3
    BY <1>1, TableReadsShaft DEF currentState, CountTypes
  <1>3. previousState * 4 + currentState + 1 \in 1..16
    BY <1>2 DEF CountTypes
  <1>4. movement \in -1..1
    BY <1>3, TableTypes DEF movement
  <1>5. /\ turned \in -1..1 => movement = turned
        /\ turned \in {-2, 2} => movement = 0
    BY <1>1, TableReadsShaft DEF currentState, movement, CountTypes
  <1> QED
    BY <1>1, <1>2, <1>4, <1>5, CountsHoldZero

(* What every poll does: it takes the reading over, and the lossless       *)
(* counter makes the shaft's move.                                         *)
LEMMA PollTakesOver ==
    ASSUME CountTypes, Poll
    PROVE  /\ previousState' \in 0..3 /\ turned' = 0
           /\ dial' = Clamp(dial + turned) /\ dial' \in CountMin..CountMax
           /\ overrun' \in BOOLEAN
           /\ ~overrun' => ~overrun /\ turned \in -1..1
  <1>1. previousState' \in 0..3 /\ turned' = 0
    BY PollFinds DEF Poll
  <1>2. dial' = Clamp(dial + turned)
    BY DEF Poll
  <1>3. dial + turned \in Int
    BY PollFinds
  <1>4. dial' \in CountMin..CountMax
    BY <1>2, <1>3, ClampTypes
  <1>5. overrun' = (overrun \/ turned \notin -1..1)
    BY DEF Poll
  <1>6. overrun' \in BOOLEAN /\ (~overrun' => ~overrun /\ turned \in -1..1)
    BY <1>5, Zenon
  <1> QED
    BY <1>1, <1>2, <1>4, <1>6, Zenon

(* A poll that moves the counter moves the lossless one with it.           *)
LEMMA MovingPoll ==
    ASSUME EncoderInv, UpdateMoves
    PROVE  EncoderInv'
  <1> USE DEF EncoderInv
  <1>1. count' = count + movement /\ count' \in CountMin..CountMax
    BY PollFinds DEF UpdateMoves, Saturated, CountTypes
  <1>2. /\ previousState' \in 0..3 /\ turned' = 0
        /\ dial' = Clamp(dial + turned) /\ dial' \in CountMin..CountMax
        /\ overrun' \in BOOLEAN
        /\ ~overrun' => ~overrun /\ turned \in -1..1
    BY PollTakesOver, Zenon DEF UpdateMoves
  <1>3. /\ refused' = ~QueueHasRoom
        /\ reported' = IF QueueHasRoom THEN count' ELSE reported
        /\ refused' \in BOOLEAN
    BY DEF UpdateMoves, QueueHasRoom
  <1>4. CountTypes'
    BY <1>1, <1>2, <1>3, MaxTurnAssumption DEF CountTypes
  <1>5. CountFollowsDial'
    <2>1. ASSUME ~overrun'
          PROVE  count' = dial'
      <3>1. count = dial /\ movement = turned
        BY <1>2, <2>1, PollFinds DEF CountFollowsDial
      <3> QED
        BY <1>1, <1>2, <3>1, ClampTypes, PollFinds
    <2> QED
      BY <2>1 DEF CountFollowsDial
  <1>6. StaleOnlyWhenRefused'
    BY <1>3 DEF StaleOnlyWhenRefused
  <1> QED
    BY <1>4, <1>5, <1>6

(* A poll that leaves the counter alone leaves the lossless one alone, or  *)
(* finds it at its limit too.                                              *)
LEMMA IdlePoll ==
    ASSUME EncoderInv, UpdateIgnores
    PROVE  EncoderInv'
  <1> USE DEF EncoderInv
  <1>1. /\ previousState' \in 0..3 /\ turned' = 0
        /\ dial' = Clamp(dial + turned) /\ dial' \in CountMin..CountMax
        /\ overrun' \in BOOLEAN
        /\ ~overrun' => ~overrun /\ turned \in -1..1
    BY PollTakesOver, Zenon DEF UpdateIgnores
  <1>2. count' = count /\ reported' = reported /\ refused' = refused
    BY DEF UpdateIgnores
  <1>3. CountTypes'
    BY <1>1, <1>2, MaxTurnAssumption DEF CountTypes
  <1>4. CountFollowsDial'
    <2>1. ASSUME ~overrun'
          PROVE  count' = dial'
      <3>1. count = dial /\ movement = turned
        BY <1>1, <2>1, PollFinds DEF CountFollowsDial
      <3>2. CASE movement = 0
        BY <1>1, <1>2, <3>1, <3>2, ClampTypes, PollFinds DEF CountTypes
      <3>3. CASE Saturated
        BY <1>1, <1>2, <3>1, <3>3, PollFinds, CountsHoldZero
           DEF Saturated, Clamp, CountTypes
      <3> QED
        BY <3>2, <3>3 DEF UpdateIgnores
    <2> QED
      BY <2>1 DEF CountFollowsDial
  <1>5. StaleOnlyWhenRefused'
    BY <1>2 DEF StaleOnlyWhenRefused
  <1> QED
    BY <1>3, <1>4, <1>5

LEMMA EncoderInit ==
    ASSUME Init
    PROVE  EncoderInv
  <1>1. 0 \in CountMin..CountMax /\ 0 \in -MaxTurn..MaxTurn
    BY CountsHoldZero, MaxTurnAssumption
  <1>2. CountTypes
    BY <1>1 DEF Init, CountTypes
  <1>3. CountFollowsDial /\ StaleOnlyWhenRefused
    BY DEF Init, CountFollowsDial, StaleOnlyWhenRefused
  <1> QED
    BY <1>2, <1>3 DEF EncoderInv

LEMMA EncoderStep ==
    ASSUME EncoderInv, [Next]_vars
    PROVE  EncoderInv'
  <1> USE DEF EncoderInv
  <1>1. CASE UpdateMoves
    BY <1>1, MovingPoll
  <1>2. CASE UpdateIgnores
    BY <1>2, IdlePoll
  <1>3. CASE Turn
    <2>1. turned' \in -MaxTurn..MaxTurn
      BY <1>3 DEF Turn
    <2>2. UNCHANGED <<encoderVars, historyVars>>
      BY <1>3 DEF Turn
    <2> QED
      BY <2>1, <2>2 DEF CountTypes, CountFollowsDial, StaleOnlyWhenRefused
  <1>4. CASE OtherSends \/ ApplicationReceives \/ UNCHANGED vars
    <2>1. UNCHANGED <<turned, encoderVars, historyVars>>
      BY <1>4 DEF OtherSends, ApplicationReceives
    <2> QED
      BY <2>1 DEF CountTypes, CountFollowsDial, StaleOnlyWhenRefused
  <1> QED
    BY <1>1, <1>2, <1>3, <1>4 DEF Next

LEMMA EncoderInvariant == Spec => []EncoderInv
  BY EncoderInit, EncoderStep, PTL DEF Spec

(* RotaryEncoder::update: polled in time, the counter stands where a       *)
(* lossless saturating counter stands, through reversals, refused events   *)
(* and both limits of its type.                                            *)
THEOREM CountIsLossless == Spec => []CountFollowsDial
  BY EncoderInvariant, PTL DEF EncoderInv

(* A shaft too fast by one edge costs counts, and never one against its    *)
(* direction.                                                              *)
THEOREM DirectionKept == Spec => NeverAgainstTheShaft
  <1>1. ASSUME EncoderInv, [Next]_vars, count' # count, turned \in -2..2
        PROVE  (count' - count) * turned > 0
    <2>1. UpdateMoves
      BY <1>1 DEF Next, UpdateIgnores, Turn, OtherSends, ApplicationReceives
    <2>2. count' = count + movement /\ movement # 0
      BY <2>1 DEF UpdateMoves
    <2>3. turned \in {-1, 1} /\ movement = turned /\ count \in Int
      BY <1>1, <2>2, PollFinds DEF EncoderInv
    <2>4. count' - count = turned
      BY <2>2, <2>3
    <2> QED
      BY <2>3, <2>4
  <1>2. EncoderInv /\ [Next]_vars
           => [count' # count /\ turned \in -2..2
                 => (count' - count) * turned > 0]_vars
    BY <1>1
  <1> QED
    BY <1>2, EncoderInvariant, PTL DEF Spec, NeverAgainstTheShaft

(* What the queue is given are events, and it is never given one too many. *)
LEMMA QueueStep ==
    ASSUME CountTypes, CountTypes', QueueTypeOK, [Next]_vars
    PROVE  QueueTypeOK'
  <1>1. Source \in Inputs \cup {SystemSource}
    BY SourceAssumption
  <1>2. count' \in Values
    BY CountsAreValues DEF CountTypes, Values
  <1>3. Event("EncoderChanged", Source, count', 0) \in EventRecords
    BY <1>1, <1>2 DEF Event, EventRecords, EventTypes, InputTypes
  <1>4. NoEvent \in EventRecords
    BY DEF NoEvent, Event, EventRecords, EventTypes, Values
  <1>5. ASSUME NEW e \in EventRecords, QueueHasRoom, queue' = Append(queue, e)
        PROVE  QueueTypeOK'
    <2>1. Append(queue, e) \in Seq(EventRecords)
             /\ Len(Append(queue, e)) = Len(queue) + 1 /\ Len(queue) \in Nat
      BY DEF QueueTypeOK
    <2> QED
      BY <1>5, <2>1, QueueCapacityAssumption DEF QueueTypeOK, QueueHasRoom
  <1>6. CASE queue' = queue
    BY <1>6 DEF QueueTypeOK
  <1>7. CASE UpdateMoves
    BY <1>3, <1>5, <1>6, <1>7 DEF UpdateMoves, SendOrDrop
  <1>8. CASE OtherSends
    BY <1>4, <1>5, <1>8 DEF OtherSends, Send
  <1>9. CASE ApplicationReceives
    <2>1. queue # <<>> /\ queue' = Tail(queue)
      BY <1>9 DEF ApplicationReceives, Receive
    <2>2. queue \in Seq(EventRecords) /\ Len(queue) <= QueueCapacity
      BY DEF QueueTypeOK
    <2>3. Tail(queue) \in Seq(EventRecords)
             /\ Len(Tail(queue)) = Len(queue) - 1 /\ Len(queue) \in Nat
      BY <2>1, <2>2
    <2>4. Len(Tail(queue)) <= QueueCapacity
      BY <2>2, <2>3, QueueCapacityAssumption
    <2> QED
      BY <2>1, <2>3, <2>4, Zenon DEF QueueTypeOK
  <1> QED
    BY <1>6, <1>7, <1>8, <1>9 DEF Next, UpdateIgnores, Turn

(* The counter stays within its C++ type, the queue within its size.       *)
THEOREM EncoderTypes == Spec => []TypeOK
  <1>1. Init => QueueTypeOK
    BY QueueCapacityAssumption DEF Init, QueueInit, QueueTypeOK
  <1>2. EncoderInv /\ EncoderInv' /\ QueueTypeOK /\ [Next]_vars => QueueTypeOK'
    BY QueueStep DEF EncoderInv
  <1>3. EncoderInv /\ QueueTypeOK => TypeOK
    BY DEF EncoderInv, CountTypes, TypeOK
  <1> QED
    BY <1>1, <1>2, <1>3, EncoderInvariant, PTL DEF Spec

(* publishCount(): the station is told a stale count only while the last   *)
(* event was refused; the next one the queue takes makes up for all.       *)
THEOREM StalenessEnds == Spec => []StaleOnlyWhenRefused
  BY EncoderInvariant, PTL DEF EncoderInv

(***************************************************************************)
(* The slider (AnalogInput): the deadband is measured from what the        *)
(* station was last told, and noise inside it is never told.               *)
(***************************************************************************)

(* rawToPercent clamps before it divides: always a percentage.             *)
LEMMA PercentInRange ==
    ASSUME NEW raw \in Int
    PROVE  rawToPercent(raw) \in Percentages
  BY DEF rawToPercent, AdcMaxValue, Percentages

LEMMA ReadingInRange ==
    ASSUME reading \in Readings
    PROVE  currentPercent \in Percentages
  BY PercentInRange, ReadingsAssumption DEF currentPercent

AnalogTypes ==
    /\ reading \in Readings
    /\ stablePercent \in Percentages /\ initialEventPending \in BOOLEAN
    /\ announced \in Percentages \cup {NothingReported}

AnalogInv == QueueTypeOK /\ AnalogTypes /\ BaselineIsReported

LEMMA QueueGrows ==
    ASSUME QueueTypeOK, NEW e \in EventRecords, Send(e)
    PROVE  /\ QueueTypeOK'
           /\ Len(queue') > Len(queue) /\ Last(queue') = e
  <1>1. queue' = Append(queue, e) /\ Len(queue) < QueueCapacity
    BY DEF Send, QueueHasRoom
  <1>2. /\ Append(queue, e) \in Seq(EventRecords)
        /\ Len(Append(queue, e)) = Len(queue) + 1 /\ Len(queue) \in Nat
        /\ Append(queue, e)[Len(queue) + 1] = e
    BY DEF QueueTypeOK
  <1>3. Len(queue) + 1 <= QueueCapacity
    BY <1>1, <1>2, QueueCapacityAssumption
  <1> QED
    BY <1>1, <1>2, <1>3 DEF QueueTypeOK, Last

LEMMA QueueShrinks ==
    ASSUME QueueTypeOK, Receive
    PROVE  QueueTypeOK' /\ ~(Len(queue') > Len(queue))
  <1>1. queue # <<>> /\ queue' = Tail(queue)
    BY DEF Receive
  <1>2. queue \in Seq(EventRecords) /\ Len(queue) <= QueueCapacity
    BY DEF QueueTypeOK
  <1>3. /\ Tail(queue) \in Seq(EventRecords)
        /\ Len(Tail(queue)) = Len(queue) - 1 /\ Len(queue) \in Nat
    BY <1>1, <1>2
  <1>4. /\ Len(Tail(queue)) <= QueueCapacity
        /\ ~(Len(Tail(queue)) > Len(queue))
    BY <1>2, <1>3, QueueCapacityAssumption
  <1> QED
    BY <1>1, <1>3, <1>4, Zenon DEF QueueTypeOK

(* What the driver and the callbacks send are events.                      *)
LEMMA EventsSent ==
    /\ NoEvent \in EventRecords /\ NoEvent.sourceId = SystemSource
    /\ reading \in Readings
          => Event("AnalogChanged", SliderSource, currentPercent, 0) \in EventRecords
  <1>1. NoEvent \in EventRecords /\ NoEvent.sourceId = SystemSource
    BY DEF NoEvent, Event, EventRecords, EventTypes, Values
  <1>2. ASSUME reading \in Readings
        PROVE  currentPercent \in Values /\ SliderSource \in Inputs
    BY <1>2, ReadingInRange, PercentagesAreValues, SliderSourceAssumption DEF Values
  <1> QED
    BY <1>1, <1>2 DEF Event, EventRecords, EventTypes, InputTypes

(* A report moves the baseline and what was told together.                 *)
LEMMA ReportKeepsBaseline ==
    ASSUME AnalogInv, UpdateReports
    PROVE  AnalogInv'
  <1>1. QueueTypeOK'
    BY EventsSent, QueueGrows DEF AnalogInv, AnalogTypes, UpdateReports
  <1>2. /\ reading' = reading /\ stablePercent' = currentPercent
        /\ initialEventPending' = FALSE /\ announced' = currentPercent
    BY DEF UpdateReports
  <1>3. currentPercent \in Percentages
    BY ReadingInRange DEF AnalogInv, AnalogTypes
  <1>4. AnalogTypes'
    BY <1>2, <1>3 DEF AnalogInv, AnalogTypes
  <1>5. BaselineIsReported'
    BY <1>2 DEF BaselineIsReported
  <1> QED
    BY <1>1, <1>4, <1>5 DEF AnalogInv

(* No other step moves either.                                             *)
LEMMA OthersKeepBaseline ==
    ASSUME AnalogInv, QueueTypeOK', reading' \in Readings,
           UNCHANGED <<analogVars, announced>>
    PROVE  AnalogInv'
  BY DEF AnalogInv, AnalogTypes, BaselineIsReported

LEMMA AnalogInit ==
    ASSUME SliderInit
    PROVE  AnalogInv
  <1>1. QueueTypeOK
    BY QueueCapacityAssumption DEF SliderInit, QueueInit, QueueTypeOK
  <1>2. AnalogTypes /\ BaselineIsReported
    BY ReadingInRange
       DEF SliderInit, AnalogTypes, BaselineIsReported, currentPercent
  <1> QED
    BY <1>1, <1>2 DEF AnalogInv

LEMMA AnalogStep ==
    ASSUME AnalogInv, [SliderNext]_sliderVars
    PROVE  AnalogInv'
  <1>1. CASE UpdateReports
    BY <1>1, ReportKeepsBaseline
  <1>2. CASE UpdateHolds \/ UpdateReadFails \/ UNCHANGED sliderVars
    <2>1. UNCHANGED sliderVars
      BY <1>2 DEF UpdateHolds, UpdateReadFails
    <2> QED
      BY <2>1, OthersKeepBaseline DEF AnalogInv, AnalogTypes, QueueTypeOK
  <1>3. CASE SliderMoves
    BY <1>3, OthersKeepBaseline DEF SliderMoves, AnalogInv, QueueTypeOK
  <1>4. CASE SliderOthersSend
    BY <1>4, EventsSent, QueueGrows, OthersKeepBaseline
       DEF SliderOthersSend, AnalogInv, AnalogTypes
  <1>5. CASE SliderDrained
    BY <1>5, QueueShrinks, OthersKeepBaseline
       DEF SliderDrained, AnalogInv, AnalogTypes
  <1> QED
    BY <1>1, <1>2, <1>3, <1>4, <1>5 DEF SliderNext

LEMMA AnalogInvariant == SliderSpec => []AnalogInv
  BY AnalogInit, AnalogStep, PTL DEF SliderSpec

(* rawToPercent never leaves 0..100, and the queue never its size.         *)
THEOREM AnalogTypesKept == SliderSpec => []SliderTypeOK
  <1>1. AnalogInv => SliderTypeOK
    BY DEF AnalogInv, AnalogTypes, SliderTypeOK
  <1> QED
    BY <1>1, AnalogInvariant, PTL

(* AnalogInput::update: the deadband is measured from the value the queue  *)
(* took last, so that refused reports cannot move the baseline unseen.     *)
THEOREM BaselineKept == SliderSpec => []BaselineIsReported
  BY AnalogInvariant, PTL DEF AnalogInv

(* Two reports in a row differ by the deadband or more.                    *)
THEOREM NoiseKeptQuiet == SliderSpec => NoiseIgnored
  <1>1. ASSUME AnalogInv, [SliderNext]_sliderVars, Len(queue') > Len(queue),
               Last(queue').sourceId = SliderSource, announced # NothingReported
        PROVE  ~Near(announced', announced)
    <2>1. CASE UpdateReports
      <3>1. ~initialEventPending /\ stablePercent = announced
        BY <1>1 DEF AnalogInv, BaselineIsReported
      <3> QED
        BY <2>1, <3>1 DEF UpdateReports, Due
    <2>2. CASE SliderOthersSend
      <3>1. Last(queue') = NoEvent
        BY <1>1, <2>2, EventsSent, QueueGrows DEF SliderOthersSend, AnalogInv
      <3>2. SliderSource # SystemSource
        BY SliderSourceAssumption, InputsAssumption DEF SystemSource
      <3> QED
        BY <1>1, <3>1, <3>2, EventsSent
    <2>3. CASE SliderDrained
      BY <1>1, <2>3, QueueShrinks DEF SliderDrained, AnalogInv
    <2>4. CASE queue' = queue
      <3>1. Len(queue) \in Nat
        BY <1>1 DEF AnalogInv, QueueTypeOK
      <3> QED
        BY <1>1, <2>4, <3>1
    <2> QED
      BY <1>1, <2>1, <2>2, <2>3, <2>4
         DEF SliderNext, UpdateHolds, UpdateReadFails, SliderMoves
  <1>2. AnalogInv /\ [SliderNext]_sliderVars
           => [(Len(queue') > Len(queue) /\ Last(queue').sourceId = SliderSource)
                 => announced = NothingReported \/ ~Near(announced', announced)]_sliderVars
    BY <1>1
  <1> QED
    BY <1>2, AnalogInvariant, PTL DEF SliderSpec, NoiseIgnored

(***************************************************************************)
(* Buttons and toggles (DigitalInput), for any debounce interval.          *)
(***************************************************************************)

LEMMA TwoLevels ==
    ASSUME NEW l \in Levels
    PROVE  Other(l) \in Levels /\ Other(l) # l /\ (\A m \in Levels : m # l => m = Other(l))
  BY DEF Levels, Other

ContactTypes ==
    /\ level \in Levels /\ lastRawState \in Levels /\ stableState \in Levels
    /\ contactPending \in BOOLEAN /\ elapsed \in 0..Debounce
    /\ unseen \in [Levels -> 0..Debounce]

(* The debounce timer never claims more quiet than there was.              *)
TimerIsHonest == unseen[Other(lastRawState)] >= elapsed

(* What the queue took last is the stable state, once it took anything.    *)
SettledIsReported ==
    contactReported = IF contactPending THEN "none" ELSE stableState

ContactInv ==
    QueueTypeOK /\ ContactTypes /\ TimerIsHonest /\ SettledIsReported

LEMMA CapTypes ==
    ASSUME NEW n \in 0..Debounce
    PROVE  /\ CapAtDebounce(n + 1) \in 0..Debounce
           /\ \A m \in 0..Debounce : m >= n => CapAtDebounce(m + 1) >= CapAtDebounce(n + 1)
  BY DebounceAssumption DEF CapAtDebounce

LEMMA LevelReportIsEvent ==
    ASSUME NEW l \in Levels
    PROVE  Report(l) \in EventRecords
  <1>1. ContactSource \in Inputs /\ {0, 1} \subseteq Values
    BY ContactSourceAssumption DEF Values
  <1>2. {ActiveEvent, InactiveEvent} \subseteq InputTypes
    BY ContactEventsAssumption
  <1> QED
    BY <1>1, <1>2 DEF Report, Event, EventRecords, EventTypes

(* Every update() samples the pin.                                         *)
LEMMA SampleKeeps ==
    ASSUME ContactTypes, TimerIsHonest, Sample
    PROVE  /\ lastRawState' = level /\ elapsed' \in 0..Debounce
           /\ unseen' \in [Levels -> 0..Debounce]
           /\ unseen'[Other(level)] = unseen[Other(level)]
           /\ unseen[Other(level)] >= SinceChange /\ elapsed' = SinceChange
  <1> USE DEF ContactTypes
  <1>1. lastRawState' = level /\ elapsed' = SinceChange
        /\ unseen' = [unseen EXCEPT ![level] = 0]
    BY DEF Sample
  <1>2. Other(level) \in Levels /\ Other(level) # level
    BY TwoLevels
  <1>3. SinceChange \in 0..Debounce
    BY DebounceAssumption DEF SinceChange
  <1>4. unseen[Other(level)] >= SinceChange
    BY <1>2, DebounceAssumption DEF SinceChange, TimerIsHonest
  <1> QED
    BY <1>1, <1>2, <1>3, <1>4, DebounceAssumption

LEMMA ContactReportKeeps ==
    ASSUME ContactInv, ContactReports
    PROVE  /\ ContactInv'
           /\ Len(queue') > Len(queue) /\ contactReported' # contactReported
           /\ unseen'[Other(contactReported')] >= Debounce
  <1> USE DEF ContactInv
  <1>1. /\ Sample /\ Send(Report(level)) /\ ContactDue
        /\ stableState' = level /\ contactPending' = FALSE
        /\ contactReported' = level /\ level' = level
    BY DEF ContactReports
  <1>2. QueueTypeOK' /\ Len(queue') > Len(queue)
    BY <1>1, LevelReportIsEvent, QueueGrows DEF ContactTypes
  <1>3. ContactTypes' /\ TimerIsHonest' /\ SettledIsReported'
    BY <1>1, SampleKeeps DEF ContactTypes, TimerIsHonest, SettledIsReported
  <1>4. contactReported' # contactReported
    BY <1>1 DEF ContactDue, SettledIsReported, ContactTypes, Levels
  <1>5. unseen'[Other(contactReported')] >= Debounce
    <2>1. Other(level) \in Levels
      BY TwoLevels DEF ContactTypes
    <2>2. unseen[Other(level)] >= SinceChange /\ SinceChange >= Debounce
      BY <1>1, SampleKeeps DEF ContactDue
    <2>3. unseen[Other(level)] \in Nat /\ SinceChange \in Nat
      BY <2>1, DebounceAssumption DEF ContactTypes, SinceChange
    <2> QED
      BY <1>1, <2>2, <2>3, SampleKeeps, DebounceAssumption
  <1> QED
    BY <1>2, <1>3, <1>4, <1>5

LEMMA ContactHoldKeeps ==
    ASSUME ContactInv, ContactHolds
    PROVE  ContactInv'
  <1> USE DEF ContactInv
  <1>1. Sample /\ UNCHANGED <<queue, level, stableState, contactPending, contactReported>>
    BY DEF ContactHolds
  <1> QED
    BY <1>1, SampleKeeps
       DEF ContactTypes, TimerIsHonest, SettledIsReported, QueueTypeOK

LEMMA TickKeeps ==
    ASSUME ContactInv, Tick
    PROVE  ContactInv'
  <1> USE DEF ContactInv
  <1>1. /\ elapsed' = CapAtDebounce(elapsed + 1)
        /\ unseen' = [l \in Levels |-> CapAtDebounce(unseen[l] + 1)]
        /\ UNCHANGED <<queue, level, lastRawState, stableState, contactPending,
                       contactReported>>
    BY DEF Tick, pinVars
  <1>2. Other(lastRawState) \in Levels
    BY TwoLevels DEF ContactTypes
  <1>3. ContactTypes'
    BY <1>1, CapTypes DEF ContactTypes
  <1>4. TimerIsHonest'
    <2>1. unseen'[Other(lastRawState)] = CapAtDebounce(unseen[Other(lastRawState)] + 1)
      BY <1>1, <1>2
    <2>2. unseen[Other(lastRawState)] \in 0..Debounce /\ elapsed \in 0..Debounce
      BY <1>2 DEF ContactTypes
    <2>3. CapAtDebounce(unseen[Other(lastRawState)] + 1) >= CapAtDebounce(elapsed + 1)
      BY <2>2, CapTypes DEF TimerIsHonest
    <2> QED
      BY <1>1, <2>1, <2>3 DEF TimerIsHonest
  <1>5. QueueTypeOK' /\ SettledIsReported'
    BY <1>1 DEF QueueTypeOK, SettledIsReported
  <1> QED
    BY <1>3, <1>4, <1>5

(* The rest of the world moves the pin or the queue, not the driver.       *)
LEMMA ContactOthersKeep ==
    ASSUME ContactInv, QueueTypeOK', level' \in Levels,
           UNCHANGED <<contactFields, contactHistory>>
    PROVE  ContactInv' /\ contactReported' = contactReported
  BY DEF ContactInv, ContactTypes, TimerIsHonest, SettledIsReported,
         contactFields, contactHistory

LEMMA ContactStart ==
    ASSUME ContactInit
    PROVE  ContactInv
  <1>1. QueueTypeOK
    BY QueueCapacityAssumption DEF ContactInit, QueueInit, QueueTypeOK
  <1>2. level \in Levels /\ 0 \in 0..Debounce /\ Debounce \in 0..Debounce
    BY DebounceAssumption DEF ContactInit
  <1>3. ContactTypes
    BY <1>2 DEF ContactInit, ContactTypes
  <1>4. TimerIsHonest
    <2>1. Other(level) \in Levels /\ Other(level) # level
      BY <1>2, TwoLevels
    <2> QED
      BY <2>1, DebounceAssumption DEF ContactInit, TimerIsHonest
  <1>5. SettledIsReported
    BY DEF ContactInit, SettledIsReported
  <1> QED
    BY <1>1, <1>3, <1>4, <1>5 DEF ContactInv

LEMMA ContactStep ==
    ASSUME ContactInv, [ContactNext]_contactVars
    PROVE  ContactInv'
  <1>1. CASE ContactReports
    BY <1>1, ContactReportKeeps
  <1>2. CASE ContactHolds
    BY <1>2, ContactHoldKeeps
  <1>3. CASE PinChanges
    <2>1. level' \in Levels
      BY <1>3, TwoLevels DEF PinChanges, ContactInv, ContactTypes
    <2> QED
      BY <1>3, <2>1, ContactOthersKeep DEF PinChanges, ContactInv, QueueTypeOK
  <1>4. CASE Tick
    BY <1>4, TickKeeps
  <1>5. CASE ContactOthersSend
    BY <1>5, EventsSent, QueueGrows, ContactOthersKeep
       DEF ContactOthersSend, ContactInv, ContactTypes, pinVars
  <1>6. CASE ContactDrained
    BY <1>6, QueueShrinks, ContactOthersKeep
       DEF ContactDrained, ContactInv, ContactTypes, pinVars
  <1>7. CASE UNCHANGED contactVars
    BY <1>7, ContactOthersKeep
       DEF contactVars, pinVars, ContactInv, ContactTypes, QueueTypeOK
  <1> QED
    BY <1>1, <1>2, <1>3, <1>4, <1>5, <1>6, <1>7 DEF ContactNext, ContactUpdate

LEMMA ContactInvariant == ContactSpec => []ContactInv
  BY ContactStart, ContactStep, PTL DEF ContactSpec

(* Only an update() that reports changes what was reported.                *)
LEMMA OnlyReportsReport ==
    ASSUME ContactInv, [ContactNext]_contactVars, ~ContactReports
    PROVE  contactReported' = contactReported
  BY DEF ContactNext, ContactUpdate, ContactHolds, PinChanges, Tick,
         ContactOthersSend, ContactDrained, contactVars, contactHistory

(* DigitalInput::update, for every debounce interval: a level is reported  *)
(* only when no sample of the last interval read the other one.            *)
THEOREM DebounceHolds == ContactSpec => NoGlitchReported
  <1>1. ASSUME ContactInv, [ContactNext]_contactVars, contactReported' # contactReported
        PROVE  unseen'[Other(contactReported')] >= Debounce
    BY <1>1, OnlyReportsReport, ContactReportKeeps
  <1>2. ContactInv /\ [ContactNext]_contactVars
           => [contactReported' # contactReported
                 => unseen'[Other(contactReported')] >= Debounce]_contactVars
    BY <1>1
  <1> QED
    BY <1>2, ContactInvariant, PTL DEF ContactSpec, NoGlitchReported

(* An event of this input says another level than its event before, also   *)
(* when the queue refused some in between: the state is taken over only    *)
(* with the event that reports it.                                         *)
THEOREM LevelsAlternate == ContactSpec => ReportsAlternate
  <1>1. ASSUME ContactInv, [ContactNext]_contactVars, Len(queue') > Len(queue),
               Last(queue').sourceId = ContactSource
        PROVE  contactReported' # contactReported
    <2>1. CASE ContactReports
      BY <1>1, <2>1, ContactReportKeeps
    <2>2. CASE ContactOthersSend
      <3>1. Last(queue') = NoEvent
        BY <1>1, <2>2, EventsSent, QueueGrows DEF ContactOthersSend, ContactInv
      <3>2. ContactSource # SystemSource
        BY ContactSourceAssumption, InputsAssumption DEF SystemSource
      <3> QED
        BY <1>1, <3>1, <3>2, EventsSent
    <2>3. CASE ContactDrained
      BY <1>1, <2>3, QueueShrinks DEF ContactDrained, ContactInv
    <2>4. CASE queue' = queue
      <3>1. Len(queue) \in Nat
        BY <1>1 DEF ContactInv, QueueTypeOK
      <3> QED
        BY <1>1, <2>4, <3>1
    <2> QED
      BY <1>1, <2>1, <2>2, <2>3, <2>4
         DEF ContactNext, ContactUpdate, ContactHolds, PinChanges, Tick, contactVars
  <1>2. ContactInv /\ [ContactNext]_contactVars
           => [(Len(queue') > Len(queue) /\ Last(queue').sourceId = ContactSource)
                 => contactReported' # contactReported]_contactVars
    BY <1>1
  <1> QED
    BY <1>2, ContactInvariant, PTL DEF ContactSpec, ReportsAlternate

=============================================================================
