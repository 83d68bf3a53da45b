----------------------------- MODULE AnalogInput -----------------------------
(***************************************************************************)
(* drivers/AnalogInput.cpp: a slider read through a 12-bit ADC.  The       *)
(* voltage moves as it likes between polls, a conversion may fail, and the *)
(* queue may be full.                                                      *)
(***************************************************************************)
EXTENDS EventQueue, SequencesExt

CONSTANTS
    SliderSource,  \* sourceId_
    Readings,      \* raw conversion results told apart
    Deadband       \* deadbandPercent_

ASSUME SliderSourceAssumption == SliderSource \in Inputs
ASSUME ReadingsAssumption == Readings \subseteq Int
ASSUME DeadbandAssumption == Deadband \in Nat

VARIABLES
    reading,              \* external: what a conversion would give now
    stablePercent,        \* stablePercent_
    initialEventPending,  \* initialEventPending_
    announced             \* history: value of the last event the queue took

analogVars == <<stablePercent, initialEventPending>>
sliderVars == <<queue, reading, analogVars, announced>>

(* rawToPercent: clamped to what twelve bits hold, then truncated.         *)
AdcMaxValue == 4095

rawToPercent(raw) ==
    LET clamped == IF raw < 0 THEN 0
                   ELSE IF raw > AdcMaxValue THEN AdcMaxValue ELSE raw
    IN  (clamped * 100) \div AdcMaxValue

Percentages == 0..100
ASSUME PercentagesAreValues == Percentages \subseteq Counts

NothingReported == -1

Distance(a, b) == IF a < b THEN b - a ELSE a - b

(* Two values the driver does not tell apart.                              *)
Near(a, b) == a = b \/ Distance(a, b) < Deadband

currentPercent == rawToPercent(reading)

(* initialize(): the first conversion is the baseline.                     *)
SliderInit ==
    /\ QueueInit
    /\ reading \in Readings
    /\ stablePercent = rawToPercent(reading) /\ initialEventPending = TRUE
    /\ announced = NothingReported

(* Mutant: any difference is reported.                                     *)
DueOnAnyChange == initialEventPending \/ currentPercent # stablePercent

Due == initialEventPending \/ ~Near(currentPercent, stablePercent)

UpdateReports ==
    /\ Due
    /\ Send(Event("AnalogChanged", SliderSource, currentPercent, 0))
    /\ stablePercent' = currentPercent /\ initialEventPending' = FALSE
    /\ announced' = currentPercent
    /\ UNCHANGED reading

(* Mutant: every reading becomes the one to compare with.                  *)
UpdateHoldsButDrifts ==
    /\ ~(Due /\ QueueHasRoom)
    /\ stablePercent' = currentPercent
    /\ UNCHANGED <<queue, reading, initialEventPending, announced>>

(* Nothing to report, or the queue refuses it: the next poll asks again.   *)
UpdateHolds == ~(Due /\ QueueHasRoom) /\ UNCHANGED sliderVars

(* adc_oneshot_read() failed.                                              *)
UpdateReadFails == UNCHANGED sliderVars

SliderMoves ==
    reading' \in Readings /\ UNCHANGED <<queue, analogVars, announced>>

SliderOthersSend == Send(NoEvent) /\ UNCHANGED <<reading, analogVars, announced>>

SliderDrained == Receive /\ UNCHANGED <<reading, analogVars, announced>>

SliderNext ==
    \/ UpdateReports \/ UpdateHolds \/ UpdateReadFails
    \/ SliderMoves \/ SliderOthersSend \/ SliderDrained

SliderSpec == SliderInit /\ [][SliderNext]_sliderVars

(* The driver's fields keep their types, and so does the queue.            *)
SliderTypeOK ==
    /\ QueueTypeOK
    /\ reading \in Readings
    /\ stablePercent \in Percentages /\ initialEventPending \in BOOLEAN
    /\ announced \in Percentages \cup {NothingReported}

(* The deadband is measured from what the station was last told, through   *)
(* refused sends too: a slow drift cannot move the baseline unseen.        *)
BaselineIsReported ==
    announced = IF initialEventPending THEN NothingReported ELSE stablePercent

(* "ignore small fluctuations": two reports in a row differ by the         *)
(* deadband or more, and never say the same value twice.                   *)
NoiseIgnored ==
    [][(Len(queue') > Len(queue) /\ Last(queue').sourceId = SliderSource)
          => announced = NothingReported \/ ~Near(announced', announced)]_sliderVars

(* AnalogInput.hpp: "generate an event when the value changes by more than *)
(* the configured deadband".                                               *)
ReportsOnlyPastDeadband ==
    [][(announced' # announced /\ announced # NothingReported)
          => Distance(announced', announced) > Deadband]_sliderVars

=============================================================================
