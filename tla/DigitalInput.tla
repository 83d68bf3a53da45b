---------------------------- MODULE DigitalInput ----------------------------
(***************************************************************************)
(* drivers/DigitalInput.cpp: a debounced button or toggle.  The input task *)
(* calls update() again and again; between two calls the pin does what it  *)
(* likes and other senders fill the queue.  Time advances in ticks; a      *)
(* clock reading only matters through its distance from the last change.   *)
(***************************************************************************)
EXTENDS EventQueue, SequencesExt

CONSTANTS
    ContactSource,   \* sourceId_
    ActiveEvent,     \* activeEvent_
    InactiveEvent,   \* inactiveEvent_
    Debounce         \* debounceMs_, in ticks

ASSUME ContactSourceAssumption == ContactSource \in Inputs
ASSUME ContactEventsAssumption == {ActiveEvent, InactiveEvent} \subseteq InputTypes
ASSUME DebounceAssumption == Debounce \in Nat

VARIABLES
    level,                \* external: the level of the pin
    lastRawState,         \* lastRawState_
    stableState,          \* stableState_
    contactPending,       \* initialEventPending_
    elapsed,              \* now - lastChangeTimeMs_, at most Debounce
    \* History, read by no action:
    contactReported,      \* the level of the last event the queue took
    unseen                \* ticks since update() last read each level

pinVars == <<level>>
contactFields == <<lastRawState, stableState, contactPending, elapsed>>
contactHistory == <<contactReported, unseen>>
contactVars == <<queue, pinVars, contactFields, contactHistory>>

Levels == {"active", "inactive"}
Other(l) == CHOOSE m \in Levels : m # l

CapAtDebounce(n) == IF n < Debounce THEN n ELSE Debounce

Report(l) ==
    Event(IF l = "active" THEN ActiveEvent ELSE InactiveEvent, ContactSource,
          IF l = "active" THEN 1 ELSE 0, 0)

(* initialize(): the first sample is the baseline.                         *)
ContactInit ==
    /\ QueueInit
    /\ level \in Levels
    /\ lastRawState = level /\ stableState = level
    /\ contactPending = TRUE /\ elapsed = 0
    /\ contactReported = "none"
    /\ unseen = [l \in Levels |-> IF l = level THEN 0 ELSE Debounce]

(* Mutant: a transition does not restart the timer.                        *)
SinceChangeWithoutRestart == elapsed

(* A raw transition restarts the timer.                                    *)
SinceChange == IF level # lastRawState THEN 0 ELSE elapsed

Sample ==
    /\ lastRawState' = level
    /\ elapsed' = SinceChange
    /\ unseen' = [unseen EXCEPT ![level] = 0]

ContactDue ==
    /\ contactPending \/ level # stableState
    /\ SinceChange >= Debounce

(* Mutant: the reported level is not taken over.                           *)
ContactReportsUnsettled ==
    /\ ContactDue
    /\ Sample
    /\ Send(Report(level))
    /\ contactPending' = FALSE
    /\ contactReported' = level
    /\ UNCHANGED <<level, stableState>>

ContactReports ==
    /\ ContactDue
    /\ Sample
    /\ Send(Report(level))
    /\ stableState' = level /\ contactPending' = FALSE
    /\ contactReported' = level
    /\ UNCHANGED level

(* Mutant: the state is taken over although the queue refused the event.   *)
ContactHoldsButSettles ==
    /\ ~(ContactDue /\ QueueHasRoom)
    /\ Sample
    /\ stableState' = IF ContactDue THEN level ELSE stableState
    /\ contactPending' = (contactPending /\ ~ContactDue)
    /\ UNCHANGED <<queue, level, contactReported>>

(* Nothing to report, or the queue is full: the next update() asks again.  *)
ContactHolds ==
    /\ ~(ContactDue /\ QueueHasRoom)
    /\ Sample
    /\ UNCHANGED <<queue, level, stableState, contactPending,
                   contactReported>>

ContactUpdate == ContactReports \/ ContactHolds

(***************************************************************************)
(* The world around the driver                                             *)
(***************************************************************************)
PinChanges ==
    level' = Other(level) /\ UNCHANGED <<queue, contactFields, contactHistory>>

Tick ==
    /\ elapsed' = CapAtDebounce(elapsed + 1)
    /\ unseen' = [l \in Levels |-> CapAtDebounce(unseen[l] + 1)]
    /\ UNCHANGED <<queue, pinVars, lastRawState, stableState,
                   contactPending, contactReported>>

ContactOthersSend ==
    Send(NoEvent) /\ UNCHANGED <<pinVars, contactFields, contactHistory>>

ContactDrained ==
    Receive /\ UNCHANGED <<pinVars, contactFields, contactHistory>>

ContactNext ==
    ContactUpdate \/ PinChanges \/ Tick \/ ContactOthersSend \/ ContactDrained

ContactSpec == ContactInit /\ [][ContactNext]_contactVars

(* "Only accept a new state after it has remained stable long enough":     *)
(* no sample of the last debounce interval read the other level.           *)
NoGlitchReported ==
    [][contactReported' # contactReported
          => unseen'[Other(contactReported')] >= Debounce]_contactVars

(* An event says something new: no level is reported twice in a row, also  *)
(* not after refused sends and bounces.                                    *)
ReportsAlternate ==
    [][(Len(queue') > Len(queue) /\ Last(queue').sourceId = ContactSource)
          => contactReported' # contactReported]_contactVars

(* A level that stays is reported in the end, whatever the queue refused   *)
(* in between: docs/firmware-architecture.md's "retry while an unqueued    *)
(* stable state remains".                                                  *)
LevelReported ==
    \A l \in Levels : <>[](level = l) => <>[](contactReported = l)

=============================================================================
