---------------------------- MODULE RotaryEncoder ----------------------------
(***************************************************************************)
(* drivers/RotaryEncoder.cpp: a polled quadrature encoder.  The shaft is   *)
(* external: it may turn several edges between two polls, forth and back.  *)
(* A poll reads the two channels, so it sees the shaft modulo four edges.  *)
(***************************************************************************)
EXTENDS EventQueue, SequencesExt

CONSTANTS
    Source,      \* sourceId_
    CountMin,    \* std::numeric_limits<std::int32_t>::min()
    CountMax,    \* std::numeric_limits<std::int32_t>::max()
    MaxTurn      \* bound: how many edges the shaft gets ahead of the polls

ASSUME SourceAssumption == Source \in Inputs
ASSUME CountsAreValues == CountMin..CountMax \subseteq Counts
ASSUME CountsHoldZero == CountMin \in Int /\ CountMax \in Int
                           /\ CountMin <= 0 /\ 0 <= CountMax
ASSUME MaxTurnAssumption == MaxTurn \in Nat \ {0}

VARIABLES
    previousState,  \* previousState_: what the last poll read, bits A and B
    count,          \* count_
    turned,         \* external: edges the shaft turned since the last poll
    \* History, read by no action:
    dial,           \* where a lossless counter would be after the last poll
    overrun,        \* a poll has come too late to follow the shaft
    reported,       \* value of the last event the queue took
    refused         \* the queue refused the last event

encoderVars == <<previousState, count>>
historyVars == <<dial, overrun, reported, refused>>
vars == <<queue, turned, encoderVars, historyVars>>

(* What readState() returns as the shaft turns forward, edge after edge.   *)
GrayCycle == <<0, 2, 3, 1>>

PhaseAfter(state, edges) ==
    LET position == CHOOSE i \in 1..4 : GrayCycle[i] = state
    IN  GrayCycle[((position - 1 + edges) % 4) + 1]

currentState == PhaseAfter(previousState, turned)

(* Mutant: two edges at once count as one forward.                         *)
TransitionTableGuesses ==
    << 0, -1,  1,  1,
       1,  0,  1, -1,
      -1,  1,  0,  1,
       1,  1, -1,  0>>

(* transitionTable, indexed by previous * 4 + current.                     *)
TransitionTable ==
    << 0, -1,  1,  0,
       1,  0,  0, -1,
      -1,  0,  0,  1,
       0,  1, -1,  0>>

movement == TransitionTable[previousState * 4 + currentState + 1]

Saturated ==
    \/ movement > 0 /\ count = CountMax
    \/ movement < 0 /\ count = CountMin

Clamp(n) ==
    CASE n < CountMin -> CountMin
      [] n > CountMax -> CountMax
      [] OTHER        -> n

Init ==
    /\ QueueInit
    /\ previousState \in 0..3 /\ count = 0 /\ turned = 0
    /\ dial = 0 /\ overrun = FALSE /\ reported = 0 /\ refused = FALSE

(* A poll: the reading is taken over whether or not it is a valid step.    *)
Poll ==
    /\ previousState' = currentState
    /\ turned' = 0
    /\ dial' = Clamp(dial + turned)
    /\ overrun' = (overrun \/ turned \notin -1..1)

(* Mutant: a refused event takes its step back.                            *)
UpdateMovesIfSent ==
    /\ movement # 0 /\ ~Saturated
    /\ Poll
    /\ count' = IF QueueHasRoom THEN count + movement ELSE count
    /\ SendOrDrop(Event("EncoderChanged", Source, count + movement, 0))
    /\ refused' = ~QueueHasRoom
    /\ reported' = IF QueueHasRoom THEN count + movement ELSE reported

(* Mutant: the event carries the count before the step.                    *)
UpdateMovesLate ==
    /\ movement # 0 /\ ~Saturated
    /\ Poll
    /\ count' = count + movement
    /\ SendOrDrop(Event("EncoderChanged", Source, count, 0))
    /\ refused' = ~QueueHasRoom
    /\ reported' = IF QueueHasRoom THEN count ELSE reported

(* publishCount() ignores the result of the send.                          *)
UpdateMoves ==
    /\ movement # 0 /\ ~Saturated
    /\ Poll
    /\ count' = count + movement
    /\ SendOrDrop(Event("EncoderChanged", Source, count', 0))
    /\ refused' = ~QueueHasRoom
    /\ reported' = IF QueueHasRoom THEN count' ELSE reported

(* No movement, an invalid transition, or a counter at its limit.          *)
UpdateIgnores ==
    /\ movement = 0 \/ Saturated
    /\ Poll
    /\ UNCHANGED <<queue, count, reported, refused>>

Turn ==
    /\ \E edge \in {-1, 1} :
          turned + edge \in -MaxTurn..MaxTurn /\ turned' = turned + edge
    /\ UNCHANGED <<queue, encoderVars, historyVars>>

OtherSends ==
    Send(NoEvent) /\ UNCHANGED <<turned, encoderVars, historyVars>>

ApplicationReceives ==
    Receive /\ UNCHANGED <<turned, encoderVars, historyVars>>

Next ==
    \/ UpdateMoves \/ UpdateIgnores
    \/ Turn \/ OtherSends \/ ApplicationReceives

Spec == Init /\ [][Next]_vars

(* The counter stays within its C++ type and the queue within its size.    *)
TypeOK ==
    /\ QueueTypeOK
    /\ previousState \in 0..3 /\ count \in CountMin..CountMax
    /\ turned \in -MaxTurn..MaxTurn /\ dial \in CountMin..CountMax
    /\ reported \in CountMin..CountMax
    /\ overrun \in BOOLEAN /\ refused \in BOOLEAN

(* Polled often enough, the encoder loses no edge and invents none: through*)
(* bounces, reversals, refused sends and both limits of the counter it     *)
(* stands where a lossless saturating counter stands.                      *)
CountFollowsDial == ~overrun => count = dial

(* A shaft too fast by one edge costs counts; it never counts backwards.   *)
NeverAgainstTheShaft ==
    [][count' # count /\ turned \in -2..2
          => (count' - count) * turned > 0]_vars

(* docs/known-limitations.md: "encoder events ... can be lost".  The value *)
(* last reported is stale only then, and the next event the queue takes    *)
(* carries the whole count: refusals do not add up.                        *)
StaleOnlyWhenRefused == reported # count => refused

=============================================================================
