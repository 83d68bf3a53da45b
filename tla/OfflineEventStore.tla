-------------------------- MODULE OfflineEventStore --------------------------
(***************************************************************************)
(* storage/OfflineEventStore.cpp: the bounded RAM buffer of events that    *)
(* MQTT has not accepted.  Every method holds the mutex from its first to  *)
(* its last line, so every method is one step.                             *)
(***************************************************************************)
EXTENDS Events, SequencesExt

CONSTANT StoreCapacity      \* config::OFFLINE_EVENT_QUEUE_SIZE
ASSUME StoreCapacityAssumption == StoreCapacity \in Nat \ {0}

VARIABLES
    store,           \* events_, oldest first
    coalescedCount   \* coalescedCount_

StoreInit == store = <<>> /\ coalescedCount = 0

(* Mutant: system events supersede one another.                            *)
SupersededOfAnySource(s, e) == {i \in 1..Len(s) : s[i].sourceId = e.sourceId}

(* The positions push() searches: a system event never supersedes.         *)
Superseded(s, e) ==
    {i \in 1..Len(s) : e.sourceId # SystemSource /\ s[i].sourceId = e.sourceId}

(* events_ after the loop of push(), which erases the first match only.    *)
Coalesced(s, e) ==
    IF Superseded(s, e) = {}
    THEN s
    ELSE RemoveAt(s, CHOOSE i \in Superseded(s, e) :
                         \A j \in Superseded(s, e) : i <= j)

(* Mutant: the capacity is checked before the superseded entry is erased.  *)
PushAcceptsBeforeErasing(s, e) == Len(s) < StoreCapacity

(* The value push() returns: the erasure comes before the capacity check.  *)
PushAccepts(s, e) == Len(Coalesced(s, e)) < StoreCapacity

(* Mutant: the newer event takes the place of the one it supersedes.       *)
PushedInPlace(s, e) ==
    IF Superseded(s, e) = {}
    THEN IF PushAccepts(s, e) THEN Append(s, e) ELSE s
    ELSE [i \in 1..Len(s) |-> IF i \in Superseded(s, e) THEN e ELSE s[i]]

Pushed(s, e) ==
    IF PushAccepts(s, e) THEN Append(Coalesced(s, e), e) ELSE Coalesced(s, e)

Push(e) ==
    /\ store' = Pushed(store, e)
    /\ coalescedCount' =
          coalescedCount + (IF Superseded(store, e) = {} THEN 0 ELSE 1)

Pop == store # <<>> /\ store' = Tail(store) /\ UNCHANGED coalescedCount

Peeked == Head(store)

Clear == store' = <<>> /\ coalescedCount' = 0

(* The order push() keeps when only events of inputs come in.              *)
Ordered(s) ==
    \A i, j \in 1..Len(s) : i < j =>
        s[i].sequenceId < s[j].sequenceId /\ s[i].sourceId # s[j].sourceId

StoreTypeOK ==
    /\ store \in Seq(EventRecords) /\ Len(store) <= StoreCapacity
    /\ coalescedCount \in Nat

=============================================================================
