----------------------------- MODULE StoreUser -----------------------------
(***************************************************************************)
(* OfflineEventStore in the hands of a caller that uses all of it, as      *)
(* tests/host/test_core.cpp does: events of inputs and of the system       *)
(* source pushed with rising sequence ids, pops, peeks and clears in any   *)
(* order.  Application pushes no system event, because its heartbeats are  *)
(* never buffered and nothing sends it a fault; the store promises what it *)
(* does with them all the same.                                            *)
(***************************************************************************)
EXTENDS OfflineEventStore

CONSTANT MaxPushed       \* bound: the number of pushes
ASSUME MaxPushedAssumption == MaxPushed \in Nat

VARIABLE offered         \* sequence id of the last event pushed

userVars == <<store, coalescedCount, offered>>

Offers(n) ==
    {[e EXCEPT !.sequenceId = n] : e \in InputEvents}
      \cup {Event("FaultDetected", SystemSource, 0, n)}

UserInit == StoreInit /\ offered = 0

UserPushes ==
    /\ offered < MaxPushed
    /\ offered' = offered + 1
    /\ \E e \in Offers(offered + 1) : Push(e)

UserPops == Pop /\ UNCHANGED offered

UserClears == Clear /\ UNCHANGED offered

UserNext == UserPushes \/ UserPops \/ UserClears

UserSpec == UserInit /\ [][UserNext]_userVars

(* The deque with its erase-then-append is the set the header describes:   *)
(* an input's event replaces the older one, a system event nothing, what   *)
(* is kept fits, and what leaves is the oldest.                            *)
BacklogImage == INSTANCE Backlog
    WITH Capacity <- StoreCapacity, pending <- ToSet(store)
ImplementsBacklog == BacklogImage!Spec

=============================================================================
