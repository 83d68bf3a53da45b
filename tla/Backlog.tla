------------------------------ MODULE Backlog ------------------------------
(***************************************************************************)
(* What OfflineEventStore.hpp promises, without the deque: a bounded set   *)
(* of events, from which the oldest leaves first.  An event from an input  *)
(* replaces the one that waits from the same input; events of the system   *)
(* source are never replaced; an event is turned away only when the set is *)
(* full and it has nothing to replace.                                     *)
(***************************************************************************)
EXTENDS Events

CONSTANT Capacity

VARIABLE pending

Init == pending = {}

Replaced(e) ==
    {x \in pending : e.sourceId # SystemSource /\ x.sourceId = e.sourceId}

Newer(e) == \A x \in pending : x.sequenceId < e.sequenceId

Put(e) ==
    /\ Newer(e)
    /\ Replaced(e) # {} \/ Cardinality(pending) < Capacity
    /\ pending' = (pending \ Replaced(e)) \cup {e}

Take(e) ==
    /\ \A x \in pending : e.sequenceId <= x.sequenceId
    /\ pending' = pending \ {e}

DropAll == pending' = {}

(* The event put in is the one that was not there before.                  *)
Next ==
    \/ \E e \in pending' \ pending : Put(e)
    \/ \E e \in pending : Take(e)
    \/ DropAll

Spec == Init /\ [][Next]_pending

=============================================================================
