----------------------------- MODULE EventQueue -----------------------------
(***************************************************************************)
(* events/EventQueue.cpp: the one FreeRTOS queue between the drivers and   *)
(* the network callbacks, which send, and the application task, which      *)
(* receives.  Every caller of send() takes the default timeout of zero, so *)
(* a send to a full queue fails at once.  The kernel copies an Event in or *)
(* out inside a critical section: one step each.                           *)
(***************************************************************************)
EXTENDS Events, Sequences

CONSTANT QueueCapacity      \* config::EVENT_QUEUE_SIZE
ASSUME QueueCapacityAssumption == QueueCapacity \in Nat \ {0}

VARIABLE queue

QueueInit == queue = <<>>

(* Mutant: one entry too many.                                             *)
QueueHasRoomForOneMore == Len(queue) <= QueueCapacity

QueueHasRoom == Len(queue) < QueueCapacity

(* send() returned true.                                                   *)
Send(e) == QueueHasRoom /\ queue' = Append(queue, e)

(* send() whose result the caller ignores, or only logs.                   *)
SendOrDrop(e) == queue' = IF QueueHasRoom THEN Append(queue, e) ELSE queue

(* receive() returned true, and the event it returned.                     *)
Receive == queue # <<>> /\ queue' = Tail(queue)
Received == Head(queue)

QueueTypeOK == queue \in Seq(EventRecords) /\ Len(queue) <= QueueCapacity

=============================================================================
