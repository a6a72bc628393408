------------------------------ MODULE Delivery ------------------------------
(***************************************************************************)
(* What the outbox promises about its events, whoever drains it: an event  *)
(* is delivered at least once, until a delivery succeeds or the retry      *)
(* budget is spent, and no event is delivered before the first one of its  *)
(* booking was.  There are no instances, ticks or batches here; the module *)
(* Outbox implements this, and the module Settlement builds on it.         *)
(*                                                                         *)
(* The promise is weaker than a queue's: while an event waits for its      *)
(* retry, or was passed over in a tick because another instance had        *)
(* claimed the one before it, later events of its booking are delivered.   *)
(*                                                                         *)
(* Source: src/backend/src/application/outbox/OutboxWorker.ts              *)
(***************************************************************************)
EXTENDS Naturals

CONSTANTS
  Event,        \* a set of numbers, in createdAt order
  Booking,
  MaxAttempts   \* MAX_ATTEMPTS

VARIABLES
  bookingOf,  \* outbox_events.bookingId
  status,     \* outbox_events.status, "NONE" while there is no row
  attempts    \* outbox_events.attempts

deliveryVars == <<bookingOf, status, attempts>>

-----------------------------------------------------------------------------
\* No event yet; the bookings are assigned as the events are emitted.
Init ==
  /\ bookingOf \in [Event -> Booking \cup {0}]
  /\ status = [e \in Event |-> "NONE"]
  /\ attempts = [e \in Event |-> 0]

Emit(e, b) ==
  /\ \A f \in Event : f >= e => status[f] = "NONE"
  /\ bookingOf' = [bookingOf EXCEPT ![e] = b]
  /\ status' = [status EXCEPT ![e] = "PENDING"]
  /\ UNCHANGED attempts

\* The first event of the booking comes first; among the others there is no order.
Due(e) ==
  /\ status[e] = "PENDING"
  /\ \A f \in Event :
       /\ f < e /\ bookingOf[f] = bookingOf[e]
       /\ \A g \in Event : g < f => bookingOf[g] # bookingOf[e]
       => attempts[f] > 0

Start(e) ==
  /\ Due(e)
  /\ status' = [status EXCEPT ![e] = "PROCESSING"]
  /\ attempts' = [attempts EXCEPT ![e] = @ + 1]
  /\ UNCHANGED bookingOf

Succeed(e) ==
  /\ status[e] = "PROCESSING"
  /\ status' = [status EXCEPT ![e] = "DONE"]
  /\ UNCHANGED <<bookingOf, attempts>>

\* After a failure, or by the reaper, which requeues several events at once.
Requeue(S) ==
  /\ S # {} /\ \A e \in S : status[e] = "PROCESSING"
  /\ status' = [e \in Event |-> IF e \in S THEN "PENDING" ELSE status[e]]
  /\ UNCHANGED <<bookingOf, attempts>>

\* The event stays behind as a dead letter.
GiveUp(e) ==
  /\ status[e] = "PROCESSING"
  /\ attempts[e] >= MaxAttempts
  /\ status' = [status EXCEPT ![e] = "FAILED"]
  /\ UNCHANGED <<bookingOf, attempts>>

-----------------------------------------------------------------------------
Next ==
  \/ \E e \in Event : \E b \in Booking : Emit(e, b)
  \/ \E e \in Event : Start(e) \/ Succeed(e) \/ GiveUp(e)
  \/ \E S \in SUBSET Event : Requeue(S)

Spec == Init /\ [][Next]_deliveryVars
=============================================================================
