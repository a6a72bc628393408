----------------------------- MODULE Settlement -----------------------------
(***************************************************************************)
(* How the money of ONE booking is settled: the composition of its         *)
(* lifecycle, of the outbox and of its payment, in instant mode.           *)
(*                                                                         *)
(* The outbox is what Delivery promises (Outbox implements it) and the     *)
(* payment moves as PaymentAccount does (Payment implements it).  Here     *)
(* they meet: a transition of the booking emits an event, a delivery of    *)
(* the event decides from the payments row what to do (`job'), and its     *)
(* effect lands when the delivery returns, or later, from a call that the  *)
(* worker timed out and that runs on in the background (`late').           *)
(*                                                                         *)
(* The events that only notify are left out; as the promise of Delivery    *)
(* says no more than that booking.created comes first, they hold nothing   *)
(* back.  So are additional work and refunds by an admin (Payment).        *)
(***************************************************************************)
EXTENDS PaymentLedger, FiniteSets

CONSTANTS
  Totals,       \* booking.totalJod at creation; credit and promo may leave zero
  Callout,      \* service.calloutFeeJod
  MaxAttempts,  \* MAX_ATTEMPTS
  MaxCrashes    \* bound on the crashes of a worker in a delivery

ASSUME SettlementAssumption ==
  /\ Totals \subseteq Nat /\ Callout \in Nat
  /\ MaxAttempts \in Nat \ {0} /\ MaxCrashes \in Nat

\* The events, in the order they can be emitted.
Created == 1
Ended == 2      \* booking.completed or booking.no_show
Cancelled == 3
Event == {Created, Ended, Cancelled}

VARIABLES
  booking,    \* bookings.status, CONFIRMED to IN_PROGRESS being "ASSIGNED"
  total,      \* bookings.totalJod
  dispatched, \* dispatchRound > 0
  ending,     \* eventType of the second event
  event, attempts,                                     \* the outbox rows
  job,        \* what the delivery of an event is about to do
  late,       \* what timed-out deliveries may still do
  crashes,
  status, amount, captured, refunded, ledger, payout   \* the account

bookingVars == <<booking, total, dispatched, ending>>
outboxVars == <<event, attempts, job, late, crashes>>
accountVars == <<status, amount, captured, refunded, ledger, payout>>
vars == <<bookingVars, outboxVars, accountVars>>

Rows == INSTANCE Delivery WITH
  Booking <- {1}, bookingOf <- [e \in Event |-> 1], status <- event

Account == INSTANCE PaymentAccount WITH
  status <- status, amount <- amount, captured <- captured, refunded <- refunded,
  ledger <- ledger, payout <- payout

Job == [do : {"nothing", "hold", "capture", "void", "refund"}, sum : Nat, seen : Nat]
Nothing == [do |-> "nothing", sum |-> 0, seen |-> 0]

Init ==
  /\ booking = "PENDING" /\ total \in Totals /\ dispatched = FALSE /\ ending = "none"
  /\ event = [e \in Event |-> IF e = Created THEN "PENDING" ELSE "NONE"]
  /\ attempts = [e \in Event |-> 0]
  /\ job = [e \in Event |-> Nothing] /\ late = {} /\ crashes = 0
  /\ Account!Init

Emits(e) == Rows!Emit(e, 1) /\ UNCHANGED <<job, late, crashes>>

-----------------------------------------------------------------------------
(* The booking *)

\* The dispatch sweep opens a first round once the funds are held.
StartDispatch ==
  /\ booking = "PENDING" /\ ~dispatched
  /\ status = "PRE_AUTHORIZED"
  /\ dispatched' = TRUE
  /\ UNCHANGED <<booking, total, ending, outboxVars, accountVars>>

Accept ==
  /\ booking = "PENDING" /\ dispatched
  /\ booking' = "ASSIGNED"
  /\ UNCHANGED <<total, dispatched, ending, outboxVars, accountVars>>

\* "Never let a booking complete (-> capture) unless its funds were authorized."
Complete ==
  /\ booking = "ASSIGNED"
  /\ status \in {"PRE_AUTHORIZED", "CAPTURED"}
  /\ booking' = "COMPLETED"
  /\ ending' = "completed"
  /\ Emits(Ended)
  /\ UNCHANGED <<total, dispatched, accountVars>>

NoShow ==
  /\ booking = "ASSIGNED"
  /\ booking' = "NO_SHOW"
  /\ ending' = "no_show"
  /\ Emits(Ended)
  /\ UNCHANGED <<total, dispatched, accountVars>>

\* By the customer, or by the search that found no technician.  A booking that a
\* late dispute reopened is not cancelled twice here.
Cancel ==
  /\ booking \notin {"COMPLETED", "CANCELLED"}
  /\ booking' = "CANCELLED"
  /\ Emits(Cancelled)
  /\ UNCHANGED <<total, dispatched, ending, accountVars>>

-----------------------------------------------------------------------------
(* What the handlers of main.ts do about the payment *)

DecidePreAuthorize ==
  IF status = "NONE" /\ total > 0 THEN [do |-> "hold", sum |-> total, seen |-> 0] ELSE Nothing

DecideCapture ==
  LET sum == IF ending = "completed" THEN amount ELSE Callout
  IN  IF status = "PRE_AUTHORIZED" /\ 0 < sum /\ sum <= amount
      THEN [do |-> "capture", sum |-> sum, seen |-> 0] ELSE Nothing

DecideCancellation ==
  CASE status = "PRE_AUTHORIZED" -> [do |-> "void", sum |-> amount, seen |-> 0]
    [] status \in Refundable /\ captured > refunded ->
         [do |-> "refund", sum |-> captured - refunded, seen |-> refunded]
    [] OTHER -> Nothing

DecideOnce(e) ==
  CASE attempts[e] > 0 -> Nothing
    [] e = Created -> DecidePreAuthorize
    [] e = Ended -> DecideCapture
    [] e = Cancelled -> DecideCancellation

Decide(e) ==
  CASE e = Created -> DecidePreAuthorize
    [] e = Ended -> DecideCapture
    [] e = Cancelled -> DecideCancellation

\* The booking has a technician whenever it ends.
PayoutFor(c) == IF Net(c) > 0 THEN [status |-> "PENDING", amount |-> Net(c)] ELSE payout

\* A void finds the hold captured but for a rest, which it releases; it leaves the
\* row alone.
RestReleased(j) == j.do = "void" /\ captured > 0 /\ captured < amount

\* PSP call and guarded write; where the PSP or the guard refuses, the job cannot land.
Effect(j) ==
  \/ (j = Nothing \/ RestReleased(j)) /\ UNCHANGED accountVars
  \/ j.do = "hold" /\ Account!Hold(j.sum)
  \/ j.do = "capture" /\ Account!Capture(j.sum) /\ payout' = PayoutFor(j.sum)
  \/ j.do = "void" /\ Account!Release(j.sum)
  \/ j.do = "refund" /\ refunded = j.seen /\ Account!Refund(j.sum) /\ payout' = ClawBack(payout)

-----------------------------------------------------------------------------
(* Deliveries *)

Deliver(e) ==
  /\ Rows!Start(e)
  /\ job' = [job EXCEPT ![e] = Decide(e)]
  /\ UNCHANGED <<bookingVars, late, crashes, accountVars>>

ReturnSwallowing(e) ==
  /\ Rows!Succeed(e)
  /\ Effect(job[e]) \/ UNCHANGED accountVars
  /\ job' = [job EXCEPT ![e] = Nothing]
  /\ UNCHANGED <<bookingVars, late, crashes>>

Return(e) ==
  /\ Rows!Succeed(e)
  /\ Effect(job[e])
  /\ job' = [job EXCEPT ![e] = Nothing]
  /\ UNCHANGED <<bookingVars, late, crashes>>

\* The handler threw, or it timed out and its call runs on.
Fail(e) ==
  /\ IF attempts[e] < MaxAttempts THEN Rows!Requeue({e}) ELSE Rows!GiveUp(e)
  /\ job' = [job EXCEPT ![e] = Nothing]
  /\ late' \in {late, (late \cup {job[e]}) \ {Nothing}}
  /\ UNCHANGED <<bookingVars, crashes, accountVars>>

\* The worker dies; the reaper requeues its row.
Crash(e) ==
  /\ crashes < MaxCrashes
  /\ Rows!Requeue({e})
  /\ job' = [job EXCEPT ![e] = Nothing]
  /\ crashes' = crashes + 1
  /\ UNCHANGED <<bookingVars, late, accountVars>>

LateLands(j) ==
  /\ late' = late \ {j}
  /\ Effect(j)
  /\ UNCHANGED <<bookingVars, event, attempts, job, crashes>>

LateIsLost(j) ==
  /\ late' = late \ {j}
  /\ UNCHANGED <<bookingVars, event, attempts, job, crashes, accountVars>>

-----------------------------------------------------------------------------
(* PSP and payouts *)

\* payment.auth.expired
HoldExpires == Account!Lapse /\ UNCHANGED <<bookingVars, outboxVars>>

\* One dispute per payment (Payment has overlapping ones).
DisputeOpened ==
  /\ ledger["DISPUTE"] = 0
  /\ Account!Dispute(captured)
  /\ booking' = "DISPUTED"
  /\ UNCHANGED <<total, dispatched, ending, outboxVars>>

DisputeClosed ==
  /\ Account!WinDispute \/ Account!LoseDispute(captured)
  /\ UNCHANGED <<bookingVars, outboxVars>>

Payouts ==
  /\ Account!ClaimPayout \/ Account!SettlePayout
  /\ UNCHANGED <<bookingVars, outboxVars>>

-----------------------------------------------------------------------------
Lifecycle == StartDispatch \/ Accept \/ Complete \/ NoShow \/ Cancel

Handle(e) == Return(e) \/ Fail(e)

Next ==
  \/ Lifecycle
  \/ \E e \in Event : Deliver(e) \/ Handle(e) \/ Crash(e)
  \/ \E j \in late : LateLands(j) \/ LateIsLost(j)
  \/ HoldExpires \/ DisputeOpened \/ DisputeClosed \/ Payouts

\* The outbox delivers and deliveries end (Outbox: EventuallySettled); the
\* dispatch sweep comes round.  Nothing makes a delivery succeed.
Fairness ==
  /\ \A e \in Event : WF_vars(Deliver(e)) /\ WF_vars(Handle(e))
  /\ WF_vars(StartDispatch)

Spec == Init /\ [][Next]_vars /\ Fairness

-----------------------------------------------------------------------------
\* Every variable keeps its type.
TypeOK ==
  /\ booking \in {"PENDING", "ASSIGNED", "COMPLETED", "NO_SHOW", "CANCELLED", "DISPUTED"}
  /\ total \in Nat /\ dispatched \in BOOLEAN /\ ending \in {"none", "completed", "no_show"}
  /\ event \in [Event -> {"NONE", "PENDING", "PROCESSING", "DONE", "FAILED"}]
  /\ attempts \in [Event -> Nat] /\ crashes \in Nat
  /\ job \in [Event -> Job] /\ late \subseteq Job
  /\ status \in PaymentStatus /\ amount \in Nat /\ captured \in Nat /\ refunded \in Nat
  /\ ledger \in [LedgerType -> Int] /\ payout \in [status : PayoutStatus, amount : Int]

\* A completed job is paid for once its event is done, whatever was retried, timed
\* out or overtaken: the payment is captured, unless the hold lapsed at the PSP.
CompletedIsPaid ==
  event[Ended] = "DONE" /\ ending = "completed" => captured > 0 \/ status = "FAILED"

\* "Cancellation releases money": once the event of a cancelled booking is done its
\* hold is released and its capture refunded, but for a no-show's callout fee whose
\* capture was under way.  Two cases are excepted because the code does not meet
\* them: a booking cancelled before its search began (its hold may be placed after
\* the cancellation was handled, and stays) and a disputed payment (the handler
\* passes it over; a dispute won later makes it captured again).
CancelledIsReleased ==
  event[Cancelled] = "DONE" /\ dispatched /\ ledger["DISPUTE"] = 0
    => \/ status \in {"REFUNDED", "FAILED"}
       \/ ending = "no_show" /\ 0 < captured /\ captured = Callout

\* A booking waits for dispatch for ever only if its hold could not be placed (the
\* event became a dead letter, there is nothing to pay) or has lapsed.
DispatchStarts ==
  booking = "PENDING" /\ ~dispatched
    ~> booking # "PENDING" \/ dispatched \/ event[Created] = "FAILED" \/ total = 0 \/ status = "FAILED"

CalloutFits == 0 < Callout /\ Callout <= amount

\* No hold is kept on a job that is over, but for the dead letter of its event and
\* for a callout fee that the hold does not cover, which is refused.
NothingKeptHeld ==
  booking \in {"COMPLETED", "NO_SHOW"}
    ~> \/ status # "PRE_AUTHORIZED" \/ event[Ended] = "FAILED"
       \/ ending = "no_show" /\ ~CalloutFits
=============================================================================
