------------------------------ MODULE Payment ------------------------------
(***************************************************************************)
(* PaymentService for ONE booking.  Its calls are all keyed by bookingId,  *)
(* so the payments of different bookings do not interact.                  *)
(*                                                                         *)
(* A call of the service is a job run by a worker: an outbox handler, an   *)
(* admin request or a webhook delivery.  A handler reads the payments row, *)
(* calls the PSP and then writes in a guarded transaction; each of those   *)
(* is a step here, and `work' holds what the job still remembers of the    *)
(* row it read.  Any job may end at any point (GiveUp): it threw, the      *)
(* outbox timed it out, the process crashed, or its guarded write matched  *)
(* no row.  Outbox events are delivered at least once, in any order, and   *)
(* may be delivered again at any time.                                     *)
(*                                                                         *)
(* The PSP is external.  In instant mode (Hosted = FALSE) it honours the   *)
(* idempotency keys as the port's comment requires; the hosted adapter     *)
(* does not forward them.                                                  *)
(***************************************************************************)
EXTENDS PaymentLedger, Sequences, FiniteSets

CONSTANTS
  Workers,        \* concurrent calls of the service
  Hosted,         \* provider.mode = 'hosted'
  Total,          \* booking.totalJod
  Callout,        \* service.calloutFeeJod
  Extra,          \* amounts of additional work a customer may approve
  RefundAmounts,  \* amounts an admin, or an operator at the PSP, refunds
  Dashboard,      \* what operators do at the PSP itself: "capture", "refund"
  MaxAmount,      \* bound on the widened hold
  MaxDisputes     \* bound on the dispute rows

ASSUME PaymentAssumption ==
  /\ Hosted \in BOOLEAN
  /\ Total \in Nat \ {0}
  /\ Callout \in Nat
  /\ Extra \subseteq Nat \ {0}
  /\ RefundAmounts \subseteq Nat \ {0}
  /\ MaxAmount \in Nat /\ MaxDisputes \in Nat

VARIABLES
  status, amount, captured, refunded,  \* the payments row
  ref,        \* payments.providerRef: the transaction the row points at
  aged,       \* preAuthorizedAt is more than AUTH_HOLD_EXPIRY_DAYS ago
  ledger, payout, disputes,
  booking,    \* bookings.status, CONFIRMED to IN_PROGRESS being "ASSIGNED"
  technician, \* bookings.technicianId is not null
  events,     \* outbox events emitted so far
  hold,       \* PSP: the hold behind each authorization
  charges,    \* PSP: the amounts this service captured from the customer, in order
  taken,      \* PSP: the amount an operator captured from each hold, or 0
  returned,   \* PSP: what went back to the customer of the charge the row records
  reported,   \* PSP: the figures its refund webhooks carry
  keys,       \* PSP: the idempotency keys it has seen
  work        \* the job of each worker

accountVars == <<status, amount, captured, refunded, ledger, payout>>
rowVars == <<ref, aged, disputes>>
bookingVars == <<booking, technician, events>>
pspVars == <<hold, charges, taken, returned, reported, keys>>
vars == <<accountVars, rowVars, bookingVars, pspVars, work>>

Account == INSTANCE PaymentAccount WITH
  status <- status, amount <- amount, captured <- captured, refunded <- refunded,
  ledger <- ledger, payout <- payout, CommissionPct <- CommissionPct

BookingState == {"AWAITING_PAYMENT", "PENDING", "ASSIGNED", "COMPLETED",
                 "NO_SHOW", "CANCELLED", "DISPUTED"}
Hold == {"auth", "reauth"}
HoldState == {"none", "held", "residual", "captured", "voided", "expired"}
TakenHolds == {h \in Hold : taken[h] > 0}
Point == {"idle", "preauth_psp", "preauth_db", "reauth_psp", "reauth_db",
          "capture_status", "reconcile_db", "capture_psp", "capture_db",
          "residual_psp", "void_psp", "void_db", "refund_psp", "refund_db",
          "settle_db", "widen_db"}
Job == [at : Point, ref : Hold \cup {"none"}, amt : Nat, seen : Nat]

KeyPerAttempt(op, seen) == [op |-> op, seen |-> seen + Cardinality(keys)]

\* An idempotency key: one per booking, and for refunds per total refunded before.
Key(op, seen) == [op |-> op, seen |-> seen]

Idle == [at |-> "idle", ref |-> "none", amt |-> 0, seen |-> 0]

Init ==
  /\ status = "NONE" /\ amount = 0 /\ captured = 0 /\ refunded = 0
  /\ ref = "none" /\ aged = FALSE
  /\ ledger = EmptyLedger /\ payout = NoPayout /\ disputes = <<>>
  /\ booking = IF Hosted THEN "AWAITING_PAYMENT" ELSE "PENDING"
  /\ technician = FALSE
  /\ events = IF Hosted THEN {} ELSE {"created"}
  /\ hold = [h \in Hold |-> "none"]
  /\ charges = <<>> /\ taken = [h \in Hold |-> 0] /\ returned = 0 /\ reported = {} /\ keys = {}
  /\ work = [w \in Workers |-> Idle]

-----------------------------------------------------------------------------
(* Jobs.  Between two steps of w, every other worker may run. *)

Start(w, at, r, amt, seen) ==
  /\ work[w] = Idle
  /\ work' = [work EXCEPT ![w] = [at |-> at, ref |-> r, amt |-> amt, seen |-> seen]]

At(w, point) == work[w].at = point
Goto(w, point) == work' = [work EXCEPT ![w].at = point]
Finish(w) == work' = [work EXCEPT ![w] = Idle]

GiveUp(w) ==
  /\ ~At(w, "idle")
  /\ Finish(w)
  /\ UNCHANGED <<accountVars, rowVars, bookingVars, pspVars>>

\* The PSP's side of an idempotency key.
Answered(key) == ~Hosted /\ key \in keys

Remember(key) == IF Hosted THEN keys ELSE keys \cup {key}

-----------------------------------------------------------------------------
(* booking.created: place the hold (instant mode). *)

PreAuthorizeRead(w) ==
  /\ ~Hosted
  /\ "created" \in events
  /\ status = "NONE"
  /\ Start(w, "preauth_psp", "none", Total, 0)
  /\ UNCHANGED <<accountVars, rowVars, bookingVars, pspVars>>

\* Key preauth:<booking>: a repeated call answers with the first hold.
PreAuthorizePsp(w) ==
  /\ At(w, "preauth_psp")
  /\ hold' = [hold EXCEPT !["auth"] = IF @ = "none" THEN "held" ELSE @]
  /\ Goto(w, "preauth_db")
  /\ UNCHANGED <<accountVars, rowVars, bookingVars, charges, taken, returned, reported, keys>>

\* bookingId is unique in payments: a second create is refused.
CreatePayment(held) ==
  /\ status = "NONE"
  /\ status' = "PRE_AUTHORIZED"
  /\ amount' = held
  /\ ref' = "auth"
  /\ ledger' = Post(ledger, "CHARGE", held)
  /\ UNCHANGED <<captured, refunded, payout, aged, disputes>>

PreAuthorizeDb(w) ==
  /\ At(w, "preauth_db")
  /\ CreatePayment(work[w].amt)
  /\ Finish(w)
  /\ UNCHANGED <<bookingVars, pspVars>>

\* Hosted mode: the customer's authorised checkout promotes row and booking in
\* one transaction (HostedCheckout has its races).
Authorize ==
  /\ Hosted
  /\ booking = "AWAITING_PAYMENT"
  /\ CreatePayment(Total)
  /\ booking' = "PENDING"
  /\ events' = events \cup {"created"}
  /\ hold' = [hold EXCEPT !["auth"] = "held"]
  /\ UNCHANGED <<technician, charges, taken, returned, reported, keys, work>>

-----------------------------------------------------------------------------
(* booking.completed and booking.no_show: captureForBooking. *)

\* The whole hold for a completed job, the callout fee for a no-show.  `seen' is
\* the authorised amount; a callout fee above it is refused.
CaptureRead(w) ==
  /\ status = "PRE_AUTHORIZED"
  /\ \E c \in {amount : e \in events \cap {"completed"}} \cup {Callout : e \in events \cap {"no_show"}} :
       /\ c > 0 /\ c <= amount
       /\ \/ aged /\ ~Hosted /\ Start(w, "reauth_psp", ref, c, amount)
          \/ ~aged /\ Hosted /\ Start(w, "capture_status", ref, c, amount)
          \/ ~aged /\ ~Hosted /\ Start(w, "capture_psp", ref, c, amount)
  /\ UNCHANGED <<accountVars, rowVars, bookingVars, pspVars>>

\* Key reauth:<booking>.
ReauthorizePsp(w) ==
  /\ At(w, "reauth_psp")
  /\ hold' = [hold EXCEPT !["reauth"] = IF @ = "none" THEN "held" ELSE @]
  /\ work' = [work EXCEPT ![w].at = "reauth_db", ![w].ref = "reauth"]
  /\ UNCHANGED <<accountVars, rowVars, bookingVars, charges, taken, returned, reported, keys>>

\* The guarded write may match no row; the capture goes on all the same.
ReauthorizeDb(w) ==
  /\ At(w, "reauth_db")
  /\ \/ /\ status = "PRE_AUTHORIZED"
        /\ ref' = "reauth"
        /\ aged' = FALSE
     \/ /\ status # "PRE_AUTHORIZED"
        /\ UNCHANGED <<ref, aged>>
  /\ Goto(w, "capture_psp")
  /\ UNCHANGED <<accountVars, disputes, bookingVars, pspVars>>

\* The amounts charged to the customer, by this service and by operators.
Sums == {charges[i] : i \in DOMAIN charges} \cup {taken[h] : h \in TakenHolds}

\* getStatus before a hosted capture: a charge already made is only recorded.
CaptureStatus(w) ==
  /\ At(w, "capture_status")
  /\ Goto(w, IF Sums # {} THEN "reconcile_db" ELSE "capture_psp")
  /\ UNCHANGED <<accountVars, rowVars, bookingVars, pspVars>>

\* The status query failed, "proceeding to capture"; or the PSP answers with the
\* state of the authorization the row points at, not of its capture.
CaptureStatusFails(w) ==
  /\ At(w, "capture_status")
  /\ Goto(w, "capture_psp")
  /\ UNCHANGED <<accountVars, rowVars, bookingVars, pspVars>>

\* The PSP captures from a live hold, and (hosted) again from a captured one.
\* Key capture:<booking>: a repeated call answers with the first capture.
CapturePsp(w) ==
  /\ At(w, "capture_psp")
  /\ \/ /\ Answered(Key("capture", 0))
        /\ work' = [work EXCEPT ![w].at = "capture_db", ![w].amt = charges[1]]
        /\ UNCHANGED pspVars
     \/ /\ ~Answered(Key("capture", 0))
        /\ \/ hold[work[w].ref] = "held"
           \/ Hosted /\ hold[work[w].ref] \in {"captured", "residual"} /\ Len(charges) < 2
        /\ charges' = Append(charges, work[w].amt)
        /\ hold' = [hold EXCEPT ![work[w].ref] =
                      IF work[w].amt < work[w].seen THEN "residual" ELSE "captured"]
        /\ keys' = Remember(Key("capture", 0))
        /\ Goto(w, "capture_db")
        /\ UNCHANGED <<taken, returned, reported>>
  /\ UNCHANGED <<accountVars, rowVars, bookingVars>>

UnguardedFinalize(c) ==
  /\ status \notin {"NONE", "FAILED"}
  /\ status' = "CAPTURED"
  /\ captured' = c
  /\ ledger' = Post(Post(ledger, "CAPTURE", c), "FEE", Fee(c))
  /\ payout' = IF technician /\ Net(c) > 0 THEN [status |-> "PENDING", amount |-> Net(c)]
                                           ELSE payout
  /\ UNCHANGED <<amount, refunded, rowVars>>

\* finalizeCapture: revenue, commission and payout in one guarded transaction.
FinalizeCapture(c) ==
  /\ status = "PRE_AUTHORIZED"
  /\ status' = "CAPTURED"
  /\ captured' = c
  /\ ledger' = Post(Post(ledger, "CAPTURE", c), "FEE", Fee(c))
  /\ payout' = IF technician /\ Net(c) > 0 THEN [status |-> "PENDING", amount |-> Net(c)]
                                           ELSE payout
  /\ UNCHANGED <<amount, refunded, rowVars>>

CaptureDb(w) ==
  /\ At(w, "capture_db")
  /\ FinalizeCapture(work[w].amt)
  /\ IF work[w].amt < work[w].seen THEN Goto(w, "residual_psp") ELSE Finish(w)
  /\ UNCHANGED <<bookingVars, pspVars>>

ReconcileDb(w) ==
  /\ At(w, "reconcile_db")
  /\ FinalizeCapture(work[w].amt)
  /\ Finish(w)
  /\ UNCHANGED <<bookingVars, pspVars>>

\* What void does at the PSP: a live hold is released, of a partly captured one
\* the rest is; a captured one is refused.
Voided(state) == IF state = "held" THEN "voided" ELSE "captured"

\* Best effort, after a partial capture.
VoidResidualPsp(w) ==
  /\ At(w, "residual_psp")
  /\ hold[work[w].ref] = "residual"
  /\ hold' = [hold EXCEPT ![work[w].ref] = Voided(@)]
  /\ Finish(w)
  /\ UNCHANGED <<accountVars, rowVars, bookingVars, charges, taken, returned, reported, keys>>

-----------------------------------------------------------------------------
(* booking.cancelled: handleCancellation. *)

CancellationRead(w) ==
  /\ "cancelled" \in events
  /\ \/ /\ status = "PRE_AUTHORIZED"
        /\ Start(w, "void_psp", ref, amount, 0)
     \/ /\ status \in Refundable
        /\ captured > refunded
        /\ Start(w, "refund_psp", "none", captured - refunded, refunded)
  /\ UNCHANGED <<accountVars, rowVars, bookingVars, pspVars>>

VoidIgnoringRefusal(w) ==
  /\ At(w, "void_psp")
  /\ hold' = [hold EXCEPT ![work[w].ref] = IF @ = "held" THEN "voided" ELSE @]
  /\ Goto(w, "void_db")
  /\ UNCHANGED <<accountVars, rowVars, bookingVars, charges, taken, returned, reported, keys>>

\* Key void:<booking>: a repeated call answers with the first, whatever the hold.
VoidPsp(w) ==
  /\ At(w, "void_psp")
  /\ \/ /\ Answered(Key("void", 0))
        /\ UNCHANGED <<hold, keys>>
     \/ /\ ~Answered(Key("void", 0))
        /\ hold[work[w].ref] \in {"held", "residual"}
        /\ hold' = [hold EXCEPT ![work[w].ref] = Voided(@)]
        /\ keys' = Remember(Key("void", 0))
  /\ Goto(w, "void_db")
  /\ UNCHANGED <<accountVars, rowVars, bookingVars, charges, taken, returned, reported>>

VoidDb(w) ==
  /\ At(w, "void_db")
  /\ status = "PRE_AUTHORIZED"
  /\ status' = "REFUNDED"
  /\ ledger' = Post(ledger, "REFUND", work[w].amt)
  /\ Finish(w)
  /\ UNCHANGED <<amount, captured, refunded, payout, rowVars, bookingVars, pspVars>>

-----------------------------------------------------------------------------
(* Refunds: refundCaptured after a cancellation, refundBooking by an admin. *)

RefundBookingRead(w) ==
  /\ status \in Refundable
  /\ \E a \in RefundAmounts :
       /\ a <= captured - refunded
       /\ Start(w, "refund_psp", "none", a, refunded)
  /\ UNCHANGED <<accountVars, rowVars, bookingVars, pspVars>>

\* Money of the charge the row records, or will: the PSP returns at most what it
\* charged.  Its webhook carries the running total, or (hosted) the amount of the
\* one refund transaction it reports.
ReturnMoney(a) ==
  /\ \E c \in IF captured > 0 THEN {captured} ELSE Sums : returned + a <= c
  /\ returned' = returned + a
  /\ reported' = reported \cup {IF Hosted THEN a ELSE returned'}

\* Key refund:<booking>:<total already refunded>; the amount is not part of it.
RefundPsp(w) ==
  /\ At(w, "refund_psp")
  /\ LET key == Key("refund", work[w].seen) IN
       \/ Answered(key) /\ UNCHANGED <<returned, reported, keys>>
       \/ /\ ~Answered(key)
          /\ ReturnMoney(work[w].amt)
          /\ keys' = Remember(key)
  /\ Goto(w, "refund_db")
  /\ UNCHANGED <<accountVars, rowVars, bookingVars, hold, charges, taken>>

AdvanceStacking(seen, total) ==
  /\ status \in Refundable
  /\ refunded' = refunded + (total - seen)
  /\ status' = IF refunded' >= captured THEN "REFUNDED" ELSE "PARTIALLY_REFUNDED"
  /\ ledger' = Post(ledger, "REFUND", total - seen)
  /\ UNCHANGED <<amount, captured>>

AdvancePostingTotal(seen, total) ==
  /\ status \in Refundable
  /\ refunded = seen
  /\ refunded' = total
  /\ status' = IF total >= captured THEN "REFUNDED" ELSE "PARTIALLY_REFUNDED"
  /\ ledger' = Post(ledger, "REFUND", total)
  /\ UNCHANGED <<amount, captured>>

\* "Guard on the refunded total we read, so concurrent refunds can't stack."
AdvanceRefunded(seen, total) ==
  /\ status \in Refundable
  /\ refunded = seen
  /\ refunded' = total
  /\ status' = IF total >= captured THEN "REFUNDED" ELSE "PARTIALLY_REFUNDED"
  /\ ledger' = Post(ledger, "REFUND", total - seen)
  /\ UNCHANGED <<amount, captured>>

\* A complete refund also claws back the payout that is not yet on its way.
RefundDb(w) ==
  /\ At(w, "refund_db")
  /\ AdvanceRefunded(work[w].seen, work[w].seen + work[w].amt)
  /\ payout' = IF status' = "REFUNDED" THEN ClawBack(payout) ELSE payout
  /\ Finish(w)
  /\ UNCHANGED <<rowVars, bookingVars, pspVars>>

-----------------------------------------------------------------------------
(* PSP webhooks.  One delivered again, or late, finds its guard false. *)

CapturedIgnoringFigure ==
  /\ Sums # {}
  /\ FinalizeCapture(amount)
  /\ UNCHANGED <<bookingVars, pspVars, work>>

\* The PSP made this charge: for a handler of ours or from its dashboard.
WebhookCaptured ==
  /\ \E c \in Sums : FinalizeCapture(c)
  /\ UNCHANGED <<bookingVars, pspVars, work>>

\* Events are matched to the payment by booking, whichever hold has expired.
WebhookAuthExpired ==
  /\ \E h \in Hold : hold[h] = "expired"
  /\ status = "PRE_AUTHORIZED"
  /\ status' = "FAILED"
  /\ UNCHANGED <<amount, captured, refunded, ledger, payout, rowVars, bookingVars, pspVars, work>>

\* The dispute row is written whatever the status.
WebhookDisputeOpened ==
  /\ Sums # {}
  /\ status # "NONE"
  /\ Len(disputes) < MaxDisputes
  /\ LET sum == IF captured > 0 THEN captured ELSE amount IN
       /\ disputes' = Append(disputes, [amount |-> sum, open |-> TRUE])
       /\ \/ /\ status \in Refundable
             /\ status' = "DISPUTED"
             /\ ledger' = Post(ledger, "DISPUTE", sum)
             /\ booking' = "DISPUTED"
          \/ /\ status \notin Refundable
             /\ UNCHANGED <<status, ledger, booking>>
  /\ UNCHANGED <<amount, captured, refunded, payout, ref, aged, technician, events, pspVars, work>>

OpenDisputes == {i \in DOMAIN disputes : disputes[i].open}

DisputeWonForgotten(won) ==
  /\ \E i \in OpenDisputes :
       /\ \A j \in OpenDisputes : j <= i
       /\ disputes' = [disputes EXCEPT ![i].open = FALSE]
       /\ \/ /\ status = "DISPUTED" /\ ~won
             /\ status' = "CHARGEBACK"
             /\ ledger' = Post(ledger, "CHARGEBACK", disputes[i].amount)
             /\ payout' = ClawBack(payout)
          \/ /\ status # "DISPUTED" \/ won
             /\ UNCHANGED <<status, ledger, payout>>
  /\ UNCHANGED <<amount, captured, refunded, ref, aged, bookingVars, pspVars, work>>

DisputeLostStillPaid(won) ==
  /\ \E i \in OpenDisputes :
       /\ \A j \in OpenDisputes : j <= i
       /\ disputes' = [disputes EXCEPT ![i].open = FALSE]
       /\ status = "DISPUTED"
       /\ status' = IF won THEN "CAPTURED" ELSE "CHARGEBACK"
       /\ ledger' = IF won THEN ledger ELSE Post(ledger, "CHARGEBACK", disputes[i].amount)
  /\ UNCHANGED <<payout, amount, captured, refunded, ref, aged, bookingVars, pspVars, work>>

\* The open dispute closed is the latest: the event does not say which.
WebhookDisputeClosed(won) ==
  /\ \E i \in OpenDisputes :
       /\ \A j \in OpenDisputes : j <= i
       /\ disputes' = [disputes EXCEPT ![i].open = FALSE]
       /\ \/ /\ status = "DISPUTED" /\ won
             /\ status' = "CAPTURED"
             /\ UNCHANGED <<ledger, payout>>
          \/ /\ status = "DISPUTED" /\ ~won
             /\ status' = "CHARGEBACK"
             /\ ledger' = Post(ledger, "CHARGEBACK", disputes[i].amount)
             /\ payout' = ClawBack(payout)
          \/ /\ status # "DISPUTED"
             /\ UNCHANGED <<status, ledger, payout>>
  /\ UNCHANGED <<amount, captured, refunded, ref, aged, bookingVars, pspVars, work>>

\* A figure that does not advance the refunded total is dropped.
WebhookRefundedRead(w) ==
  /\ captured > 0
  /\ \E settled \in reported :
       /\ settled > refunded
       /\ Start(w, "settle_db", "none", settled, refunded)
  /\ UNCHANGED <<accountVars, rowVars, bookingVars, pspVars>>

WebhookRefundedDb(w) ==
  /\ At(w, "settle_db")
  /\ AdvanceRefunded(work[w].seen, work[w].amt)
  /\ Finish(w)
  /\ UNCHANGED <<payout, rowVars, bookingVars, pspVars>>

-----------------------------------------------------------------------------
(* The PSP on its own: holds expire, operators capture and refund. *)

PspExpires ==
  /\ \E h \in Hold : hold[h] = "held" /\ hold' = [hold EXCEPT ![h] = "expired"]
  /\ UNCHANGED <<accountVars, rowVars, bookingVars, charges, taken, returned, reported, keys, work>>

\* An operator captures a live hold whole: young or past expiry ("funds at
\* risk"), the row's or one it no longer points at.
DashboardCapture ==
  /\ "capture" \in Dashboard
  /\ \E h \in Hold :
       /\ hold[h] = "held"
       /\ hold' = [hold EXCEPT ![h] = "captured"]
       /\ taken' = [taken EXCEPT ![h] = IF status = "NONE" THEN Total ELSE amount]
  /\ UNCHANGED <<accountVars, rowVars, bookingVars, charges, returned, reported, keys, work>>

\* Of the charge the row records, or of another one: its figures are not told apart.
DashboardRefund ==
  /\ "refund" \in Dashboard
  /\ \/ \E a \in RefundAmounts : ReturnMoney(a)
     \/ /\ Len(charges) + Cardinality(TakenHolds) > 1
        /\ \E c \in Sums : \E figure \in 1..c : reported' = reported \cup {figure}
        /\ UNCHANGED returned
  /\ UNCHANGED <<accountVars, rowVars, bookingVars, hold, charges, taken, keys, work>>

-----------------------------------------------------------------------------
(* The rest of the system, as far as it reads or writes this state. *)

\* Days pass since preAuthorizedAt, whatever became of the hold.
HoldAges ==
  /\ status = "PRE_AUTHORIZED" /\ ~aged
  /\ aged' = TRUE
  /\ UNCHANGED <<accountVars, ref, disputes, bookingVars, pspVars, work>>

\* respondAdditionalWork reads the payment's status, then writes by id.
ApproveExtraRead(w) ==
  /\ ~Hosted
  /\ technician
  /\ status = "PRE_AUTHORIZED"
  /\ \E a \in Extra : amount + a <= MaxAmount /\ Start(w, "widen_db", "none", a, 0)
  /\ UNCHANGED <<accountVars, rowVars, bookingVars, pspVars>>

ApproveExtraDb(w) ==
  /\ At(w, "widen_db")
  /\ amount + work[w].amt <= MaxAmount
  /\ amount' = amount + work[w].amt
  /\ Finish(w)
  /\ UNCHANGED <<status, captured, refunded, ledger, payout, rowVars, bookingVars, pspVars>>

Accept ==
  /\ booking = "PENDING"
  /\ booking' = "ASSIGNED"
  /\ technician' = TRUE
  /\ UNCHANGED <<accountVars, rowVars, events, pspVars, work>>

\* Only a booking whose funds are authorised completes.
Complete ==
  /\ booking = "ASSIGNED"
  /\ status \in {"PRE_AUTHORIZED", "CAPTURED"}
  /\ booking' = "COMPLETED"
  /\ events' = events \cup {"completed"}
  /\ UNCHANGED <<accountVars, rowVars, technician, pspVars, work>>

NoShow ==
  /\ booking = "ASSIGNED"
  /\ booking' = "NO_SHOW"
  /\ events' = events \cup {"no_show"}
  /\ UNCHANGED <<accountVars, rowVars, technician, pspVars, work>>

Cancel ==
  /\ booking \notin {"COMPLETED", "CANCELLED"}
  /\ booking' = "CANCELLED"
  /\ events' = events \cup {"cancelled"}
  /\ UNCHANGED <<accountVars, rowVars, technician, pspVars, work>>

\* AdminService.processPayout claims the payout and later completes it with its
\* ledger entry, or marks it failed.
ClaimPayout ==
  /\ payout.status = "PENDING"
  /\ payout' = [payout EXCEPT !.status = "PROCESSING"]
  /\ UNCHANGED <<status, amount, captured, refunded, ledger, rowVars, bookingVars, pspVars, work>>

SettlePayout ==
  /\ payout.status = "PROCESSING"
  /\ \/ /\ payout' = [payout EXCEPT !.status = "COMPLETED"]
        /\ ledger' = Post(ledger, "PAYOUT", payout.amount)
     \/ /\ payout' = [payout EXCEPT !.status = "FAILED"]
        /\ UNCHANGED ledger
  /\ UNCHANGED <<status, amount, captured, refunded, rowVars, bookingVars, pspVars, work>>

-----------------------------------------------------------------------------
Handler(w) ==
  \/ GiveUp(w)
  \/ PreAuthorizeRead(w) \/ PreAuthorizePsp(w) \/ PreAuthorizeDb(w)
  \/ CaptureRead(w) \/ ReauthorizePsp(w) \/ ReauthorizeDb(w)
  \/ CaptureStatus(w) \/ CaptureStatusFails(w) \/ CapturePsp(w)
  \/ CaptureDb(w) \/ ReconcileDb(w) \/ VoidResidualPsp(w)
  \/ CancellationRead(w) \/ VoidPsp(w) \/ VoidDb(w)
  \/ RefundBookingRead(w) \/ RefundPsp(w) \/ RefundDb(w)
  \/ WebhookRefundedRead(w) \/ WebhookRefundedDb(w)
  \/ ApproveExtraRead(w) \/ ApproveExtraDb(w)

Webhook ==
  \/ WebhookCaptured \/ WebhookAuthExpired \/ WebhookDisputeOpened
  \/ \E won \in BOOLEAN : WebhookDisputeClosed(won)

Environment ==
  \/ PspExpires \/ DashboardCapture \/ DashboardRefund
  \/ HoldAges \/ Authorize \/ Accept \/ Complete \/ NoShow \/ Cancel
  \/ ClaimPayout \/ SettlePayout

Next == (\E w \in Workers : Handler(w)) \/ Webhook \/ Environment

Spec == Init /\ [][Next]_vars

-----------------------------------------------------------------------------
\* Every variable keeps its type.
TypeOK ==
  /\ status \in PaymentStatus
  /\ amount \in Nat /\ captured \in Nat /\ refunded \in Nat
  /\ ref \in Hold \cup {"none"} /\ aged \in BOOLEAN
  /\ ledger \in [LedgerType -> Nat]
  /\ payout \in [status : PayoutStatus, amount : Nat]
  /\ disputes \in Seq([amount : Nat, open : BOOLEAN])
  /\ booking \in BookingState /\ technician \in BOOLEAN
  /\ events \subseteq {"created", "completed", "no_show", "cancelled"}
  /\ hold \in [Hold -> HoldState]
  /\ charges \in Seq(Nat) /\ taken \in [Hold -> Nat] /\ returned \in Nat /\ reported \subseteq Nat
  /\ keys \subseteq [op : {"capture", "void", "refund"}, seen : Nat]
  /\ work \in [Workers -> Job]

Settled == {"CAPTURED", "PARTIALLY_REFUNDED", "REFUNDED", "DISPUTED", "CHARGEBACK"}

\* The ledger tells the row's story: one CAPTURE and one FEE for what was captured,
CaptureBooked ==
  /\ ledger["CAPTURE"] = captured
  /\ ledger["FEE"] = Fee(captured)
  /\ captured > 0 => status \in Settled
  /\ status \in Settled \ {"REFUNDED"} => captured > 0

\* REFUND entries that add up to the refunded total, complete exactly when the
\* row says so, and none before a capture but for a hold released whole,
RefundsBooked ==
  /\ captured > 0 => ledger["REFUND"] = refunded /\ (status = "REFUNDED" <=> refunded >= captured)
  /\ captured = 0 => refunded = 0
  /\ status \in {"NONE", "PRE_AUTHORIZED", "FAILED"} => ledger["REFUND"] = 0

\* a payout of the net amount, with its entry once it was disbursed.
PayoutBooked ==
  /\ payout.status # "NONE" => captured > 0 /\ payout.amount = Net(captured)
  /\ ledger["PAYOUT"] = IF payout.status = "COMPLETED" THEN payout.amount ELSE 0

\* Whatever handlers, webhooks and admins interleave, the ledger entries, the
\* payments row and the payout agree: no "duplicate ledger row" of the safety
\* model, no sum that differs from the row as the refund webhook's comment fears.
LedgerInv == CaptureBooked /\ RefundsBooked /\ PayoutBooked

\* The service never records more refunded than was captured, with concurrent
\* refunds, their webhooks and refunds made at the PSP.
RefundWithinCapture == refunded <= captured

\* All that was charged to the customer.
OwnCharges == CASE Len(charges) = 0 -> 0
                [] Len(charges) = 1 -> charges[1]
                [] OTHER -> charges[1] + charges[2]
AllCharged == OwnCharges + taken["auth"] + taken["reauth"]

\* An operator captured one hold and the other was captured too.
ChargedOnBoth == TakenHolds # {} /\ \A h \in Hold : hold[h] \in {"captured", "residual"}

\* The service itself charges at most what the row holds: retries, concurrent
\* captures and reauthorisations share one key per booking.  With operators
\* capturing too the customer still is, unless both holds were charged: a hold
\* past expiry is renewed whatever became of it.
ChargedOnce ==
  status # "NONE" => OwnCharges <= amount /\ (AllCharged <= amount \/ ChargedOnBoth)

\* What the row calls captured is what the PSP charged: a capture made twice, or
\* by an operator while a handler was at it, is booked once and in full.  Of two
\* holds charged (ChargedOnBoth) it is one.
BooksMatchPsp ==
  captured > 0 => captured \in Sums /\ (captured = AllCharged \/ ChargedOnBoth)

\* A hold the row calls released was not charged, but for a callout fee whose
\* capture was under way when the no-show was cancelled.  An operator's charge
\* can hide behind a released hold only when the hold was renewed.
VoidedNotCharged ==
  status = "REFUNDED" /\ captured = 0 =>
    /\ \A i \in DOMAIN charges : charges[i] = Callout
    /\ TakenHolds # {} => hold["reauth"] # "none"

\* A disputed payment always has an open dispute whose closing settles it, even
\* when disputes were opened before the capture was recorded.
DisputedHasOpenDispute == status = "DISPUTED" => OpenDisputes # {}

\* A lost dispute takes back the payout that was not yet claimed.
ChargebackClawsBack == status = "CHARGEBACK" => payout.status # "PENDING"

\* The handlers implement the account: whatever they interleave, the money of
\* the booking moves by whole business transitions.
AccountSpec == Account!Spec
=============================================================================
