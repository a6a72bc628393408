---------------------------- MODULE BookingWork ----------------------------
(***************************************************************************)
(* One accepted booking until it is completed, cancelled or a no-show:     *)
(* the technician's transitions and checklists (BookingService.lifecycle), *)
(* cancel, reschedule and additional work (BookingService.cancelWork), and *)
(* the bill of materials (BookingMaterialService).                         *)
(*                                                                         *)
(* A request reads, checks and then writes, and other requests commit in   *)
(* between, as they do under READ COMMITTED: a job has one step for its    *)
(* reads and one for its commit.  Writes of the booking's row carry the    *)
(* version that was read, and fail when another such write came first;     *)
(* writes of a material line or of additional work are by id alone.        *)
(* Verification requests that a declined price opens, and the note that    *)
(* the customer supplies a material, are left out.                         *)
(***************************************************************************)
EXTENDS Naturals, FiniteSets

CONSTANTS
  Workers,     \* concurrent requests
  Lines,       \* rows of the bill of materials that may be created
  Items,       \* rows of additional work that may be created
  Kinds,       \* prices a technician records, see NeedsReview
  Base,        \* booking.totalJod when the hold was placed
  LinePrice,   \* total of a line
  ItemPrice,   \* amount of an item
  MaxEdits     \* bound on the requests that write a line

ASSUME WorkAssumption ==
  /\ IsFiniteSet(Lines)
  /\ Kinds \subseteq {"plain", "over", "off"}
  /\ Base \in Nat /\ LinePrice \in Nat \ {0} /\ ItemPrice \in Nat \ {0}
  /\ MaxEdits \in Nat

VARIABLES
  status,      \* bookings.status
  preStart, preClose,  \* the checklists that were submitted
  total,       \* bookings.totalJod
  completions, \* technicianProfile.jobsCompleted, counted for this booking
  history,     \* the milestones in booking_status_history
  payment,     \* payments.status
  authorized,  \* payments.amountJod
  line,        \* booking_materials
  item,        \* additional_work_items.status, "none" for no row
  work,        \* the job of each worker: the row it will write, and with what
  edits        \* requests about lines so far

bookingVars == <<status, preStart, preClose, total, completions, history>>
paymentVars == <<payment, authorized>>
vars == <<bookingVars, paymentVars, line, item, work, edits>>

Status == {"CONFIRMED", "EN_ROUTE", "ARRIVED", "IN_PROGRESS", "COMPLETED", "NO_SHOW",
           "CANCELLED", "DISPUTED"}
LineStatus == {"none", "PENDING", "PENDING_REVIEW", "APPROVED", "DECLINED", "REPLACED", "LOCKED"}
Milestone == {"IN_PROGRESS", "COMPLETED", "NO_SHOW", "CANCELLED"}
Line == [status : LineStatus, kind : Kinds \cup {"none"}, ack : BOOLEAN, reason : BOOLEAN,
         invoice : BOOLEAN]
NoLine == [status |-> "none", kind |-> "none", ack |-> FALSE, reason |-> FALSE,
           invoice |-> FALSE]

Point == {"idle", "status_db", "lock_db", "checklist_db", "reschedule_db", "create_db", "update_db",
          "invoice_db", "justify_db", "ack_db", "decline_db", "substitute_db", "review_db",
          "propose_db", "respond_db"}
Job == [at : Point, on : Lines \cup Items \cup {"none"}, sum : Nat,
        to : (Status \cup LineStatus) \cup (Kinds \cup {"pre_start", "pre_close"})]
Idle == [at |-> "idle", on |-> "none", to |-> "none", sum |-> 0]

Init ==
  /\ status = "CONFIRMED" /\ preStart = FALSE /\ preClose = FALSE
  /\ total = Base /\ completions = 0 /\ history = {}
  /\ payment = "PRE_AUTHORIZED" /\ authorized = Base
  /\ line = [l \in Lines |-> NoLine]
  /\ item = [i \in Items |-> "none"]
  /\ work = [w \in Workers |-> Idle] /\ edits = 0

-----------------------------------------------------------------------------
At(w, point) == work[w].at = point
Finish(w) == work' = [work EXCEPT ![w] = Idle]

\* The reads of a request.
Begin(w, at, on, to) ==
  /\ At(w, "idle")
  /\ work' = [work EXCEPT ![w] = [at |-> at, on |-> on, to |-> to, sum |-> 0]]
  /\ UNCHANGED <<bookingVars, paymentVars, line, item>>

Start(w, at, on, to) == Begin(w, at, on, to) /\ UNCHANGED edits
Edit(w, at, on, to) == edits < MaxEdits /\ Begin(w, at, on, to) /\ edits' = edits + 1

\* The request fails.
GiveUp(w) ==
  /\ ~At(w, "idle")
  /\ Finish(w)
  /\ UNCHANGED <<bookingVars, paymentVars, line, item, edits>>

BumpForgotten(w) == Finish(w)

\* version: { increment: 1 }: a write where the version is one read before fails.
Bump(w) ==
  work' = [v \in Workers |->
             IF v = w \/ work[v].at \in {"status_db", "checklist_db", "reschedule_db"}
             THEN Idle ELSE work[v]]

-----------------------------------------------------------------------------
(* The booking's status *)

Editable == {"PENDING", "PENDING_REVIEW"}
ExecutionReady == {"PENDING", "APPROVED"}

\* requireBomApprovedForWorkStart and requireMaterialInvoicesComplete.
BomApproved == \A l \in Lines : line[l].status = "PENDING" => line[l].ack
InvoicedOnceApproved == \A l \in Lines : line[l].status = "APPROVED" => line[l].invoice
Invoiced == \A l \in Lines : line[l].status \in {"LOCKED", "APPROVED"} => line[l].invoice

AdvanceRead(w) ==
  \E to \in {"EN_ROUTE", "ARRIVED", "IN_PROGRESS"} :
    /\ <<status, to>> \in {<<"CONFIRMED", "EN_ROUTE">>, <<"EN_ROUTE", "ARRIVED">>,
                           <<"ARRIVED", "IN_PROGRESS">>}
    /\ to = "IN_PROGRESS" => preStart /\ BomApproved
    /\ Start(w, "status_db", "none", to)

CompleteRead(w) ==
  /\ status \in {"CONFIRMED", "EN_ROUTE", "ARRIVED", "IN_PROGRESS"}
  /\ preClose
  /\ Invoiced
  /\ payment \in {"PRE_AUTHORIZED", "CAPTURED"}
  /\ Start(w, "status_db", "none", "COMPLETED")

NoShowRead(w) ==
  /\ status = "ARRIVED"
  /\ Start(w, "status_db", "none", "NO_SHOW")

CancelUnlessCancelled(w) ==
  /\ status # "CANCELLED"
  /\ Start(w, "status_db", "none", "CANCELLED")

CancelRead(w) ==
  /\ status \notin {"COMPLETED", "CANCELLED"}
  /\ Start(w, "status_db", "none", "CANCELLED")

\* No other transaction has written the booking's row and is yet to commit.
RowFree(w) == \A v \in Workers \ {w} : ~At(v, "lock_db")

StatusDb(w) ==
  /\ At(w, "status_db") /\ RowFree(w)
  /\ work[w].to # "IN_PROGRESS"
  /\ status' = work[w].to
  /\ history' = history \cup ({work[w].to} \cap Milestone)
  /\ completions' = completions + Cardinality({work[w].to} \cap {"COMPLETED"})
  /\ Bump(w)
  /\ UNCHANGED <<preStart, preClose, total, paymentVars, line, item, edits>>

Ready == {l \in Lines : line[l].status \in ExecutionReady}

\* lockBookingMaterials adds up the lines that are ready, in the transaction that
\* wrote the status,
StartWork(w) ==
  /\ At(w, "status_db") /\ RowFree(w)
  /\ work[w].to = "IN_PROGRESS"
  /\ work' = [work EXCEPT ![w].at = "lock_db", ![w].sum = LinePrice * Cardinality(Ready)]
  /\ UNCHANGED <<bookingVars, paymentVars, line, item, edits>>

\* and locks those that are ready by then, unless there were none.
LockDb(w) ==
  /\ At(w, "lock_db")
  /\ status' = "IN_PROGRESS"
  /\ history' = history \cup {"IN_PROGRESS"}
  /\ total' = total + work[w].sum
  /\ line' = [l \in Lines |-> IF work[w].sum > 0 /\ l \in Ready
                              THEN [line[l] EXCEPT !.status = "LOCKED"] ELSE line[l]]
  /\ Bump(w)
  /\ UNCHANGED <<preStart, preClose, completions, paymentVars, item, edits>>

ChecklistAnyTime(w) ==
  \E to \in {"pre_start", "pre_close"} : Start(w, "checklist_db", "none", to)

ChecklistRead(w) ==
  \/ status = "ARRIVED" /\ Start(w, "checklist_db", "none", "pre_start")
  \/ status = "IN_PROGRESS" /\ Start(w, "checklist_db", "none", "pre_close")

ChecklistDb(w) ==
  /\ At(w, "checklist_db") /\ RowFree(w)
  /\ preStart' = (preStart \/ work[w].to = "pre_start")
  /\ preClose' = (preClose \/ work[w].to = "pre_close")
  /\ Bump(w)
  /\ UNCHANGED <<status, total, completions, history, paymentVars, line, item, edits>>

RescheduleRead(w) ==
  /\ status = "CONFIRMED"
  /\ Start(w, "reschedule_db", "none", "none")

RescheduleDb(w) ==
  /\ At(w, "reschedule_db") /\ RowFree(w)
  /\ Bump(w)
  /\ UNCHANGED <<bookingVars, paymentVars, line, item, edits>>

-----------------------------------------------------------------------------
(* The bill of materials *)

\* "plain" is a catalogue price near its reference, "over" one so far above it
\* that a reason is due as well, and "off" a material that is not catalogued.
NeedsReview(kind) == kind \in {"over", "off"}
NeedsReason(kind) == kind = "over"
Priced(kind) == IF NeedsReview(kind) THEN "PENDING_REVIEW" ELSE "PENDING"
Fresh(kind) == [NoLine EXCEPT !.kind = kind, !.status = Priced(kind)]

Unused == {l \in Lines : line[l].status = "none"}

CreateLineRead(w) ==
  /\ status \in {"CONFIRMED", "EN_ROUTE", "ARRIVED"}
  /\ \E kind \in Kinds : Edit(w, "create_db", "none", kind)

CreateLineDb(w) ==
  /\ At(w, "create_db")
  /\ \E l \in Unused : line' = [line EXCEPT ![l] = Fresh(work[w].to)]
  /\ Finish(w)
  /\ UNCHANGED <<bookingVars, paymentVars, item, edits>>

\* An edit reopens the reason and the customer's consent, not the invoice.
UpdateLineRead(w, l) ==
  /\ line[l].status \in Editable
  /\ \E kind \in Kinds : Edit(w, "update_db", l, kind)

UpdateLineDb(w) ==
  /\ At(w, "update_db")
  /\ line' = [line EXCEPT ![work[w].on].kind = work[w].to,
                          ![work[w].on].status = Priced(work[w].to),
                          ![work[w].on].reason = FALSE,
                          ![work[w].on].ack = FALSE]
  /\ Finish(w)
  /\ UNCHANGED <<bookingVars, paymentVars, item, edits>>

\* The status that was read is written back, or the review reopened.  A reason
\* may come with the invoice, and has to when one is due and none is recorded.
UploadInvoiceRead(w, l) ==
  /\ line[l].status \in Editable
  /\ \E at \in {"invoice_db", "justify_db"} :
       /\ NeedsReason(line[l].kind) => at = "justify_db" \/ line[l].reason
       /\ Edit(w, at, l,
               IF NeedsReason(line[l].kind) THEN "PENDING_REVIEW" ELSE line[l].status)

UploadInvoiceDb(w) ==
  /\ work[w].at \in {"invoice_db", "justify_db"}
  /\ line' = [line EXCEPT ![work[w].on].invoice = TRUE,
                          ![work[w].on].status = work[w].to,
                          ![work[w].on].reason = @ \/ At(w, "justify_db")]
  /\ Finish(w)
  /\ UNCHANGED <<bookingVars, paymentVars, item, edits>>

\* approveByCustomer takes a plain line, ackByCustomer one with a reason.
AckRead(w, l) ==
  /\ line[l].status = "PENDING" \/ (line[l].status \in Editable /\ line[l].reason)
  /\ Edit(w, "ack_db", l, "none")

AckDb(w) ==
  /\ At(w, "ack_db")
  /\ line' = [line EXCEPT ![work[w].on].ack = TRUE]
  /\ Finish(w)
  /\ UNCHANGED <<bookingVars, paymentVars, item, edits>>

\* declineByCustomer opens a verification request.
DeclineRead(w, l) ==
  /\ line[l].status \in Editable
  /\ line[l].reason
  /\ line[l].kind # "off"
  /\ Edit(w, "decline_db", l, "none")

DeclineDb(w) ==
  /\ At(w, "decline_db")
  /\ line' = [line EXCEPT ![work[w].on].status = "PENDING_REVIEW"]
  /\ Finish(w)
  /\ UNCHANGED <<bookingVars, paymentVars, item, edits>>

SubstituteRead(w, l) ==
  /\ line[l].status \in Editable
  /\ \E kind \in Kinds : Edit(w, "substitute_db", l, kind)

SubstituteDb(w) ==
  /\ At(w, "substitute_db")
  /\ \E l \in Unused : line' = [line EXCEPT ![work[w].on].status = "REPLACED",
                                            ![l] = Fresh(work[w].to)]
  /\ Finish(w)
  /\ UNCHANGED <<bookingVars, paymentVars, item, edits>>

AdminReviewRead(w, l) ==
  /\ line[l].status = "PENDING_REVIEW"
  /\ \E decision \in {"APPROVED", "DECLINED"} :
       /\ decision = "APPROVED" => line[l].kind # "off" \/ line[l].invoice
       /\ Edit(w, "review_db", l, decision)

AdminReviewDb(w) ==
  /\ At(w, "review_db")
  /\ line' = [line EXCEPT ![work[w].on].status = work[w].to]
  /\ Finish(w)
  /\ UNCHANGED <<bookingVars, paymentVars, item, edits>>

\* settleExpiredBomReviews, once their time is over.
SettleReviews ==
  /\ \E late \in SUBSET {l \in Lines : line[l].status = "PENDING_REVIEW"} :
       /\ late # {}
       /\ line' = [l \in Lines |-> IF l \in late THEN [line[l] EXCEPT !.status = "APPROVED"]
                                                 ELSE line[l]]
  /\ UNCHANGED <<bookingVars, paymentVars, item, work, edits>>

-----------------------------------------------------------------------------
(* Additional work (instant mode; hosted checkout refuses the approval) *)

ProposeRead(w) ==
  /\ status = "IN_PROGRESS"
  /\ Start(w, "propose_db", "none", "none")

ProposeDb(w) ==
  /\ At(w, "propose_db")
  /\ \E i \in Items : item[i] = "none" /\ item' = [item EXCEPT ![i] = "PROPOSED"]
  /\ Finish(w)
  /\ UNCHANGED <<bookingVars, paymentVars, line, edits>>

RespondRead(w, i) ==
  /\ item[i] = "PROPOSED"
  /\ \E to \in {"APPROVED", "DECLINED"} : Start(w, "respond_db", i, to)

RespondWidensOnly(w) ==
  /\ At(w, "respond_db")
  /\ item' = [item EXCEPT ![work[w].on] = work[w].to]
  /\ authorized' = IF payment = "PRE_AUTHORIZED" /\ work[w].to = "APPROVED"
                   THEN authorized + ItemPrice ELSE authorized
  /\ Finish(w)
  /\ UNCHANGED <<bookingVars, payment, line, edits>>

\* The hold is widened along with the total, as long as it is one.
RespondDb(w) ==
  /\ At(w, "respond_db")
  /\ item' = [item EXCEPT ![work[w].on] = work[w].to]
  /\ \/ /\ work[w].to = "APPROVED"
        /\ total' = total + ItemPrice
        /\ authorized' = IF payment = "PRE_AUTHORIZED" THEN authorized + ItemPrice ELSE authorized
     \/ /\ work[w].to = "DECLINED"
        /\ UNCHANGED <<total, authorized>>
  /\ Finish(w)
  /\ UNCHANGED <<status, preStart, preClose, completions, history, payment, line, edits>>

-----------------------------------------------------------------------------
(* The payment, modelled in Payment: "LOST" is one that failed or went back. *)

PaymentMoves ==
  /\ \E move \in {<<"PRE_AUTHORIZED", "CAPTURED">>, <<"PRE_AUTHORIZED", "LOST">>,
                  <<"CAPTURED", "PARTIALLY_REFUNDED">>, <<"CAPTURED", "LOST">>,
                  <<"PARTIALLY_REFUNDED", "LOST">>, <<"DISPUTED", "CAPTURED">>,
                  <<"DISPUTED", "LOST">>} :
       payment = move[1] /\ payment' = move[2]
  /\ UNCHANGED <<bookingVars, authorized, line, item, work, edits>>

\* The webhook writes the booking by id and leaves its version as it is.
WebhookDispute ==
  /\ payment \in {"CAPTURED", "PARTIALLY_REFUNDED"}
  /\ \A w \in Workers : ~At(w, "lock_db")
  /\ payment' = "DISPUTED"
  /\ status' = "DISPUTED"
  /\ UNCHANGED <<preStart, preClose, total, completions, history, authorized, line, item, work, edits>>

-----------------------------------------------------------------------------
BookingStep(w) ==
  \/ GiveUp(w)
  \/ AdvanceRead(w) \/ CompleteRead(w) \/ NoShowRead(w) \/ CancelRead(w)
  \/ StatusDb(w) \/ StartWork(w) \/ LockDb(w)
  \/ ChecklistRead(w) \/ ChecklistDb(w) \/ RescheduleRead(w) \/ RescheduleDb(w)
  \/ ProposeRead(w) \/ ProposeDb(w) \/ RespondDb(w) \/ \E i \in Items : RespondRead(w, i)

LineStep(w) ==
  \/ CreateLineRead(w) \/ CreateLineDb(w) \/ UpdateLineDb(w) \/ UploadInvoiceDb(w) \/ AckDb(w)
  \/ DeclineDb(w) \/ SubstituteDb(w) \/ AdminReviewDb(w)
  \/ \E l \in Lines :
       \/ UpdateLineRead(w, l) \/ UploadInvoiceRead(w, l) \/ AckRead(w, l) \/ DeclineRead(w, l)
       \/ SubstituteRead(w, l) \/ AdminReviewRead(w, l)

Next ==
  \/ \E w \in Workers : BookingStep(w) \/ LineStep(w)
  \/ SettleReviews \/ PaymentMoves \/ WebhookDispute

Spec == Init /\ [][Next]_vars

-----------------------------------------------------------------------------
(* Properties *)

TypeOK ==
  /\ status \in Status /\ preStart \in BOOLEAN /\ preClose \in BOOLEAN
  /\ total \in Nat /\ completions \in Nat /\ history \subseteq Milestone
  /\ payment \in {"PRE_AUTHORIZED", "CAPTURED", "PARTIALLY_REFUNDED", "DISPUTED", "LOST"}
  /\ authorized \in Nat
  /\ line \in [Lines -> Line]
  /\ item \in [Items -> {"none", "PROPOSED", "APPROVED", "DECLINED"}]
  /\ work \in [Workers -> Job] /\ edits \in Nat

Locked == {l \in Lines : line[l].status = "LOCKED"}
Approved == {i \in Items : item[i] = "APPROVED"}

\* Requests that race to end a booking end it once: the technician's job counts
\* once, and a job that was done is not a no-show as well (lifecycle.ts:267, 381).
OneOutcome ==
  /\ completions <= 1
  /\ ~({"COMPLETED", "NO_SHOW"} \subseteq history)

\* complete accepts a booking that is merely CONFIRMED (lifecycle.ts:18); what
\* keeps a job that was never started from being completed, and charged, is that
\* the closing checklist can only be submitted once it was.
CompletedJobWasDone ==
  "COMPLETED" \in history => preStart /\ preClose /\ "IN_PROGRESS" \in history

\* A completed job is completed for good, but for a dispute: no request that was
\* decided before it was completed takes effect later.
CompletedStands == [][status = "COMPLETED" => status' \in {"COMPLETED", "DISPUTED"}]_vars

\* Materials a completed job was charged for were bought, whatever was edited or
\* reviewed meanwhile (BookingMaterialService.ts:480).
CompletedIsInvoiced == "COMPLETED" \in history => \A l \in Locked : line[l].invoice

\* However requests interleave, approved work is on the bill, and the hold that
\* will be captured is never wider than the bill (cancelWork.ts:136).
HoldWithinBill ==
  /\ total >= Base + ItemPrice * Cardinality(Approved)
  /\ authorized <= total
====================
