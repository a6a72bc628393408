# Fixly: TLA+ models and proofs

Fixly is a marketplace for home repairs: a customer books a service, pays by a
card hold, a technician is found, does the work, and the hold is captured and
split into commission and payout. The rules that can go wrong are in the
backend (`src/backend/src/application`), where HTTP requests, outbox handlers,
timers and PSP webhooks run the same services concurrently over one Postgres
database, Redis locks and an external payment provider (PSP).

This directory models that backend: how a booking is made and paid down, the
hosted checkout, the money of a booking, the transactional outbox, technician
dispatch, the work on an accepted booking, how all of these settle a booking
together, payouts to technicians, and quotes. TLC checks each model on a small
instance; TLAPS proves most of the safety properties for every instance.
`PROJECT.json` lists components, runs, mutants, the map from definitions to
source lines, findings, hazards and theorems.

## Running

    tlc -workers 2 -config payment_instant.cfg MCPayment.tla
    tlapm PaymentProofs.tla

Every configuration is listed under "Runs" with the module it belongs to. The
proofs of a module `M` are in `MProofs`.

## 1. Inventory

State lives in Postgres unless said otherwise. "Guarded write" is the code's
own idiom: an `updateMany` whose WHERE repeats the status (or `version`) that
was read, inside a transaction that gives up if no row matches.

| Component | State | Operations | Talks to | Hard behaviour |
|---|---|---|---|---|
| **Payment service** `application/payment` | `payments`, `ledger_entries`, `disputes`, `payouts` row | authorize, prepareHosted, finalizeHosted, capture, void, refund, reauthorize, webhook | PSP (calls out between read and write), outbox (is its handler), booking (dispute) | at-least-once handlers, PSP call succeeds and commit is lost, webhook between call and commit, overlapping refunds and disputes |
| **Hosted checkout** `PaymentService.authorization.ts`, `BookingService.expireUnpaidBookings` | `bookings.status` AWAITING_PAYMENT, `payments` row PENDING | open session, finalize from return page or webhook, expire | PSP, timer, booking, outbox (BookingCreated) | several sessions, return page races webhook races cancel races expiry, duplicate holds |
| **Transactional outbox** `application/outbox/OutboxWorker.ts` | `outbox` rows (status, attempts, times); in memory: batch, attempted set | emit, drain, claim, run handler, mark, reap stale | every handler | several instances, crash between claim and mark, retries, per-booking order, handlers that time out and run on |
| **Dispatch** `application/dispatch/DispatchService.ts` | `bookings` round fields, `booking_offers`; Redis `dispatch_lock`, `booking_lock`, candidate pool | dispatch, advance (sweep), reject, accept, exhaust | booking, technicians, PSP outcome by payment status | lock TTLs, overlapping sweeps, accept races exhaustion, cancel |
| **Booking** `application/booking` | `bookings` (status, version), history, checklists, additional work | create, accept, status steps, cancel, no-show, complete, reschedule, additional work | emits outbox events, reads payment | optimistic version, cancel from almost every status, completion against a stale payment |
| **Payouts** `AdminService.payout.ts`, reconciler | `payouts`, PAYOUT ledger entries | process, batch, reconcile | payout provider, verification requests | timeout though the transfer was made, amount read before the claim, crash before the finalize |
| **PSP port and adapters** `IPaymentProvider.ts`, `MockPaymentProvider.ts`, `HyperPayProvider.ts` | external | authorize, capture, void, refund, status, parse webhook | payment service | idempotency keys forwarded or not, one transaction id per operation |
| **Webhook endpoint** | webhook dedupe rows | verify, dedupe, dispatch | payment service | redelivery, late and reordered events |
| **Timers** `main.ts` | intervals | checkout expiry, dispatch sweep, outbox poll, payout reconciliation, verification settlement, subscription billing | all of the above | overlap of ticks, several instances |
| **Quotes** `application/quote` | `booking_quotes`, `quote_lines` | add/update/remove line, ops review, send, set a firm price, accept | booking creation | no transaction: reads and writes of two calls mix, two accepts of one quote |
| **Credit, promos, referrals** `application/credit`, `promo`, `referral` | credit entries, `promo_codes`, redemptions, referral rows; Redis `promo_lock` | quote, redeem, spend, restore, grant, attribute | inside the transactions of booking creation, cancellation and completion | concurrent spending, lock TTL, two "first" completions |
| **HTTP idempotency** `middleware/idempotency.ts` | Redis placeholder and stored answer | begin, replay, conflict, release | every mutating route; modelled around POST /bookings | placeholder expires under a slow request, Redis away |
| **Materials and price checks** `application/materials` | `booking_materials`, verification requests, variance ledger | record, edit, invoice, approve, decline, substitute, review, settle; lock at work start; verify, deduct | booking, payouts | written by id from stale reads; deduction while the payout is disbursed |
| **Subscriptions** | `subscriptions` | bill, renew, cancel | PSP | billing from a list read earlier |
| **Guarantee tickets** | tickets | open, review | creates a free booking | two reviews |
| **Technicians and withdrawals** | profile, availability, withdrawals | verify, go online, withdraw | dispatch, payouts | balance and cooldown read before the insert |
| **Admin, auth, reviews, support, notifications, uploads, sockets, web/admin UI** | their own tables, browser state | CRUD, push | | no protocol of their own worth a model |

What makes each one correct:

* *Payment*: the ledger, the row, the payout and the PSP agree; no double
  charge; no more refunded than captured; a released hold was not charged; a
  chargeback leaves no payout to pay.
* *Checkout*: one promotion per booking, the hold behind the promoted row is
  alive, an unpaid booking does not wait for ever.
* *Outbox*: an event ends DONE only after its handler ran, is run by one
  instance at a time, is retried on a later tick and given up only after
  MAX_ATTEMPTS, never before the first event of its booking was tried, and
  never lost to a crash.
* *Dispatch*: one winner, who has the booking; exhausting the search never
  cancels an accepted booking; every search ends.
* *Booking*: it ends once, is completed only after it was done, with both
  checklists and every invoice, and the hold never exceeds the bill.
* *Settlement*, where the parts meet: a completed job is paid, a cancelled one
  released, a funded one dispatched, and no hold is left behind.
* *Payouts*: each transfer made once and booked once, of the amount owed;
  each variance deducted once, and only while the payout is pending; nothing
  PROCESSING for ever.
* *Credit, promos, referrals*: no balance below zero, caps honoured, the
  referrer credited once. *Idempotency*: one booking per key.
* *Quotes*: no unreviewed price at the threshold; price, lines and booking
  agree; one booking per quote. *Guarantee*: one booking per ticket.
  *Subscriptions*: one charge per period.

## 2. Modules

| Module | Lines | Models |
|---|---|---|
| `PaymentLedger` | 39 | vocabulary: statuses, commission split (`Fee`, `Net`), posting, clawback |
| `PaymentAccount` | 134 | abstract: what one booking's money may do, in whole business transitions |
| `Payment` | 657 | PaymentService for one booking, its concurrent jobs, the PSP, webhooks, payouts as seen by payments; implements `PaymentAccount` |
| `MCPayment` | 11 | TLC instance and symmetry of `Payment` |
| `HostedCheckout` | 267 | the hosted checkout until the hold is placed |
| `Delivery` | 81 | abstract: what the outbox promises about an event |
| `Outbox` | 294 | the outbox worker, several instances; implements `Delivery` |
| `Dispatch` | 321 | the search for a technician |
| `BookingWork` | 420 | an accepted booking until it ends: transitions, checklists, bill of materials, additional work |
| `MCBookingWork` | 9 | symmetry of `BookingWork` |
| `Settlement` | 277 | composition: booking, outbox and payment of one booking, over `Delivery` and `PaymentAccount` |
| `Payout` | 370 | disbursement, reconciliation, verification requests and deductions |
| `Intake` | 344 | booking creation behind the idempotency middleware, promo, wallet, referral |
| `Quote` | 205 | one quote, from its first line to its booking |
| `PaymentProofs`, `HostedCheckoutProofs`, `OutboxProofs`, `DispatchProofs`, `BookingWorkProofs`, `SettlementProofs`, `PayoutProofs`, `IntakeProofs` | 8731 | TLAPS proofs about the modules they are named after; `IntakeProofs` also about `Quote` |

How they fit together: `Outbox` implements `Delivery` and `Payment` implements
`PaymentAccount`; `Settlement` INSTANCEs these two abstractions, so that it says
what their composition achieves without repeating the interleavings inside
either. `HostedCheckout`, `Dispatch`, `BookingWork`, `Payout`, `Intake` and
`Quote` each take the others' effect on their own rows as actions of an
environment (a cancel in `Dispatch`, a payment outcome in `BookingWork`).

### PaymentAccount and Payment

`PaymentAccount` is the promise: `Hold`, `Widen`, `Capture`, `Release`,
`Lapse`, `Refund`, `Dispute`, `WinDispute`, `LoseDispute`, `ClaimPayout`,
`SettlePayout`, each one transition of status, sums, ledger and payout together.
There are no jobs, no PSP and no interleaving in it.

`Payment` is the code. All its calls carry a bookingId, so one booking is
enough. `work[w]` is a running call: where it is and what it remembers of the
row it read. A handler is a read step, a PSP step and a guarded-write step,
because the code awaits between them and other calls run there. A webhook is a
single transaction and one step. `GiveUp` ends a job at any point, which stands
for an exception, the handler timeout, a crash and a guard that matched no row
alike; `events` is a set from which handlers may start again at any time, which
is the outbox's at-least-once delivery with reordering. PSP variables
(`hold`, `charges`, `taken`, `returned`, `reported`, `keys`) are what the
provider really did: `charges` for this service, `taken` for operators at its
dashboard, who may capture any live hold, also one past expiry or one the row no
longer points at. `HoldAges` is the passing of days since `preAuthorizedAt`,
whatever has become of the hold meanwhile. In instant mode it honours the idempotency keys, as the comment of
`IPaymentProvider.ts` requires of a PSP; with `Hosted` it does not, as
`HyperPayProvider` sends none.

`Account == INSTANCE PaymentAccount` maps the variables of the same names;
`AccountSpec == Account!Spec` is checked as a property of both runs: every step
of every interleaving is one business transition of the account or leaves it
alone. `PaymentProofs` proves the same for every value of the constants.

### HostedCheckout

One booking awaiting payment, several sessions (each a single attempt at the
PSP) and workers that run the return page, the webhook and `prepareHosted`.
Cancellation and expiry compete with them. `Promote` is the transaction that
moves booking and payment together; a losing or duplicate hold is voided by
`VoidDuplicate` and `VoidRejected`. The void may fail, which the code swallows.

### Outbox and Delivery

Rows of the outbox table with their status and attempts; each instance has the
batch it fetched (`todo`, `seen`: the attempts as they were read), the events it
is running and those attempted in this tick. Groups of a booking run in order
within a batch; groups of different bookings run in parallel. `Crash` drops an
instance's memory and leaves its rows PROCESSING; `ReapStale` returns them. The
booking fan-out of one event is one handler.

`Delivery` is what is left of it for the rest of the system: an event is
started, succeeds, is requeued or is given up after `MaxAttempts`, and the
first event of a booking is tried before any other. More order than that would
be false: after a failed attempt, a dead letter, or another instance's claim,
later events of the booking run (section 5).

### Dispatch

One booking, technicians near or far, the two Redis locks with their expiry,
and workers that dispatch, sweep, accept or reject. `deadline`, rounds and
radius follow the code; `LockExpires` lets a lock lapse under its holder, after
which the holder's unlock may delete a lock it no longer owns.

### BookingWork

One accepted booking, its checklists, its bill of materials (`line`) and its
additional work (`item`). A request is a job that reads and checks in one step
and commits in another, as its transaction does under READ COMMITTED. Writes of
the booking's row carry the version that was read: `Bump` makes every job that
has read it fail, which is what `where: { id, version }` does to them. Writes of
lines and items are by id, so they happen however stale they are. Moving to
IN_PROGRESS locks the bill of materials in the same transaction, which adds up
the lines first (`StartWork`) and locks them afterwards (`LockDb`); `RowFree` is
the row lock other writers of the booking wait for in between. The dispute
webhook writes the status without the version. The payment is reduced to what
these requests read of it.

### Settlement

The events `Created`, `Ended` (booking.completed or booking.no_show) and
`Cancelled` of one booking, each a row of `Delivery`. `Deliver` starts one and
decides from the payments row what to do (`job`): place the hold, capture it,
void it, refund the capture, or nothing. `Return` makes the effect, through an
action of `PaymentAccount`, and marks the row DONE; `Fail` requeues or gives up
and may leave the job in `late`, the call that the worker timed out and that
runs on in the background, to land (`LateLands`) at any later time; `Crash`
loses it. The lifecycle reads the payment where the code does: dispatch starts
on a placed hold only, `Complete` demands an authorised payment. The PSP may let
the hold lapse, and dispute the capture, at any time.

### Payout

Admins' `processPayout` and the batch (`ReadPayout`, `Claim`, `Disburse`,
`Finalize`, or the marking of a failure), the reconciler of rows that stayed
PROCESSING, and the requests that check a material's price: provided, upheld,
withdrawn, or settled by timer when they expire, which deducts a variance from
a payout that is still PENDING. `delta` is the variance as it was recorded when
the customer declined the price, of either sign: `NothingOwed` is the early
return of the deduction, which calls the request DEDUCTED and moves nothing. Every call reads, calls the provider and writes
in steps of their own and may end between them. The provider is not assumed to
de-duplicate by payoutId: that money leaves once rests on the claim alone. The
histories `stale` and `lost` name the two cases in which a payout is not what
the books say: its amount changed between read and claim, and the transfer was
made but answered by an error.

### Intake

A request is a job of `POST /bookings` with its key: the middleware's
placeholder (`Arrive`), replay or conflict (`ArriveSecond`), the unprotected
path when Redis is away (`ArriveUncached`); the promo quote, the Redis lock and
the row lock under which the caps are checked again; the advisory lock under
which the wallet is summed and spent; the commit; the stored answer, or the
release of the key after a 5xx. Completions of bookings run next to them and
grant the referral by counting completed bookings and claiming the row
(`CountCompleted`, `ClaimGrant`, `CommitComplete`). What a transaction has
written stays in its job until it commits. Faults are an aborted transaction, a
lost answer, an expired lock or placeholder, and a crash; `broken` records the
keys whose deduplication a fault took away.

### Quote

`BookingQuoteService` opens no transaction anywhere, so every statement is a
step: the line is written, the lines are summed, the sum is written; the gate is
read, the quote is sent; the quote is read, the booking is created, the quote is
linked to it. The booking has the quoted price as its list price; what
`createBooking` takes off it (the subscription's discount, wallet credit) is any
of `Reductions`, or nothing. `disturbed` records that two calls overlapped or one ended
half-way, so that what the quote keeps whatever happens (`ReviewGate`) is told
apart from what it keeps only one call at a time (`SerialQuote`).

## 3. Runs

| Run | Distinct states | Properties | Question |
|---|---|---|---|
| `payment_instant` (MCPayment) | 787,744 | `ChargedOnce`, `BooksMatchPsp`, `VoidedNotCharged`, `AccountSpec` | instant mode with renewed holds and operators' captures: is the customer charged once, is what was charged booked, is a released hold uncharged, does it all implement the account? |
| `payment_hosted` (MCPayment) | 1,390,364 | `LedgerInv`, `RefundWithinCapture`, `DisputedHasOpenDispute`, `ChargebackClawsBack`, `AccountSpec` | hosted mode with lost answers, PSP-side refunds and overlapping disputes: do ledger, row and payout agree, are refunds and payouts bounded? |
| `payment_double_charge` (MCPayment) | violation | `ChargedOnce` | a hosted capture whose answer is lost is made again |
| `checkout` (HostedCheckout) | 225,790 | `PromotedOnce`, `HoldBehindRow`, `UnpaidResolved` | promoted once, hold behind the row alive, unpaid bookings resolved |
| `outbox` (Outbox) | 330,074 | `DoneMeansRan`, `OneOwner`, `RetryOnLaterTick`, `EventuallySettled`, `DeliverySpec` | at-least-once, one owner, retry later, everything settled, `Delivery` implemented |
| `dispatch` (Dispatch) | 300,098 | `OneWinner`, `ExhaustSparesAccepted`, `DispatchEnds` | one winner, exhaustion spares the accepted, every search ends |
| `booking_work` (MCBookingWork) | 2,185,859 | `OneOutcome`, `CompletedJobWasDone`, `CompletedIsInvoiced`, `HoldWithinBill`, `CompletedStands` | does a booking end once, done and invoiced, with its hold within its bill? |
| `settlement` (Settlement) | 232,880 | `CompletedIsPaid`, `CancelledIsReleased`, `DispatchStarts`, `NothingKeptHeld` | whatever deliveries decide and however late they land: is a completed job paid, a cancelled one released, a funded one dispatched? |
| `payout` (Payout) | 188,106 | `PaidOnce`, `SettledAsSent`, `DuesConserved`, `StuckResolved`, `ExpiredSettled` | is a payout made and booked once, of what was owed, reduced only while pending, and nothing left stuck? |
| `intake` (Intake) | 646,356 | `WalletNeverNegative`, `PromoWithinCaps`, `ReferralSettled`, `OneBookingPerKey` | do credit, promo caps, referral and keys survive overlap, retry and one fault? |
| `quote` (Quote) | 1,953,490 | `ReviewGate`, `SerialQuote` | what does a quote keep when calls overlap, and what when they do not? |
| `quote_twice` (Quote) | violation | `AcceptedOnce` | two accepts of one quote create two bookings |

Each property of a passing run has a mutant in `PROJECT.json`: a definition of
the model changed the way a plausible bug would change the code, under which
the same run finds the property violated.

### Bounds

* `Workers` 2 (3 for checkout): each race the code guards against is between
  two calls, and the guarded writes compare only with what one call read. The
  checkout needs a third, because a finalization, a webhook and a
  preparation meet there. The proofs hold for any number.
* Payment amounts: `Total` 2 or 3, `MaxAmount` 3, `Callout` 1, refunds of 1 and 2: enough for a
  partial refund, two stacked ones, a callout fee below the total, and a widened
  hold. `CommissionPct` 40 makes `Fee` and `Net` round differently for 1, 2
  and 3. The proofs cover every amount and every percentage.
* `MaxDisputes` 2 in the hosted run, an overlap; none in the instant one, which
  is about captures. `Dashboard` names what an operator does at the
  PSP itself; one kind per run keeps the state space within minutes.
* `Outbox`: 2 instances, 2 events (of one booking or of two, or of none), 2
  attempts, 1 crash: enough for claim races, a stale batch, a crash while
  another instance drains, and retry exhaustion. `BatchSize` 2 is no smaller than
  the number of events, so starvation by a full batch is not exercised.
* `Dispatch`: radii 1, 2, 3, one technician reachable in the first round and one only
  in the last, so a search passes an empty round and the cap of the
  radius. `MaxMishaps` 1 bounds lock expiries and failed calls together;
  `MayStall` lets a call lose its lock while it runs.
* `BookingWork`: two requests, two lines (a substitution needs a second row),
  one item; `MaxEdits` 3 bounds requests that write a line: create, approve
  and a stale edit, or create, substitute and approve. `Kinds` of prices are a
  plain one and one so far above its reference that review and a reason are
  due; the off-catalogue kind, which only forbids declining it and approving it
  without an invoice, is covered by the proofs. Worker symmetry and line
  symmetry are sound as the run has no liveness property.
* `Settlement`: totals 0 (credit and promo took everything), 1 and 3 around a
  callout fee of 2, so that the fee is above the hold, below it, and there is
  no hold at all; 2 attempts make one retry and one dead letter, 1 crash a
  second redelivery. `late` holds as many runaway calls as attempts allow.
* `Payout`: two payouts, of which a deduction has to pick one, and one request;
  `Net` 2, so that a deduction leaves something; `Deltas` 0, a request that owes
  nothing, and 1 (a configuration cannot hold a negative number; the proofs
  cover them); `MaxFaults` 1.
* `Intake`: two keys and two customers, the code in any set of keys; caps of
  1; a credit (2) below the price (3) and equal to the discounted one, so that
  two bookings of one customer compete for it; one fault of any kind.
* `Quote`: two lines, one off-catalogue; line totals 1 and 2, a firm price and
  a threshold of 3, so that one line stays below it and two may reach it; a
  reduction of 1, which may leave nothing to pay.

`CHECK_DEADLOCK FALSE` is stated everywhere, as each of these systems may really stop:
a booking whose money has settled, a resolved checkout, an outbox that is
drained, a cancelled job, an accepted quote.

### Fairness

* `Payment`, `BookingWork`, `Intake` and `Quote` have none: all their
  properties are safety.
* `Outbox`: weak fairness of each instance's drain (the poll timer of
  `OutboxWorker.start` always re-arms, and each handler is cut off by its
  timeout) and strong fairness of `ReapStale`, which runs at the start of each
  tick and so is enabled again and again rather than continuously.
* `HostedCheckout`: weak fairness of `ExpireUnpaid`, the interval in `main.ts`
  (lines 84-95). Nothing is assumed of customers, webhooks or the return page.
* `Dispatch`: weak fairness of a running call's next step (calls return or
  throw), of the sweep (`main.ts` lines 97-105), of lock expiry (Redis TTL) and
  of the round's deadline (time). Nothing is assumed of technicians.
* `Settlement`: weak fairness of each event's delivery and of its handling,
  which is what `EventuallySettled` shows of the outbox, and of the dispatch
  sweep. Nothing makes a delivery succeed, a technician accept or a runaway call land.
* `Payout`: weak fairness of a running call's next step; strong fairness of the
  reconciler (`main.ts` 71-79) and of the settlement of expired requests
  (`main.ts` 133-146), each of which needs a free worker, and workers come free
  again and again rather than continuously. `ReadPayout` has none: nobody has to pay.

## 4. Proofs

Each theorem below is `Spec => []...` (or `[][...]_vars`, or both: `DuesConserved`) for every value of the
constants that satisfies the module's named assumption, and for those so marked
the condition given with them; TLC evaluates each assumption in a run.
`TypeOK` (`QuoteTypes` for `Quote`) is proved for every module and is in no run: that sums are naturals is not vacuous, it says that no refund, fee,
deduction or wallet is ever negative where the code assumes so.

| Module | Theorems | Property |
|---|---|---|
| `PaymentProofs` | `LedgerAgrees`, `ChargebackHoldsPayout`, `DisputedIsOpen` | `LedgerInv`, `ChargebackClawsBack`, `DisputedHasOpenDispute` |
| | `AccountImplemented`, `RefundsBounded` (if operators do not both capture and refund, nor capture at a hosted PSP) | `AccountSpec`, `RefundWithinCapture` |
| | `NeverOvercharged`, `BookedIsCharged`, `ReleasedIsNotCharged` (instant mode) | `ChargedOnce`, `BooksMatchPsp`, `VoidedNotCharged` |
| `HostedCheckoutProofs` | `PromotesOnce`, `AuthorisedRowsAreHeld` | `PromotedOnce`, `HoldBehindRow` |
| `OutboxProofs` | `AtLeastOnce`, `ClaimIsExclusive`, `RetriesWait`, `ImplementsDelivery` | `DoneMeansRan`, `OneOwner`, `RetryOnLaterTick`, `DeliverySpec` |
| `DispatchProofs` | `AcceptHasOneWinner`, `ExhaustIsNoOpWhenTaken` | `OneWinner`, `ExhaustSparesAccepted` |
| `BookingWorkProofs` | `OutcomeIsOne`, `CompletionIsEarned`, `InvoicesAreComplete`, `CompletionIsFinal`, `HoldIsWithinBill` | `OneOutcome`, `CompletedJobWasDone`, `CompletedIsInvoiced`, `CompletedStands`, `HoldWithinBill` |
| `SettlementProofs` | `CompletedJobsArePaid`, `CancelledBookingsAreReleased` | `CompletedIsPaid`, `CancelledIsReleased` |
| | `ChargeIsWithinBill`, `AccountRespected`, `DeliveryRespected` | in no run: see below |
| `PayoutProofs` | `PaysOnce`, `SettlesAsSent`, `DuesAreConserved` | `PaidOnce`, `SettledAsSent`, `DuesConserved` |
| `IntakeProofs` | `WalletIsCovered`, `CapsAreKept`, `ReferrerIsCreditedOnce`, `KeysDeduplicate` | `WalletNeverNegative`, `PromoWithinCaps`, `ReferralSettled`, `OneBookingPerKey` |
| | `LargeQuotesAreReviewed`, `SerialQuoteKeepsPromise`, about `Quote` | `ReviewGate`, `SerialQuote` |

None of these properties is inductive, for the same reason everywhere: a job
writes what it read earlier, so the invariant must say of each job, by the point
it has reached, what is still true of what it remembers. That conjunct is
called `JobOK` in most modules (`CallOK`, `OwnOK`, `AcceptorKnown` in the others); the rest of each invariant
is about the tables.

*Payment.* `StateInv` has three parts: `RowInv` (tables), `PspInv` (the
provider), `WorkInv` (each job, `JobOK`, together with `ChargeInv` and `HeldInv`:
charges the row is still to learn of are positive, and a held row has something
to hold). `JobStarts`, `JobGoesOn` and `JobEnds` handle the three things a step
may do to a job, and the `...Untouched` lemmas what a step leaves alone;
`StateStep` then has one step per action. The ledger is proved on the quotient:
`MoneyMoves` shows that any step of `Next` changes the account variables in one
of a few ways (`Money`: nothing, a hold, a widening, a capture, a release, a
repayment, a dispute or its end, a payout), and `LedgerStep` proves `LedgerInv`
inductive for these. `SplitCommission` is the arithmetic: `Fee(x) + Net(x) = x`,
both natural. The dispute theorem is inductive on the open rows alone: opening
adds one, closing leaves DISPUTED only when none remains.

`BooksInv` is the invariant that relates the books to the PSP. `KnownInv` says of
each job what stays true of the row and the charges between its read and its
write; `Grown` is why it stays so: no step takes back an event, a key, a charge
or a captured sum, or makes a released hold live again. `SumInv` bounds the
charges by the row, the captured sum by the charges (it is one of `Sums`) and the
refunds by the capture. The service charges once because its key answers every
other handler. Operators have no key; `TakenInv` says what they can have done: a
hold they took is captured, so the service can neither capture nor void it, and
if the service charged too, it charged the other one. That is `ChargedOnBoth`,
and it is the only way to a second charge: with one hold, renewed or not, the PSP
itself refuses the second capture. `HoldInv` is about released holds: once the
void's key is known, an operator can only have taken a hold of a payment whose
hold was renewed. `LifeInv` excludes a booking that is completed and
cancelled before its money is in. `Writers` lists the few actions that write each
variable, so that the step lemmas (`SumStep`, `HoldStep`, `KnownStep`, ...) have
only those to consider. `AccountStep` then maps each step to one of
`PaymentAccount`: the bounds that `Refund` and `Release` put on their sums are
`SumInv` and `KnownInv`.

The two conditions cannot be dropped. `HostedCapturesAreOurs`: when a no-show
follows an operator's capture of the whole amount at a hosted
gateway, `CaptureStatus` finds the charge and `ReconcileDb` books the callout fee
for it, not what was charged, and a refund made at the PSP may then exceed what
is booked. `OneKindOfOperator`: of two charges the row books one, and a refund of
the other is matched to it by booking. The instant-mode theorems need neither;
for a hosted gateway `payment_double_charge` refutes `ChargedOnce`.

*Hosted checkout.* `SessionOK` ties the row, the session and the hold of each
session together: the hold of an authorised session is voided only when
the booking no longer awaits payment, and then the row is not promoted to it.

*Outbox.* `RowOK` relates the columns of a row, `OwnOK` an instance's claims to
the rows it runs, `TickOK` says how far its tick has got: a tick that holds an
event has fetched the first event of that booking too, unless that was tried
before, and takes it up first. The last is what `ImplementsDelivery` needs; every
other step maps to a step of `Delivery` or to a stutter.

*Dispatch.* `WinnerInv` and `AcceptorKnown`: an accept commits only with the
booking still PENDING and its offer still OFFERED. Neither Redis lock is used in the
proof; both may be lost at any time, the transaction's guards alone suffice.

*BookingWork.* `JobOK` says of each job what must still hold of its reads when it
commits: a change of status is decided in a booking that is not
completed and, but for a cancellation, has no outcome; a completion was decided
with the closing checklist and all invoices of locked lines. It stays true
because only versioned commits could disturb it and those end every such job
(`BumpStep`); everything else either only grows (checklists, history, invoices
of locked lines) or cannot lock a line (`LineWritten`). `OneWriter` is the row
lock. `QuietStep`, `BeginStep` and `EndStep` are the three shapes a step may have.
The dispute webhook does not bump the version; the proof shows that it does no
harm to these properties all the same.

`HoldWithinBill` has an invariant of its own, `BillInv`, next to these. It adds
that the approved items are finitely many, which holds whatever the set of items
is, because a request approves one: without it `Cardinality(Approved)` says
nothing, with it no bound on the items is assumed. `LockDb` can only raise the
total and a proposal can only take an item off the approved ones (`BillKept`);
`RespondDb` adds one item to them, its price to the total and at most that to the
hold (`BillWidened`). `PriceGrows` and `PriceOfOneMore` are the products involved.

*Settlement.* `AccountOK` says which sums go with which payment status,
`MoneyOK` and `BookingOK` relate payment and booking, `JobOK` says what a
delivery, running or late, may rely on, and `EventOK` what is true once an event
is DONE. `AccountMove` sums up what an action of the account can do, so that the
steps of the other parts do not open it. The crux is that a late job keeps what it relies on: a
hold is never placed twice, a void that finds a capture refuses, and only a
dispute brings a completed booking back to where it can be cancelled.

`ChargeIsWithinBill` bounds what the customer pays by the booking's total. Its
`BillInv` says of every job that the sum it carries is still covered when it
lands (`SumOK`): the total never changes, and a hold that exists is never resized
(additional work, which would widen it, is left to `Payment`). `AccountRespected`
and `DeliveryRespected` close the argument of the composition: `Settlement` moves
the account only by transitions of `PaymentAccount`, and the events only by those
of `Delivery`, which `Payment` and `Outbox` are proved to implement. The first is
a refinement, initial state included; the second is one of steps, since
`Settlement` starts after the first event was emitted.

*Payout.* `RowOK` relates a payout's status, its transfers and its ledger
entries; `OneDisburser` says that at most one call is about to disburse a
payout; `DueInv` that amount plus deductions is the net amount, and that nothing
is deducted from a payout that does not exist yet. The deductions of a payout are
a sum over the requests: that there is one, that it is 0 where nothing was
deducted and that one more deduction adds its variance (`SumExists`,
`SumOfNothing`, `SumOfOneMore`) is proved first. No sign of the variance is
assumed; the job that is about to post one knows that it is positive. The
provider's de-duplication is not used.

*Intake.* `Exclusive` states the two row locks and the advisory lock, `JobOK`
what a transaction knows while it holds them, `KeyInv` that a key has at most
one of a placeholder's owner, a stored answer and a booking to come, unless it
is `broken`. The Redis promo lock is not used: the caps hold by the row lock.

*Quote.* These theorems are the last part of `IntakeProofs`, since an accepted
quote becomes a booking by the call that `Intake` models; `IntakeProofs` extends
both modules, so they share no names. For overlapping calls `GateInv`
is all that is left: a send that has read a total at the threshold has seen the
review, and a review is never taken back. For calls one at a time `SerialInv`
says that at most one call is under way (`AloneInv`), what it has read is still
so (`CallOK`), and what it is about to restore: the total between the write of a
line and that of the sum (`TotalInv`), the link between the booking's creation
and its own (`BookedInv`: one booking, with the accepted price as its list price
and a total of at most that, whatever was taken off). `SerialStart` and `SerialWrite` handle the two things
a step may do to a call, so that `SerialKept` has only the quote's columns to
consider, once per action.

`Sum` is a fold, and the theorems need that it is 0 for a quote with no lines and
a natural for any other. This is induction over the number of lines, which
no library theorem gives without an operator as a parameter; `LeastNumber`
gives it as a fact about sets of numbers instead (well-foundedness of `<`), and
`SumExists` and `SumInduction` are proved by the least counterexample.

*Model-checked only.* Liveness (`UnpaidResolved`, `EventuallySettled`,
`DispatchEnds`, `DispatchStarts`, `NothingKeptHeld`, `StuckResolved`,
`ExpiredSettled`) is out of the prover's reach. Every other property of a passing
run has its theorem, five of them with a condition: `RefundWithinCapture` and
`AccountSpec` under the two conditions above, and the three of the
instant mode.

## 5. Where code and comments disagree

Two are the subject of a run that expects the violation, with the line quoted in
`PROJECT.json`:

1. `payment_double_charge`: the port's comment promises that a retried call is
   never double-charged because the key is forwarded; the hosted adapter has no
   key to forward.
2. `quote_twice`: `BookingQuoteService.ts:281-283` says a quote cannot be
   accepted twice; its status is read before the booking is created and written
   without a condition.

Seen while modelling, without a run of their own. What the models show of
them, they show as an exception that a property names or as a weaker property.

*Payment and checkout*

* A hold past expiry is renewed by `preAuthorizedAt` alone
  (`PaymentService.captureRefund.ts:57-61`, 70-82), without a look at the PSP. If
  an operator has captured the old hold, which the alert "Pre-authorizations past
  expiry without capture - funds at risk" (`main.ts:191`) asks for, and its
  webhook is late or lost, the service captures the new hold too: the customer
  pays twice and the row books one. The reverse, an operator who captures an old
  hold that the row no longer points at, ends the same way, or leaves a charge
  behind a row that is REFUNDED. These are the exceptions of `ChargedOnce`,
  `BooksMatchPsp` (`ChargedOnBoth`) and `VoidedNotCharged`.
* A full refund recorded by the webhook first (`PaymentService.webhook.ts:132`)
  makes the refund handler skip its transaction
  (`PaymentService.captureRefund.ts:249`), which held the clawback of the payout.
* `PaymentService.authorization.ts:125-126` says "never touch a row that has
  already moved past PENDING"; the upsert (:138) has no such condition, and the
  status was read before the PSP call: a second session can reset an authorised row.
* `HyperPayProvider.ts:212` never produces a dispute-closed event, so a disputed
  hosted payment is never won or lost. The model lets any PSP close a
  dispute, since the service handles it.
* `HyperPayProvider.ts:207` reports the amount of a single refund where the webhook
  (`PaymentService.webhook.ts:124-128`) expects the running total. The model's
  `reported` holds what each adapter reports: the single amount with `Hosted`,
  the running total without. After two equal dashboard refunds the second
  event is dropped.

*Outbox and settlement*

* A failed event stops its group in this batch only
  (`OutboxWorker.ts:220-222`): in the next batch of the tick, after a dead
  letter, or while another instance holds it, later events of the booking run.
  `Delivery` promises no more than the code keeps.
* With two instances a cancellation can be handled while booking.created is
  still PROCESSING: the hold is placed on the cancelled booking and kept. Hence
  `dispatched` in `CancelledIsReleased`.
* The cancellation of a disputed payment is passed over; if the dispute is won
  later, the payment stays captured. Hence its second exception.
* An instant booking whose total is zero gets no hold and no dispatch, so it stays PENDING
  for ever (`DispatchStarts`), and a callout fee above the hold is refused, with the hold
  kept (`NothingKeptHeld`).

*Dispatch*

* The lock serialises two advances, and the second does not look again at the
  deadline (`DispatchService.ts:213`): a stale sweep advances a round that just
  began.

*Booking and materials*

* `BookingService.lifecycle.ts:185-186` says material lines "become immutable the
  instant work starts". A line is edited, reviewed or substituted by id from an
  earlier read, so such a request may still change a locked line.
* `lockBookingMaterials` (`BookingMaterialService.ts:452-461`) adds up one set of
  lines and locks another: a line that is approved in between is locked and
  not charged. A line created after the approval gate has been passed is
  charged without the customer's approval.
* The total is raised when materials are locked (`BookingMaterialService.ts:471`),
  the authorised amount is not, and only the authorised amount is captured.
* A line may be locked before its invoice was uploaded, `uploadInvoice` refuses
  locked lines, and `complete` then demands the invoice: such a job can never be
  completed.
* Two concurrent approvals of one item of additional work both pass the status
  check and add its amount twice.

*Payouts*

* `AdminService.payout.ts:75-77` takes every error of the provider for a
  rejection in which "no money moved". A timeout after the transfer leaves the
  payout FAILED, and the reconciler looks at PROCESSING rows only.
* The amount is read before the claim: a deduction in between is booked, and
  not in the sum that is disbursed. These two are the exceptions of `SettledAsSent`.
* `MaterialVerificationService.ts:124-125` says of the settlement "it never
  marks DEDUCTED without money actually moving", and `materialLedger.ts:64-65` much
  the same. But a variance that is not above zero is reported as applied
  (`materialLedger.ts:75`), so the request becomes DEDUCTED and the technician is
  notified, with no payout touched and no entry. `declineByCustomer`
  (`BookingMaterialService.ts:260-277`) asks only for a variance reason and a
  reference price, so such a request can be opened. Hence `delta[r] > 0` in the
  last part of `DuesBooked`.
* UPHELD and INVOICE_PROVIDED are written by id from an earlier read, so they may
  overwrite DEDUCTED; the deduction itself stays single (`DuesConserved`).
* `TechnicianService.ts:377-380` says the unique index on withdrawals in flight
  "closes the balance/cooldown TOCTOU race". It does as long as the first request
  stays in flight: once an admin has paid or rejected it, a second request that
  read the same balance is inserted. `processWithdrawal`
  (`AdminOpsService.ts:357`) reads the status and writes by id, so PAID may become
  REJECTED, which puts the money back into the balance; and the balance counts
  FAILED payouts.

*Intake and quotes*

* A commit whose answer is lost is answered by a 5xx, which frees the key; a key
  found taken and gone at the GET runs without a placeholder; the placeholder lives for 30 s
  whatever the request does. These are the keys `broken` excepts.
* `ServiceCreditService.grant` swallows a unique violation inside the caller's
  Postgres transaction, which the violation has already aborted.
* `BookingQuoteService.ts:280` says accepting creates a booking "at exactly
  `quotedJod`". `createBooking` takes the subscription's discount
  (`BookingService.create.ts:79-87`) and wallet credit (:159-162) off that price,
  so the booking's total may be less, while its labour, materials and fees still
  add up to the quote. `BookedAtQuote` says what is kept: that list price, and no
  more than it charged.
* Credit spent on a booking is not given back when it is cancelled.
* A sent or accepted quote is changed by calls that were under way: a late
  `addLine` or total, an off-catalogue line added during the send, a `setQuote`
  that sets an ACCEPTED quote back to QUOTED.

*Not modelled*

* The biller (`SubscriptionService.ts:133`) charges from a list read earlier,
  so a second instance bills a period twice and a cancel in between is not seen.
* Two reviews of one guarantee ticket (`GuaranteeService.ts:131`) both pass a
  check made outside the transaction and create a free booking each.

## 6. Abstractions

* `Payment`: a dispute webhook's amount is the outstanding amount; a figure supplied by
  the PSP is ignored. Reading and writing the row is one step.
  `payments.providerRef` is followed up to the capture, not after it; webhooks
  are matched by bookingId. `Complete` reads the payment's status and commits in one step;
  `BookingWork` has the two steps. `booking` collapses CONFIRMED to IN_PROGRESS
  into "ASSIGNED"; payment status "NONE" also stands for the hosted PENDING row,
  which `HostedCheckout` models. `MockPaymentProvider` does not itself
  deduplicate keys; instant mode follows the port's contract. An operator captures
  a hold whole. Refunds made at the PSP of a charge the row does not record carry
  any figure up to it; what is returned of it is not followed.
* `BookingWork` leaves out late compensation and the referral grant of `complete`
  (both in `Intake`), who is allowed to ask for what, the verification requests that declining a
  price opens (in `Payout`), and the note that the customer supplies a material. A settled
  review may be of any line under review, which stands for the age of lines. All
  lines cost the same, and so do all items. Its locked sum is read in one step
  with the version check: nothing else can write the row in between.
* `Outbox` leaves out the cap on batches per tick and the graceful stop. Handler
  timeouts are shorter than the stale limit, so only crashed rows go stale.
* `Dispatch` leaves out rejection streaks, broadcasts, the order of tiers and
  the probation radius. Excluding technicians already offered changes nothing
  next to `skipDuplicates`. A reschedule only bumps the version, which `GiveUp`
  covers.
* `Settlement` is instant mode; events that only notify are left out, as are
  additional work, refunds by an admin and overlapping disputes. The PSP call
  and the guarded write of a job are one step, which `Payment` splits; a handler's
  read and its effect are two.
* `Payout`: the payouts of one technician; invoices and documents of a request
  are its status alone; the batch is its single calls. A clawback and a
  deactivation of the technician may happen at any time.
* `Intake`: quotes, surcharges and subscriptions only change the price, and the
  booking row is its key, total and status. Attribution at signup is the initial
  state, so a referred customer has one referrer. The placeholder's TTL expires
  at any time, as a fault.
* `Quote`: a line is its total; pricing against the catalogue's band gives any
  of `Prices`. Creating the booking is one step, which `Intake` details; a promo
  code and the emergency surcharge, which `accept` never passes on, are left out.

### Not modelled

* *Subscriptions, guarantee review, withdrawals*: each reads, decides and writes
  by id. What they promise beyond a constraint of one table (one withdrawal in
  flight) the code does not keep, as section 5 says, and a model could show no more than that.
* *Admin operations, catalogue, suppliers, technician profiles, trust
  recomputation*: operations on a single row, or a nightly batch over counters.
* *Authentication*: its promises are about secrecy and forgery.
* *Reviews, support, notifications, uploads, the socket server, HTTP routes*:
  validation, transport and side effects that no state here depends on.
* *Web, admin and mobile interfaces and the design exports under `docs`*:
  clients and drawings. They are more than half of the repository's lines; the
  backend with its tests' subjects is about 14.5 thousand of 39 thousand, so that
  the map covers a small share of the repository and a larger one of the code
  that keeps state.
* Distance, pricing and formatting arithmetic.

## 7. What is left

1. A run for stale edits of locked lines and for the clawback that a refund
   webhook makes the handler skip, once their code is settled.
2. Subscriptions, guarantee tickets and withdrawals, should their writes become
   guarded.
