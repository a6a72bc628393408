------------------------------- MODULE Payout -------------------------------
(***************************************************************************)
(* What becomes of a technician's payouts after capture: an admin's        *)
(* disbursement (claim, transfer, finalize), the reconciler of rows left   *)
(* PROCESSING, and the material-price verification requests whose variance *)
(* is deducted from a payout that is still PENDING.                        *)
(*                                                                         *)
(* The reads, provider calls and transactions of a call are separate       *)
(* steps; `work' holds what a call remembers in between, and any call may  *)
(* end between two steps (GiveUp).  The payout provider is external: it    *)
(* moves the money or rejects the call, and its answer may be lost.  It is *)
(* not assumed to de-duplicate by payoutId, though its contract says so.   *)
(***************************************************************************)
EXTENDS Integers, Sequences, FiniteSets, Functions

CONSTANTS
  Workers,   \* concurrent admin calls and timer cycles
  Payouts,   \* payouts of the technician, numbered by createdAt
  Requests,  \* material verification requests
  Net,       \* payouts.amountJod at capture
  Deltas,    \* values of deltaFils: the price over the reference, or not over it
  MaxFaults  \* bound on lost answers and on calls that end half-way

ASSUME PayoutAssumption ==
  /\ Payouts \subseteq Nat \ {0} /\ 0 \notin Requests
  /\ IsFiniteSet(Requests)
  /\ Net \in Nat /\ Deltas \subseteq Int /\ MaxFaults \in Nat

VARIABLES
  status,    \* payouts.status, "NONE" before the capture
  amount,    \* payouts.amountJod
  entries,   \* the PAYOUT ledger entries of each payout
  active,    \* the technician's user.isActive
  delta,     \* materialVerificationRequest.deltaFils, set when the line was declined
  request,   \* materialVerificationRequest.status
  adjusted,  \* the payout an ADJUSTMENT entry of a request is on, 0 for none
  sent,      \* provider: the transfers it made for each payout
  rejected,  \* provider: the payouts it refused
  work,
  stale,     \* history: payouts claimed with an amount that had changed
  lost,      \* history: payouts whose transfer was answered by an error
  faults

payoutVars == <<status, amount, entries, active>>
requestVars == <<delta, request, adjusted>>
providerVars == <<sent, rejected>>
history == <<stale, lost, faults>>
vars == <<payoutVars, requestVars, providerVars, work, history>>

Resolved == {"UPHELD", "DEDUCTED", "WITHDRAWN"}
RequestStatus == {"OPEN", "INVOICE_PROVIDED"} \cup Resolved
Idle == [at |-> "idle", payout |-> 0, request |-> 0, amt |-> 0]

Init ==
  /\ status = [p \in Payouts |-> "NONE"]
  /\ amount = [p \in Payouts |-> 0]
  /\ entries = [p \in Payouts |-> <<>>]
  /\ active = TRUE
  /\ delta \in [Requests -> Deltas]
  /\ request = [r \in Requests |-> "OPEN"]
  /\ adjusted = [r \in Requests |-> 0]
  /\ sent = [p \in Payouts |-> <<>>]
  /\ rejected = {}
  /\ work = [w \in Workers |-> Idle]
  /\ stale = {} /\ lost = {} /\ faults = 0

At(w, point) == work[w].at = point
Start(w, job) == At(w, "idle") /\ work' = [work EXCEPT ![w] = job]
Goto(w, point) == work' = [work EXCEPT ![w].at = point]
Finish(w) == work' = [work EXCEPT ![w] = Idle]

-----------------------------------------------------------------------------
\* The capture of the payout's payment.
Accrue(p) ==
  /\ status[p] = "NONE"
  /\ \A q \in Payouts : q < p => status[q] # "NONE"
  /\ status' = [status EXCEPT ![p] = "PENDING"]
  /\ amount' = [amount EXCEPT ![p] = Net]
  /\ UNCHANGED <<entries, active, requestVars, providerVars, work, history>>

\* A complete refund or a chargeback of it.
ClawBack(p) ==
  /\ status[p] = "PENDING"
  /\ status' = [status EXCEPT ![p] = "FAILED"]
  /\ UNCHANGED <<amount, entries, active, requestVars, providerVars, work, history>>

\* The technician deletes their account.
Deactivate ==
  /\ active
  /\ active' = FALSE
  /\ UNCHANGED <<status, amount, entries, requestVars, providerVars, work, history>>

-----------------------------------------------------------------------------
(* processPayout *)

\* The amount to be sent is the one read here, before the claim.
ReadPayout(w, p) ==
  /\ status[p] \notin {"NONE", "COMPLETED"}
  /\ active
  /\ Start(w, [Idle EXCEPT !.at = "claim", !.payout = p, !.amt = amount[p]])
  /\ UNCHANGED <<payoutVars, requestVars, providerVars, history>>

ClaimUnguarded(w) ==
  LET p == work[w].payout IN
  /\ At(w, "claim")
  /\ status' = [status EXCEPT ![p] = "PROCESSING"]
  /\ stale' = IF work[w].amt = amount[p] THEN stale ELSE stale \cup {p}
  /\ Goto(w, "disburse")
  /\ UNCHANGED <<amount, entries, active, requestVars, providerVars, lost, faults>>

Claim(w) ==
  LET p == work[w].payout IN
  /\ At(w, "claim")
  /\ status[p] = "PENDING"
  /\ status' = [status EXCEPT ![p] = "PROCESSING"]
  /\ stale' = IF work[w].amt = amount[p] THEN stale ELSE stale \cup {p}
  /\ Goto(w, "disburse")
  /\ UNCHANGED <<amount, entries, active, requestVars, providerVars, lost, faults>>

ClaimLost(w) ==
  /\ At(w, "claim")
  /\ status[work[w].payout] # "PENDING"
  /\ Finish(w)
  /\ UNCHANGED <<payoutVars, requestVars, providerVars, history>>

Transfer(p, sum) == sent' = [sent EXCEPT ![p] = Append(@, sum)]

Disbursed(w) ==
  /\ At(w, "disburse")
  /\ Transfer(work[w].payout, work[w].amt)
  /\ Goto(w, "finalize")
  /\ UNCHANGED <<payoutVars, requestVars, rejected, history>>

\* Every error of the call is taken for a rejection.
DisburseRejected(w) ==
  /\ At(w, "disburse")
  /\ rejected' = rejected \cup {work[w].payout}
  /\ Goto(w, "fail")
  /\ UNCHANGED <<payoutVars, requestVars, sent, history>>

DisburseAnswerLost(w) ==
  /\ At(w, "disburse")
  /\ faults < MaxFaults
  /\ faults' = faults + 1
  /\ Transfer(work[w].payout, work[w].amt)
  /\ lost' = lost \cup {work[w].payout}
  /\ Goto(w, "fail")
  /\ UNCHANGED <<payoutVars, requestVars, rejected, stale>>

\* The transition guard of finalizePayout and of the two updates to FAILED.
Resolve(w, final) ==
  LET p == work[w].payout IN
  /\ status' = [status EXCEPT ![p] = IF @ = "PROCESSING" THEN final ELSE @]
  /\ Finish(w)
  /\ UNCHANGED <<amount, active, requestVars, providerVars, history>>

Finalize(w) ==
  LET p == work[w].payout IN
  /\ At(w, "finalize")
  /\ Resolve(w, "COMPLETED")
  /\ entries' = [entries EXCEPT ![p] =
                   IF status[p] = "PROCESSING" THEN Append(@, work[w].amt) ELSE @]

Fail(w) ==
  /\ At(w, "fail")
  /\ Resolve(w, "FAILED")
  /\ UNCHANGED entries

-----------------------------------------------------------------------------
(* reconcileStuckPayouts, one row: the provider's answer decides.  A transfer
   that is pending, or unknown to the provider, leaves the row to a later cycle. *)

ReconcileSent(w, p) ==
  /\ status[p] = "PROCESSING"
  /\ sent[p] # <<>>
  /\ Start(w, [Idle EXCEPT !.at = "finalize", !.payout = p, !.amt = amount[p]])
  /\ UNCHANGED <<payoutVars, requestVars, providerVars, history>>

ReconcileUnknownAsFailed(w, p) ==
  /\ status[p] = "PROCESSING"
  /\ sent[p] = <<>>
  /\ Start(w, [Idle EXCEPT !.at = "fail", !.payout = p])
  /\ UNCHANGED <<payoutVars, requestVars, providerVars, history>>

ReconcileNoRejection(w, p) == FALSE /\ Finish(w) /\ UNCHANGED <<payoutVars, requestVars, providerVars, history>>

ReconcileRejected(w, p) ==
  /\ status[p] = "PROCESSING"
  /\ sent[p] = <<>> /\ p \in rejected
  /\ Start(w, [Idle EXCEPT !.at = "fail", !.payout = p])
  /\ UNCHANGED <<payoutVars, requestVars, providerVars, history>>

-----------------------------------------------------------------------------
(* MaterialVerificationService *)

\* uploadInvoice and adminResolve(UPHELD, WITHDRAWN) write by id what they
\* decided from the status read first.
ReadRequest(w, r) ==
  /\ \/ request[r] = "OPEN" /\ Start(w, [Idle EXCEPT !.at = "INVOICE_PROVIDED", !.request = r])
     \/ /\ request[r] \notin Resolved
        /\ \E to \in {"UPHELD", "WITHDRAWN", "deduct"} : Start(w, [Idle EXCEPT !.at = to, !.request = r])
  /\ UNCHANGED <<payoutVars, requestVars, providerVars, history>>

WriteRequest(w) ==
  /\ work[w].at \in {"INVOICE_PROVIDED", "UPHELD", "WITHDRAWN"}
  /\ request' = [request EXCEPT ![work[w].request] = work[w].at]
  /\ Finish(w)
  /\ UNCHANGED <<payoutVars, delta, adjusted, providerVars, history>>

SettleAnswered(w, r) ==
  /\ request[r] = "INVOICE_PROVIDED"
  /\ Start(w, [Idle EXCEPT !.at = "deduct", !.request = r])
  /\ UNCHANGED <<payoutVars, requestVars, providerVars, history>>

\* settleExpiredVerifications: the deadline passed and the request is still OPEN.
SettleExpired(w, r) ==
  /\ request[r] = "OPEN"
  /\ Start(w, [Idle EXCEPT !.at = "deduct", !.request = r])
  /\ UNCHANGED <<payoutVars, requestVars, providerVars, history>>

Covers(p, r) == status[p] = "PENDING" /\ amount[p] >= delta[r]

\* postVarianceDeduction: nothing owed is applied at once, without a payout or a
\* ledger entry, and the request DEDUCTED like any other.
NothingOwed(w) ==
  /\ At(w, "deduct")
  /\ delta[work[w].request] <= 0
  /\ request' = [request EXCEPT ![work[w].request] = "DEDUCTED"]
  /\ Finish(w)
  /\ UNCHANGED <<payoutVars, delta, adjusted, providerVars, history>>

\* The oldest pending payout that covers the delta.
FindCandidate(w) ==
  LET r == work[w].request IN
  /\ At(w, "deduct")
  /\ delta[r] > 0
  /\ \/ (\A p \in Payouts : ~Covers(p, r)) /\ Finish(w)
     \/ \E p \in Payouts :
          /\ Covers(p, r) /\ \A q \in Payouts : q < p => ~Covers(q, r)
          /\ work' = [work EXCEPT ![w].at = "post", ![w].payout = p]
  /\ UNCHANGED <<payoutVars, requestVars, providerVars, history>>

PostToClaimed(w) ==
  LET p == work[w].payout r == work[w].request IN
  /\ At(w, "post")
  /\ amount[p] >= delta[r] /\ adjusted[r] = 0
  /\ amount' = [amount EXCEPT ![p] = @ - delta[r]]
  /\ adjusted' = [adjusted EXCEPT ![r] = p]
  /\ request' = [request EXCEPT ![r] = "DEDUCTED"]
  /\ Finish(w)
  /\ UNCHANGED <<status, entries, active, delta, providerVars, history>>

\* Decrement under the guard, ADJUSTMENT entry under the unique refKey and the
\* request's status, in one transaction.
PostDeduction(w) ==
  LET p == work[w].payout r == work[w].request IN
  /\ At(w, "post")
  /\ Covers(p, r) /\ adjusted[r] = 0
  /\ amount' = [amount EXCEPT ![p] = @ - delta[r]]
  /\ adjusted' = [adjusted EXCEPT ![r] = p]
  /\ request' = [request EXCEPT ![r] = "DEDUCTED"]
  /\ Finish(w)
  /\ UNCHANGED <<status, entries, active, delta, providerVars, history>>

\* The payout was raced, or the refKey exists and the transaction is rolled back.
PostRefused(w) ==
  LET r == work[w].request IN
  /\ At(w, "post")
  /\ ~Covers(work[w].payout, r) \/ adjusted[r] # 0
  /\ Finish(w)
  /\ UNCHANGED <<payoutVars, requestVars, providerVars, history>>

-----------------------------------------------------------------------------
GiveUp(w) ==
  /\ ~At(w, "idle")
  /\ faults < MaxFaults
  /\ faults' = faults + 1
  /\ Finish(w)
  /\ UNCHANGED <<payoutVars, requestVars, providerVars, stale, lost>>

Disburse(w) == Disbursed(w) \/ DisburseRejected(w) \/ DisburseAnswerLost(w)
Deduct(w) == NothingOwed(w) \/ FindCandidate(w) \/ PostDeduction(w) \/ PostRefused(w)
Proceed(w) ==
  \/ Claim(w) \/ ClaimLost(w) \/ Disburse(w) \/ Finalize(w) \/ Fail(w)
  \/ WriteRequest(w) \/ Deduct(w)

Reconcile(p) == \E w \in Workers : ReconcileSent(w, p) \/ ReconcileRejected(w, p)
Settle(r) == \E w \in Workers : SettleExpired(w, r)

Next ==
  \/ Deactivate
  \/ \E p \in Payouts : Accrue(p) \/ ClawBack(p) \/ Reconcile(p) \/ \E w \in Workers : ReadPayout(w, p)
  \/ \E r \in Requests : Settle(r) \/ \E w \in Workers : ReadRequest(w, r)
  \/ \E w \in Workers : Proceed(w) \/ GiveUp(w)

\* A call goes on by itself; the two timers come round however busy the admins are.
Fairness ==
  /\ \A w \in Workers : WF_vars(Proceed(w))
  /\ \A p \in Payouts : SF_vars(Reconcile(p))
  /\ \A r \in Requests : SF_vars(Settle(r))

Spec == Init /\ [][Next]_vars /\ Fairness

-----------------------------------------------------------------------------
Point == {"idle", "claim", "disburse", "finalize", "fail", "deduct", "post",
          "INVOICE_PROVIDED", "UPHELD", "WITHDRAWN"}

\* Every variable keeps its type.
TypeOK ==
  /\ status \in [Payouts -> {"NONE", "PENDING", "PROCESSING", "COMPLETED", "FAILED"}]
  /\ amount \in [Payouts -> Nat]
  /\ entries \in [Payouts -> Seq(Nat)]
  /\ active \in BOOLEAN
  /\ delta \in [Requests -> Int]
  /\ request \in [Requests -> RequestStatus]
  /\ adjusted \in [Requests -> Payouts \cup {0}]
  /\ sent \in [Payouts -> Seq(Nat)]
  /\ rejected \subseteq Payouts
  /\ work \in [Workers -> [at : Point, payout : Payouts \cup {0}, request : Requests \cup {0}, amt : Nat]]
  /\ stale \subseteq Payouts /\ lost \subseteq Payouts
  /\ faults \in Nat

\* However many admins, retries and reconciler cycles meet on a payout, money
\* leaves once and is booked once: the claim alone ensures it, without the
\* provider's de-duplication.
PaidOnce ==
  \A p \in Payouts :
    /\ Len(sent[p]) <= 1
    /\ Len(entries[p]) <= Len(sent[p])
    /\ status[p] = "COMPLETED" <=> entries[p] # <<>>

\* A completed payout was booked at the amount that was sent and owed, unless a
\* deduction slipped in between the read and the claim of its disbursement; one
\* that FAILED was not sent, unless the transfer itself was answered by an error.
SettledAsSent ==
  \A p \in Payouts :
    /\ status[p] = "COMPLETED" /\ p \notin stale => entries[p] = sent[p] /\ sent[p] = <<amount[p]>>
    /\ status[p] = "FAILED" /\ p \notin lost => sent[p] = <<>>

\* The part of a request's variance that went to p, and all that was taken from p.
Share(p) == [r \in Requests |-> IF adjusted[r] = p THEN delta[r] ELSE 0]
Deducted(p) == SumFunctionOnSet(Share(p), Requests)

\* A payout and its deductions always add up to what was captured for it; only a
\* price above the reference has a deduction, and of the requests called DEDUCTED
\* only one that owed nothing has none.
DuesBooked ==
  /\ \A p \in Payouts : status[p] # "NONE" => amount[p] + Deducted(p) = Net
  /\ \A r \in Requests : adjusted[r] # 0 => delta[r] > 0
  /\ \A r \in Requests : request[r] = "DEDUCTED" /\ delta[r] > 0 => adjusted[r] # 0

\* Admins, instances and the settle timer take a variance from one payout, once
\* and with its ledger entry (DuesBooked), and take nothing from a payout that has
\* been claimed for its disbursement, settled or clawed back.
DuesConserved ==
  /\ []DuesBooked
  /\ [][\A p \in Payouts : amount'[p] # amount[p] => status[p] \in {"NONE", "PENDING"}]_vars

\* A payout stranded by a crash is resolved once its provider knows its fate.
StuckResolved ==
  \A p \in Payouts :
    (status[p] = "PROCESSING" /\ (sent[p] # <<>> \/ p \in rejected)) ~> status[p] \in {"COMPLETED", "FAILED"}

\* "Self-healing": a request nobody answers is settled, at once if nothing is owed
\* and else from the first payout that covers it and stays pending.
ExpiredSettled ==
  \A r \in Requests :
    (request[r] = "OPEN" /\ (delta[r] <= 0 \/ \E p \in Payouts : Covers(p, r)))
      ~> (request[r] # "OPEN" \/ (delta[r] > 0 /\ \A p \in Payouts : ~Covers(p, r)))
=============================================================================
