--------------------------- MODULE PaymentAccount ---------------------------
(***************************************************************************)
(* What the payment service promises about the money of ONE booking,       *)
(* whoever asks and in whatever order: the payments row, the ledger rows   *)
(* posted for it and the technician's payout move together, one business   *)
(* transition at a time.  There are no callers, retries or PSP here; the   *)
(* module Payment implements this account with concurrent handlers that    *)
(* read, call the PSP and write in separate steps.                         *)
(*                                                                         *)
(* Source: src/backend/src/application/payment/*.ts                        *)
(***************************************************************************)
EXTENDS PaymentLedger

VARIABLES
  status,     \* payments.status, "NONE" while there is no row
  amount,     \* payments.amountJod: what the hold is believed to cover
  captured,   \* payments.capturedAmountJod, 0 for null
  refunded,   \* payments.refundedAmountJod
  ledger,     \* sum of the ledger_entries of each type
  payout      \* the payouts row: [status, amount]

accountVars == <<status, amount, captured, refunded, ledger, payout>>

-----------------------------------------------------------------------------
Init ==
  /\ status = "NONE"
  /\ amount = 0
  /\ captured = 0
  /\ refunded = 0
  /\ ledger = EmptyLedger
  /\ payout = NoPayout

\* Funds are held for the booking's total.
Hold(a) ==
  /\ status = "NONE"
  /\ status' = "PRE_AUTHORIZED"
  /\ amount' = a
  /\ ledger' = Post(ledger, "CHARGE", a)
  /\ UNCHANGED <<captured, refunded, payout>>

\* Approved extra work widens the hold.
Widen(a) ==
  /\ status # "NONE"
  /\ a > 0
  /\ amount' = amount + a
  /\ UNCHANGED <<status, captured, refunded, ledger, payout>>

\* A hold is captured once: revenue, commission and payout in one step.
Capture(c) ==
  /\ status = "PRE_AUTHORIZED"
  /\ c > 0
  /\ status' = "CAPTURED"
  /\ captured' = c
  /\ ledger' = Post(Post(ledger, "CAPTURE", c), "FEE", Fee(c))
  /\ payout' \in {payout, [status |-> "PENDING", amount |-> Net(c)]}
  /\ UNCHANGED <<amount, refunded>>

\* The whole hold is released before any capture; a widening of the hold that
\* races with the release may miss the posted amount, never exceed it.
Release(a) ==
  /\ status = "PRE_AUTHORIZED"
  /\ a <= amount
  /\ status' = "REFUNDED"
  /\ ledger' = Post(ledger, "REFUND", a)
  /\ UNCHANGED <<amount, captured, refunded, payout>>

\* The hold lapses at the PSP before capture.
Lapse ==
  /\ status = "PRE_AUTHORIZED"
  /\ status' = "FAILED"
  /\ UNCHANGED <<amount, captured, refunded, ledger, payout>>

\* Money goes back to the customer, never more than was captured.  A complete
\* refund may claw the payout back (a refund settled at the PSP does not).
Refund(r) ==
  /\ status \in Refundable
  /\ r > 0
  /\ refunded + r <= captured
  /\ refunded' = refunded + r
  /\ status' = IF refunded' = captured THEN "REFUNDED" ELSE "PARTIALLY_REFUNDED"
  /\ ledger' = Post(ledger, "REFUND", r)
  /\ \/ UNCHANGED payout
     \/ status' = "REFUNDED" /\ payout' = ClawBack(payout)
  /\ UNCHANGED <<amount, captured>>

Dispute(d) ==
  /\ status \in Refundable
  /\ status' = "DISPUTED"
  /\ ledger' = Post(ledger, "DISPUTE", d)
  /\ UNCHANGED <<amount, captured, refunded, payout>>

WinDispute ==
  /\ status = "DISPUTED"
  /\ status' = "CAPTURED"
  /\ UNCHANGED <<amount, captured, refunded, ledger, payout>>

LoseDispute(d) ==
  /\ status = "DISPUTED"
  /\ status' = "CHARGEBACK"
  /\ ledger' = Post(ledger, "CHARGEBACK", d)
  /\ payout' = ClawBack(payout)
  /\ UNCHANGED <<amount, captured, refunded>>

\* Disbursement: one claim, then completed with its ledger entry, or failed.
ClaimPayout ==
  /\ payout.status = "PENDING"
  /\ payout' = [payout EXCEPT !.status = "PROCESSING"]
  /\ UNCHANGED <<status, amount, captured, refunded, ledger>>

SettlePayout ==
  /\ payout.status = "PROCESSING"
  /\ \/ /\ payout' = [payout EXCEPT !.status = "COMPLETED"]
        /\ ledger' = Post(ledger, "PAYOUT", payout.amount)
     \/ /\ payout' = [payout EXCEPT !.status = "FAILED"]
        /\ UNCHANGED ledger
  /\ UNCHANGED <<status, amount, captured, refunded>>

-----------------------------------------------------------------------------
\* The sums each transition may carry are those the row can tell apart.
Next ==
  \/ Hold(amount')
  \/ Widen(amount' - amount)
  \/ Capture(captured')
  \/ Release(ledger'["REFUND"] - ledger["REFUND"])
  \/ Lapse
  \/ Refund(refunded' - refunded)
  \/ Dispute(ledger'["DISPUTE"] - ledger["DISPUTE"])
  \/ WinDispute
  \/ LoseDispute(ledger'["CHARGEBACK"] - ledger["CHARGEBACK"])
  \/ ClaimPayout
  \/ SettlePayout

Spec == Init /\ [][Next]_accountVars
=============================================================================
