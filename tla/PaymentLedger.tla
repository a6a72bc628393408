--------------------------- MODULE PaymentLedger ---------------------------
(***************************************************************************)
(* The vocabulary of one booking's money, shared by the account a payment  *)
(* promises (PaymentAccount) and the handlers that keep it (Payment): the  *)
(* statuses of the payments and payouts rows, the ledger_entries posted    *)
(* for them and the commission split.  Amounts are whole fils.             *)
(***************************************************************************)
EXTENDS Integers

CONSTANT CommissionPct   \* PLATFORM_COMMISSION_PCT

ASSUME CommissionAssumption == CommissionPct \in 0..100

\* "NONE" stands for no row, and for the PENDING row of a hosted checkout that
\* has not been authorised (the module HostedCheckout).
PaymentStatus == {"NONE", "PRE_AUTHORIZED", "CAPTURED", "PARTIALLY_REFUNDED",
                  "REFUNDED", "FAILED", "DISPUTED", "CHARGEBACK"}

Refundable == {"CAPTURED", "PARTIALLY_REFUNDED"}

LedgerType == {"CHARGE", "CAPTURE", "FEE", "REFUND", "DISPUTE", "CHARGEBACK", "PAYOUT"}

PayoutStatus == {"NONE", "PENDING", "PROCESSING", "COMPLETED", "FAILED"}

NoPayout == [status |-> "NONE", amount |-> 0]

EmptyLedger == [type \in LedgerType |-> 0]

\* splitCommission: the fee is rounded down to a whole fils, the rest is net.
Fee(gross) == (gross * CommissionPct) \div 100
Net(gross) == gross - Fee(gross)

\* postLedgerEntry; the ledger is kept as the sum of the entries of each type.
Post(entries, type, sum) == [entries EXCEPT ![type] = @ + sum]

\* payout.updateMany PENDING -> FAILED: money not yet on its way is held back.
ClawBack(row) == IF row.status = "PENDING" THEN [row EXCEPT !.status = "FAILED"] ELSE row

=============================================================================
