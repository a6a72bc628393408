--------------------------- MODULE PaymentProofs ---------------------------
(***************************************************************************)
(* Theorems about Payment, for every set of workers, mode, price and       *)
(* commission.                                                             *)
(*                                                                         *)
(* TypeOK is not inductive: that a posted or captured sum is a natural     *)
(* number rests on what a job still knows of the row it read (JobOK) and   *)
(* on the PSP having charged nothing but positive sums (ChargeInv).  With  *)
(* those, MoneyMoves reduces every step of the system to a handful of      *)
(* transitions of the booking's money, and the theorems on the ledger and  *)
(* on disputes argue about these alone.  What relates the books to the PSP *)
(* (one charge, booked in full, refunds within it, and with that the       *)
(* refinement of PaymentAccount) needs BooksInv as well.                   *)
(***************************************************************************)
EXTENDS Payment, SequenceTheorems, TLAPS

\* What a job remembers of the row it read.
JobOK(job) ==
  /\ job.at \in {"preauth_psp", "preauth_db", "reauth_psp", "reauth_db", "capture_status",
                 "reconcile_db", "capture_psp", "capture_db",
                 "refund_psp", "refund_db"} => job.amt > 0
  /\ job.at = "settle_db" => job.amt > job.seen

JobInv == \A w \in Workers : JobOK(work[w])

\* A remembered capture charged something, and no charge is empty.
ChargeInv ==
  /\ \A i \in DOMAIN charges : charges[i] > 0
  /\ Key("capture", 0) \in keys => charges # <<>>

\* An authorised row holds something.
HeldInv == status = "PRE_AUTHORIZED" => amount > 0

\* The inductive invariant, by what an action may disturb: the database,
RowInv ==
  /\ status \in PaymentStatus
  /\ amount \in Nat /\ captured \in Nat /\ refunded \in Nat
  /\ ref \in Hold \cup {"none"} /\ aged \in BOOLEAN
  /\ ledger \in [LedgerType -> Nat]
  /\ payout \in [status : PayoutStatus, amount : Nat]
  /\ disputes \in Seq([amount : Nat, open : BOOLEAN])
  /\ booking \in BookingState /\ technician \in BOOLEAN
  /\ events \subseteq {"created", "completed", "no_show", "cancelled"}
  /\ HeldInv

\* the PSP,
PspInv ==
  /\ hold \in [Hold -> HoldState]
  /\ charges \in Seq(Nat) /\ taken \in [Hold -> Nat]
  /\ returned \in Nat /\ reported \subseteq Nat
  /\ keys \subseteq [op : {"capture", "void", "refund"}, seen : Nat]
  /\ ChargeInv

\* and the jobs.
WorkInv == work \in [Workers -> Job] /\ JobInv

StateInv == RowInv /\ PspInv /\ WorkInv

-----------------------------------------------------------------------------
(* The operators of the ledger *)

\* splitCommission never takes more than there is, and nothing of nothing.
LEMMA SplitCommission ==
  ASSUME NEW gross \in Nat
  PROVE  /\ Fee(gross) \in Nat /\ Fee(gross) <= gross
         /\ Net(gross) \in Nat
         /\ gross = 0 => Fee(gross) = 0
<1>0. CommissionPct \in Nat /\ CommissionPct <= 100
  BY CommissionAssumption
<1>1. gross * CommissionPct \in Nat
  BY <1>0
<1>2. gross * CommissionPct <= gross * 100
  BY <1>0
<1>3. gross = 0 => gross * CommissionPct = 0
  BY <1>0
<1>4. /\ Fee(gross) \in Nat /\ Fee(gross) <= gross
      /\ gross = 0 => Fee(gross) = 0
  <2> DEFINE part == gross * CommissionPct
  <2>1. part \in Nat /\ part <= gross * 100 /\ (gross = 0 => part = 0)
    BY <1>1, <1>2, <1>3
  <2>2. Fee(gross) = part \div 100
    BY DEF Fee
  <2> HIDE DEF part
  <2> QED
    BY <2>1, <2>2
<1> QED
  BY <1>4 DEF Net

\* postLedgerEntry adds to one type of entry and to no other.
LEMMA Posting ==
  ASSUME NEW entries \in [LedgerType -> Nat], NEW type \in LedgerType, NEW sum \in Nat
  PROVE  /\ Post(entries, type, sum) \in [LedgerType -> Nat]
         /\ Post(entries, type, sum)[type] = entries[type] + sum
         /\ \A t \in LedgerType \ {type} : Post(entries, type, sum)[t] = entries[t]
BY DEF Post

\* A claw-back fails a pending payout and leaves any other alone.
LEMMA ClawingBack ==
  ASSUME NEW row \in [status : PayoutStatus, amount : Nat]
  PROVE  /\ ClawBack(row) \in [status : PayoutStatus, amount : Nat]
         /\ ClawBack(row).amount = row.amount
         /\ ClawBack(row).status = IF row.status = "PENDING" THEN "FAILED" ELSE row.status
BY DEF ClawBack, PayoutStatus

-----------------------------------------------------------------------------
(* The steps of a job *)

\* A worker takes up a job the invariant allows,
LEMMA JobStarts ==
  ASSUME WorkInv, NEW w \in Workers, NEW job \in Job, JobOK(job),
         work' = [work EXCEPT ![w] = job]
  PROVE  WorkInv'
BY DEF WorkInv, JobInv

\* goes on with it,
LEMMA JobGoesOn ==
  ASSUME WorkInv, NEW w \in Workers, NEW point \in Point, Goto(w, point),
         JobOK([work[w] EXCEPT !.at = point])
  PROVE  WorkInv'
<1>1. [work[w] EXCEPT !.at = point] \in Job
  BY DEF WorkInv, Job
<1>2. work' = [work EXCEPT ![w] = [work[w] EXCEPT !.at = point]]
  BY DEF Goto
<1> QED
  BY <1>1, <1>2, JobStarts

\* or drops it.
LEMMA JobEnds ==
  ASSUME WorkInv, NEW w \in Workers, Finish(w)
  PROVE  WorkInv'
<1>1. Idle \in Job /\ JobOK(Idle)
  BY DEF Idle, Job, Point, JobOK
<1> QED
  BY <1>1, JobStarts DEF Finish

\* A step that leaves the jobs alone keeps what holds of them.
LEMMA JobsUntouched ==
  ASSUME WorkInv, UNCHANGED work
  PROVE  WorkInv'
BY DEF WorkInv, JobInv

\* So do the row's typing facts, when neither the row nor the booking moves,
LEMMA RowsUntouched ==
  ASSUME RowInv, UNCHANGED <<accountVars, rowVars, bookingVars>>
  PROVE  RowInv'
BY DEF RowInv, HeldInv, accountVars, rowVars, bookingVars

\* and the PSP's, when nothing happens at the PSP.
LEMMA PspUntouched ==
  ASSUME PspInv, UNCHANGED pspVars
  PROVE  PspInv'
BY DEF PspInv, ChargeInv, pspVars, Key

\* finalizeCapture and the refund transaction keep the database well typed.
LEMMA FinalizeType ==
  ASSUME RowInv, NEW c \in Nat, FinalizeCapture(c), UNCHANGED bookingVars
  PROVE  RowInv'
<1>1. ledger' \in [LedgerType -> Nat]
  <2>1. Post(ledger, "CAPTURE", c) \in [LedgerType -> Nat]
    BY Posting DEF RowInv, LedgerType
  <2>2. Fee(c) \in Nat
    BY SplitCommission
  <2> QED
    BY <2>1, <2>2, Posting DEF FinalizeCapture, LedgerType
<1>2. payout' \in [status : PayoutStatus, amount : Nat]
  BY SplitCommission DEF FinalizeCapture, RowInv, PayoutStatus
<1> QED
  BY <1>1, <1>2 DEF RowInv, HeldInv, FinalizeCapture, PaymentStatus, rowVars, bookingVars

\* The same of the guarded refund of refundCaptured, refundBooking and the webhook.
LEMMA AdvanceType ==
  ASSUME RowInv, NEW seen \in Nat, NEW total \in Nat, total > seen,
         AdvanceRefunded(seen, total), payout' \in {payout, ClawBack(payout)},
         UNCHANGED <<rowVars, bookingVars>>
  PROVE  RowInv'
<1>1. ledger' \in [LedgerType -> Nat]
  BY Posting DEF AdvanceRefunded, RowInv, LedgerType
<1>2. payout' \in [status : PayoutStatus, amount : Nat]
  BY ClawingBack DEF RowInv
<1> QED
  BY <1>1, <1>2 DEF RowInv, HeldInv, AdvanceRefunded, PaymentStatus, rowVars, bookingVars

\* What was charged, by this service or by an operator, is something.
LEMMA PositiveSums ==
  ASSUME PspInv
  PROVE  Sums \subseteq Nat \ {0}
BY DEF PspInv, ChargeInv, Sums, TakenHolds

-----------------------------------------------------------------------------
(* Type correctness *)

\* The inductive invariant holds before anything has happened,
LEMMA StateInit == Init => StateInv
<1> SUFFICES ASSUME Init PROVE StateInv
  OBVIOUS
<1>1. RowInv
  <2>1. ledger \in [LedgerType -> Nat] /\ payout \in [status : PayoutStatus, amount : Nat]
    BY DEF Init, EmptyLedger, NoPayout, PayoutStatus
  <2>2. disputes \in Seq([amount : Nat, open : BOOLEAN])
    BY EmptySeq DEF Init
  <2> QED
    BY <2>1, <2>2 DEF Init, RowInv, HeldInv, PaymentStatus, BookingState
<1>2. PspInv
  BY DEF Init, PspInv, ChargeInv, Hold, HoldState
<1>3. WorkInv
  <2>1. Idle \in Job /\ JobOK(Idle)
    BY DEF Idle, Job, Point, JobOK
  <2> QED
    BY <2>1 DEF Init, WorkInv, JobInv
<1> QED
  BY <1>1, <1>2, <1>3 DEF StateInv

\* and every step of a handler, a webhook, the PSP or a neighbour preserves it.
LEMMA StateStep ==
  ASSUME StateInv, [Next]_vars
  PROVE  StateInv'
<1>0. RowInv /\ PspInv /\ WorkInv
  BY DEF StateInv
<1>1. ASSUME NEW w \in Workers, GiveUp(w) PROVE StateInv'
  BY <1>0, <1>1, RowsUntouched, PspUntouched, JobEnds DEF GiveUp, StateInv
<1>2. ASSUME NEW w \in Workers, PreAuthorizeRead(w) PROVE StateInv'
  <2>jobs. WorkInv'
    <3>1. [at |-> "preauth_psp", ref |-> "none", amt |-> Total, seen |-> 0] \in Job /\ Total > 0
      BY PaymentAssumption DEF Job, Point
    <3>2. Start(w, "preauth_psp", "none", Total, 0)
      BY <1>2 DEF PreAuthorizeRead
    <3> QED
      BY <1>0, <3>1, <3>2, JobStarts DEF Start, JobOK
  <2> QED
    BY <1>0, <1>2, <2>jobs, RowsUntouched, PspUntouched DEF PreAuthorizeRead, StateInv
<1>3. ASSUME NEW w \in Workers, PreAuthorizePsp(w) PROVE StateInv'
  <2>psp. PspInv'
    BY <1>0, <1>3 DEF PreAuthorizePsp, PspInv, ChargeInv, Hold, HoldState, Key, pspVars
  <2>jobs. WorkInv'
    BY <1>0, <1>3, JobGoesOn DEF PreAuthorizePsp, At, WorkInv, JobInv, JobOK, Job, Point
  <2> QED
    BY <1>0, <1>3, <2>psp, <2>jobs, RowsUntouched DEF PreAuthorizePsp, StateInv
<1>4. ASSUME NEW w \in Workers, PreAuthorizeDb(w) PROVE StateInv'
  <2>rows. RowInv'
    BY <1>0, <1>4, Posting DEF PreAuthorizeDb, CreatePayment, At, WorkInv, JobInv,
       JobOK, Job, RowInv, HeldInv, Hold, LedgerType, PaymentStatus, bookingVars
  <2> QED
    BY <1>0, <1>4, <2>rows, PspUntouched, JobEnds DEF PreAuthorizeDb, StateInv
<1>5. ASSUME NEW w \in Workers, CaptureRead(w) PROVE StateInv'
  <2>jobs. WorkInv'
    <3>1. amount \in Nat /\ ref \in Hold \cup {"none"} /\ Callout \in Nat
      BY <1>0, PaymentAssumption DEF RowInv
    <3>2. PICK c \in {amount : e \in events \cap {"completed"}}
                     \cup {Callout : e \in events \cap {"no_show"}} :
            /\ c > 0
            /\ \/ Start(w, "reauth_psp", ref, c, amount)
               \/ Start(w, "capture_status", ref, c, amount)
               \/ Start(w, "capture_psp", ref, c, amount)
      BY <1>5 DEF CaptureRead
    <3>3. c \in Nat
      BY <3>1, <3>2
    <3>4. PICK at \in {"reauth_psp", "capture_status", "capture_psp"} :
            Start(w, at, ref, c, amount)
      BY <3>2
    <3> DEFINE job == [at |-> at, ref |-> ref, amt |-> c, seen |-> amount]
    <3>5. job \in Job /\ JobOK(job)
      BY <3>1, <3>2, <3>3 DEF Job, JobOK, Point
    <3>6. work' = [work EXCEPT ![w] = job]
      BY <3>4 DEF Start
    <3> HIDE DEF job
    <3> QED
      BY <1>0, <3>5, <3>6, JobStarts
  <2> QED
    BY <1>0, <1>5, <2>jobs, RowsUntouched, PspUntouched DEF CaptureRead, StateInv
<1>6. ASSUME NEW w \in Workers, ReauthorizePsp(w) PROVE StateInv'
  <2>psp. PspInv'
    BY <1>0, <1>6 DEF ReauthorizePsp, PspInv, ChargeInv, Hold, HoldState, Key, pspVars
  <2>jobs. WorkInv'
    BY <1>0, <1>6, JobStarts DEF ReauthorizePsp, Hold, At, WorkInv, JobInv, JobOK, Job, Point
  <2> QED
    BY <1>0, <1>6, <2>psp, <2>jobs, RowsUntouched DEF ReauthorizePsp, StateInv
<1>7. ASSUME NEW w \in Workers, ReauthorizeDb(w) PROVE StateInv'
  <2>rows. RowInv'
    BY <1>0, <1>7 DEF ReauthorizeDb, Hold, RowInv, HeldInv, accountVars, bookingVars
  <2>jobs. WorkInv'
    BY <1>0, <1>7, JobGoesOn DEF ReauthorizeDb, At, WorkInv, JobInv, JobOK, Job, Point
  <2> QED
    BY <1>0, <1>7, <2>rows, <2>jobs, PspUntouched DEF ReauthorizeDb, StateInv
<1>8. ASSUME NEW w \in Workers, CaptureStatus(w) PROVE StateInv'
  <2>jobs. WorkInv'
    BY <1>0, <1>8, JobGoesOn DEF CaptureStatus, At, WorkInv, JobInv, JobOK, Job, Point
  <2> QED
    BY <1>0, <1>8, <2>jobs, RowsUntouched, PspUntouched DEF CaptureStatus, StateInv
<1>9. ASSUME NEW w \in Workers, CaptureStatusFails(w) PROVE StateInv'
  <2>jobs. WorkInv'
    BY <1>0, <1>9, JobGoesOn DEF CaptureStatusFails, At, WorkInv, JobInv, JobOK, Job, Point
  <2> QED
    BY <1>0, <1>9, <2>jobs, RowsUntouched, PspUntouched DEF CaptureStatusFails, StateInv
<1>10. ASSUME NEW w \in Workers, CapturePsp(w) PROVE StateInv'
  <2>psp. PspInv'
    <3>1. work[w] \in Job /\ work[w].amt > 0
      BY <1>0, <1>10 DEF CapturePsp, At, WorkInv, JobInv, JobOK
    <3>2. CASE UNCHANGED pspVars
      BY <1>0, <3>2, PspUntouched
    <3>3. CASE /\ charges' = Append(charges, work[w].amt)
               /\ hold' = [hold EXCEPT ![work[w].ref] =
                             IF work[w].amt < work[w].seen THEN "residual" ELSE "captured"]
               /\ keys' = Remember(Key("capture", 0))
               /\ UNCHANGED <<taken, returned, reported>>
      <4>1. hold' \in [Hold -> HoldState]
        BY <1>0, <3>3 DEF PspInv, HoldState
      <4>2. charges' \in Seq(Nat) /\ charges' # <<>> /\ \A i \in DOMAIN charges' : charges'[i] > 0
        <5>1. charges \in Seq(Nat) /\ \A i \in DOMAIN charges : charges[i] > 0
          BY <1>0 DEF PspInv, ChargeInv
        <5>2. work[w].amt \in Nat /\ charges' = Append(charges, work[w].amt)
          BY <3>1, <3>3 DEF Job
        <5> QED
          BY <3>1, <5>1, <5>2
      <4>3. keys' \subseteq [op : {"capture", "void", "refund"}, seen : Nat]
        BY <1>0, <3>3 DEF PspInv, Remember, Key
      <4> QED
        BY <1>0, <3>3, <4>1, <4>2, <4>3 DEF PspInv, ChargeInv
    <3> QED
      BY <1>10, <3>2, <3>3 DEF CapturePsp
  <2>jobs. WorkInv'
    <3>1. CASE Goto(w, "capture_db")
      BY <1>0, <1>10, <3>1, JobGoesOn DEF CapturePsp, At, WorkInv, JobInv, JobOK, Job, Point
    <3>2. CASE /\ Answered(Key("capture", 0))
               /\ work' = [work EXCEPT ![w].at = "capture_db", ![w].amt = charges[1]]
      <4>1. charges[1] \in Nat /\ charges[1] > 0
        BY <1>0, <3>2 DEF Answered, PspInv, ChargeInv
      <4> DEFINE job == [work[w] EXCEPT !.at = "capture_db", !.amt = charges[1]]
      <4>2. job \in Job /\ JobOK(job)
        BY <1>0, <4>1 DEF WorkInv, Job, JobOK, Point
      <4>3. work' = [work EXCEPT ![w] = job]
        BY <3>2
      <4> QED
        BY <1>0, <4>2, <4>3, JobStarts
    <3> QED
      BY <1>10, <3>1, <3>2 DEF CapturePsp
  <2> QED
    BY <1>0, <1>10, <2>psp, <2>jobs, RowsUntouched DEF CapturePsp, StateInv
<1>11. ASSUME NEW w \in Workers, CaptureDb(w) PROVE StateInv'
  <2>rows. RowInv'
    BY <1>0, <1>11, FinalizeType DEF CaptureDb, WorkInv, Job
  <2>jobs. WorkInv'
    BY <1>0, <1>11, JobGoesOn, JobEnds DEF CaptureDb, JobOK, Point, WorkInv, Job
  <2> QED
    BY <1>0, <1>11, <2>rows, <2>jobs, PspUntouched DEF CaptureDb, StateInv
<1>12. ASSUME NEW w \in Workers, ReconcileDb(w) PROVE StateInv'
  <2>rows. RowInv'
    BY <1>0, <1>12, FinalizeType DEF ReconcileDb, WorkInv, Job
  <2> QED
    BY <1>0, <1>12, <2>rows, PspUntouched, JobEnds DEF ReconcileDb, StateInv
<1>13. ASSUME NEW w \in Workers, VoidResidualPsp(w) PROVE StateInv'
  <2>psp. PspInv'
    BY <1>0, <1>13 DEF VoidResidualPsp, Voided, PspInv, ChargeInv, Hold, HoldState, Key, pspVars
  <2> QED
    BY <1>0, <1>13, <2>psp, RowsUntouched, JobEnds DEF VoidResidualPsp, StateInv
<1>14. ASSUME NEW w \in Workers, CancellationRead(w) PROVE StateInv'
  <2>jobs. WorkInv'
    <3>1. CASE Start(w, "void_psp", ref, amount, 0)
      <4>1. [at |-> "void_psp", ref |-> ref, amt |-> amount, seen |-> 0] \in Job
        BY <1>0 DEF RowInv, Job, Point
      <4> QED
        BY <1>0, <3>1, <4>1, JobStarts DEF Start, JobOK
    <3>2. CASE captured > refunded /\ Start(w, "refund_psp", "none", captured - refunded, refunded)
      <4>1. /\ [at |-> "refund_psp", ref |-> "none", amt |-> captured - refunded, seen |-> refunded] \in Job
            /\ captured - refunded > 0
        BY <1>0, <3>2 DEF RowInv, Job, Point
      <4> QED
        BY <1>0, <3>2, <4>1, JobStarts DEF Start, JobOK
    <3> QED
      BY <1>14, <3>1, <3>2 DEF CancellationRead
  <2> QED
    BY <1>0, <1>14, <2>jobs, RowsUntouched, PspUntouched DEF CancellationRead, StateInv
<1>15. ASSUME NEW w \in Workers, VoidPsp(w) PROVE StateInv'
  <2>psp. PspInv'
    BY <1>0, <1>15 DEF VoidPsp, Voided, Remember, PspInv, ChargeInv, Hold, HoldState, Key, pspVars
  <2>jobs. WorkInv'
    BY <1>0, <1>15, JobGoesOn DEF VoidPsp, At, WorkInv, JobInv, JobOK, Job, Point
  <2> QED
    BY <1>0, <1>15, <2>psp, <2>jobs, RowsUntouched DEF VoidPsp, StateInv
<1>16. ASSUME NEW w \in Workers, VoidDb(w) PROVE StateInv'
  <2>rows. RowInv'
    BY <1>0, <1>16, Posting DEF VoidDb, WorkInv, Job, RowInv, HeldInv, LedgerType, PaymentStatus, rowVars, bookingVars
  <2> QED
    BY <1>0, <1>16, <2>rows, PspUntouched, JobEnds DEF VoidDb, StateInv
<1>17. ASSUME NEW w \in Workers, RefundBookingRead(w) PROVE StateInv'
  <2>jobs. WorkInv'
    <3>1. PICK a \in RefundAmounts : Start(w, "refund_psp", "none", a, refunded)
      BY <1>17 DEF RefundBookingRead
    <3>2. [at |-> "refund_psp", ref |-> "none", amt |-> a, seen |-> refunded] \in Job /\ a > 0
      BY <1>0, PaymentAssumption DEF RowInv, Job, Point
    <3> QED
      BY <1>0, <3>1, <3>2, JobStarts DEF Start, JobOK
  <2> QED
    BY <1>0, <1>17, <2>jobs, RowsUntouched, PspUntouched DEF RefundBookingRead, StateInv
<1>18. ASSUME NEW w \in Workers, RefundPsp(w) PROVE StateInv'
  <2>psp. PspInv'
    <3>1. work[w].seen \in Nat /\ work[w].amt \in Nat
      BY <1>0 DEF WorkInv, Job
    <3>2. returned' \in Nat /\ reported' \subseteq Nat
      <4>1. CASE UNCHANGED <<returned, reported>>
        BY <1>0, <4>1 DEF PspInv
      <4>2. CASE ReturnMoney(work[w].amt)
        <5>1. returned' \in Nat
          BY <1>0, <3>1, <4>2 DEF ReturnMoney, PspInv
        <5>2. reported' = reported \cup {IF Hosted THEN work[w].amt ELSE returned'}
          BY <4>2 DEF ReturnMoney
        <5> QED
          BY <1>0, <3>1, <5>1, <5>2 DEF PspInv
      <4> QED
        BY <1>18, <4>1, <4>2 DEF RefundPsp
    <3>3. keys' \in {keys, keys \cup {Key("refund", work[w].seen)}}
      BY <1>18 DEF RefundPsp, Remember
    <3>4. /\ keys' \subseteq [op : {"capture", "void", "refund"}, seen : Nat]
          /\ Key("capture", 0) \in keys' => Key("capture", 0) \in keys
      BY <1>0, <3>1, <3>3 DEF PspInv, Key
    <3>5. UNCHANGED <<hold, charges, taken>>
      BY <1>18 DEF RefundPsp
    <3> QED
      BY <1>0, <3>2, <3>4, <3>5 DEF PspInv, ChargeInv, Key
  <2>jobs. WorkInv'
    BY <1>0, <1>18, JobGoesOn DEF RefundPsp, At, WorkInv, JobInv, JobOK, Job, Point
  <2> QED
    BY <1>0, <1>18, <2>psp, <2>jobs, RowsUntouched DEF RefundPsp, StateInv
<1>19. ASSUME NEW w \in Workers, RefundDb(w) PROVE StateInv'
  <2>rows. RowInv'
    <3>1. work[w].seen \in Nat /\ work[w].amt \in Nat /\ work[w].amt > 0
      BY <1>0, <1>19 DEF RefundDb, At, WorkInv, JobInv, JobOK, Job
    <3> QED
      BY <1>0, <1>19, <3>1, AdvanceType DEF RefundDb
  <2> QED
    BY <1>0, <1>19, <2>rows, PspUntouched, JobEnds DEF RefundDb, StateInv
<1>20. ASSUME NEW w \in Workers, WebhookRefundedRead(w) PROVE StateInv'
  <2>jobs. WorkInv'
    BY <1>0, <1>20, JobStarts DEF WebhookRefundedRead, Start, RowInv, PspInv, Job, JobOK, Point
  <2> QED
    BY <1>0, <1>20, <2>jobs, RowsUntouched, PspUntouched DEF WebhookRefundedRead, StateInv
<1>21. ASSUME NEW w \in Workers, WebhookRefundedDb(w) PROVE StateInv'
  <2>rows. RowInv'
    <3>1. work[w].seen \in Nat /\ work[w].amt \in Nat /\ work[w].amt > work[w].seen
      BY <1>0, <1>21 DEF WebhookRefundedDb, At, WorkInv, JobInv, JobOK, Job
    <3> QED
      BY <1>0, <1>21, <3>1, AdvanceType DEF WebhookRefundedDb
  <2> QED
    BY <1>0, <1>21, <2>rows, PspUntouched, JobEnds DEF WebhookRefundedDb, StateInv
<1>22. ASSUME NEW w \in Workers, ApproveExtraRead(w) PROVE StateInv'
  <2>jobs. WorkInv'
    BY <1>0, <1>22, JobStarts, PaymentAssumption DEF ApproveExtraRead, Start, RowInv, Job, JobOK, Point
  <2> QED
    BY <1>0, <1>22, <2>jobs, RowsUntouched, PspUntouched DEF ApproveExtraRead, StateInv
<1>23. ASSUME NEW w \in Workers, ApproveExtraDb(w) PROVE StateInv'
  <2>rows. RowInv'
    BY <1>0, <1>23 DEF ApproveExtraDb, WorkInv, Job, RowInv, HeldInv, rowVars, bookingVars
  <2> QED
    BY <1>0, <1>23, <2>rows, PspUntouched, JobEnds DEF ApproveExtraDb, StateInv
<1>24. ASSUME WebhookCaptured PROVE StateInv'
  <2>rows. RowInv'
    BY <1>0, <1>24, FinalizeType, PositiveSums DEF WebhookCaptured
  <2> QED
    BY <1>0, <1>24, <2>rows, PspUntouched, JobsUntouched DEF WebhookCaptured, StateInv
<1>25. ASSUME WebhookAuthExpired PROVE StateInv'
  <2>rows. RowInv'
    BY <1>0, <1>25 DEF WebhookAuthExpired, RowInv, HeldInv, PaymentStatus, rowVars, bookingVars
  <2> QED
    BY <1>0, <1>25, <2>rows, PspUntouched, JobsUntouched DEF WebhookAuthExpired, StateInv
<1>26. ASSUME WebhookDisputeOpened PROVE StateInv'
  <2>rows. RowInv'
    <3>1. PICK sum \in Nat :
            /\ disputes' = Append(disputes, [amount |-> sum, open |-> TRUE])
            /\ \/ /\ status' = "DISPUTED" /\ booking' = "DISPUTED"
                  /\ ledger' = Post(ledger, "DISPUTE", sum)
               \/ UNCHANGED <<status, ledger, booking>>
      BY <1>0, <1>26 DEF WebhookDisputeOpened, RowInv
    <3>2. disputes' \in Seq([amount : Nat, open : BOOLEAN])
      <4>1. disputes \in Seq([amount : Nat, open : BOOLEAN])
        BY <1>0 DEF RowInv
      <4>2. [amount |-> sum, open |-> TRUE] \in [amount : Nat, open : BOOLEAN]
        OBVIOUS
      <4> QED
        BY <3>1, <4>1, <4>2, AppendProperties
    <3>4. ledger' \in [LedgerType -> Nat]
      <4>1. ledger \in [LedgerType -> Nat] /\ "DISPUTE" \in LedgerType
        BY <1>0 DEF RowInv, LedgerType
      <4>2. Post(ledger, "DISPUTE", sum) \in [LedgerType -> Nat]
        BY <4>1, Posting
      <4> QED
        BY <3>1, <4>1, <4>2
    <3>3. UNCHANGED <<amount, captured, refunded, payout, ref, aged, technician, events>>
      BY <1>26 DEF WebhookDisputeOpened
    <3> QED
      BY <1>0, <3>1, <3>2, <3>3, <3>4 DEF RowInv, HeldInv, PaymentStatus, BookingState
  <2> QED
    BY <1>0, <1>26, <2>rows, PspUntouched, JobsUntouched DEF WebhookDisputeOpened, StateInv
<1>27. ASSUME NEW won \in BOOLEAN, WebhookDisputeClosed(won) PROVE StateInv'
  <2>rows. RowInv'
    <3>1. PICK i \in DOMAIN disputes :
            /\ disputes' = [disputes EXCEPT ![i].open = FALSE]
            /\ \/ /\ status = "DISPUTED"
                  /\ status' = "CAPTURED"
                  /\ UNCHANGED <<ledger, payout>>
               \/ /\ status = "DISPUTED"
                  /\ status' = "CHARGEBACK"
                  /\ ledger' = Post(ledger, "CHARGEBACK", disputes[i].amount)
                  /\ payout' = ClawBack(payout)
               \/ UNCHANGED <<status, ledger, payout>>
      BY <1>27 DEF WebhookDisputeClosed, OpenDisputes
    <3>2. disputes \in Seq([amount : Nat, open : BOOLEAN]) /\ i \in 1..Len(disputes)
      BY <1>0 DEF RowInv
    <3>3. disputes[i] \in [amount : Nat, open : BOOLEAN]
      BY <3>2, ElementOfSeq
    <3>4. [disputes[i] EXCEPT !.open = FALSE] \in [amount : Nat, open : BOOLEAN]
      BY <3>3
    <3>5. disputes' \in Seq([amount : Nat, open : BOOLEAN])
      <4>1. disputes' = [disputes EXCEPT ![i] = [disputes[i] EXCEPT !.open = FALSE]]
        BY <3>1
      <4> QED
        BY <3>2, <3>4, <4>1
    <3>6. ledger' \in [LedgerType -> Nat]
      BY <1>0, <3>1, <3>3, Posting DEF RowInv, LedgerType
    <3>7. payout' \in [status : PayoutStatus, amount : Nat]
      BY <1>0, <3>1, ClawingBack DEF RowInv
    <3> QED
      BY <1>0, <1>27, <3>1, <3>5, <3>6, <3>7
      DEF WebhookDisputeClosed, RowInv, HeldInv, bookingVars, PaymentStatus
  <2> QED
    BY <1>0, <1>27, <2>rows, PspUntouched, JobsUntouched DEF WebhookDisputeClosed, StateInv
<1>28. ASSUME PspExpires PROVE StateInv'
  <2>psp. PspInv'
    BY <1>0, <1>28 DEF PspExpires, PspInv, ChargeInv, Hold, HoldState, Key, pspVars
  <2> QED
    BY <1>0, <1>28, <2>psp, RowsUntouched, JobsUntouched DEF PspExpires, StateInv
<1>29. ASSUME DashboardCapture PROVE StateInv'
  <2>psp. PspInv'
    <3>1. hold' \in [Hold -> HoldState]
      BY <1>0, <1>29 DEF DashboardCapture, PspInv, HoldState
    <3>2. taken' \in [Hold -> Nat]
      BY <1>0, <1>29, PaymentAssumption DEF DashboardCapture, PspInv, RowInv
    <3> QED
      BY <1>0, <1>29, <3>1, <3>2 DEF DashboardCapture, PspInv, ChargeInv
  <2> QED
    BY <1>0, <1>29, <2>psp, RowsUntouched, JobsUntouched DEF DashboardCapture, StateInv
<1>30. ASSUME DashboardRefund PROVE StateInv'
  <2>psp. PspInv'
    <3>1. returned' \in Nat /\ reported' \subseteq Nat
      <4>1. ASSUME NEW a \in RefundAmounts, ReturnMoney(a)
            PROVE  returned' \in Nat /\ reported' \subseteq Nat
        <5>1. a \in Nat /\ returned' \in Nat
          BY <1>0, <4>1, PaymentAssumption DEF ReturnMoney, PspInv
        <5> QED
          BY <1>0, <4>1, <5>1 DEF ReturnMoney, PspInv
      <4>2. ASSUME NEW c \in Sums, NEW figure \in 1..c,
                   reported' = reported \cup {figure}, UNCHANGED returned
            PROVE  returned' \in Nat /\ reported' \subseteq Nat
        BY <1>0, <4>2, PositiveSums DEF PspInv
      <4> QED
        BY <1>30, <4>1, <4>2 DEF DashboardRefund
    <3> QED
      BY <1>0, <1>30, <3>1 DEF DashboardRefund, PspInv, ChargeInv
  <2> QED
    BY <1>0, <1>30, <2>psp, RowsUntouched, JobsUntouched DEF DashboardRefund, StateInv
<1>31. ASSUME HoldAges PROVE StateInv'
  <2>rows. RowInv'
    BY <1>0, <1>31 DEF HoldAges, RowInv, HeldInv, accountVars, bookingVars
  <2> QED
    BY <1>0, <1>31, <2>rows, PspUntouched, JobsUntouched DEF HoldAges, StateInv
<1>32. ASSUME Authorize PROVE StateInv'
  <2>rows. RowInv'
    <3>1. ledger' \in [LedgerType -> Nat]
      BY <1>0, <1>32, Posting, PaymentAssumption DEF Authorize, CreatePayment, RowInv, LedgerType
    <3>2. CreatePayment(Total) /\ Total \in Nat \ {0}
      BY <1>32, PaymentAssumption DEF Authorize
    <3>3. booking' = "PENDING" /\ events' = events \cup {"created"} /\ UNCHANGED technician
      BY <1>32 DEF Authorize
    <3> QED
      BY <1>0, <3>1, <3>2, <3>3 DEF CreatePayment, RowInv, HeldInv, Hold, PaymentStatus, BookingState
  <2>psp. PspInv'
    BY <1>0, <1>32 DEF Authorize, PspInv, ChargeInv, Hold, HoldState, Key, pspVars
  <2> QED
    BY <1>0, <1>32, <2>rows, <2>psp, JobsUntouched DEF Authorize, StateInv
<1>33. ASSUME Accept PROVE StateInv'
  <2>rows. RowInv'
    BY <1>0, <1>33 DEF Accept, RowInv, HeldInv, accountVars, rowVars, BookingState
  <2> QED
    BY <1>0, <1>33, <2>rows, PspUntouched, JobsUntouched DEF Accept, StateInv
<1>34. ASSUME Complete PROVE StateInv'
  <2>rows. RowInv'
    BY <1>0, <1>34 DEF Complete, RowInv, HeldInv, accountVars, rowVars, BookingState
  <2> QED
    BY <1>0, <1>34, <2>rows, PspUntouched, JobsUntouched DEF Complete, StateInv
<1>35. ASSUME NoShow PROVE StateInv'
  <2>rows. RowInv'
    BY <1>0, <1>35 DEF NoShow, RowInv, HeldInv, accountVars, rowVars, BookingState
  <2> QED
    BY <1>0, <1>35, <2>rows, PspUntouched, JobsUntouched DEF NoShow, StateInv
<1>36. ASSUME Cancel PROVE StateInv'
  <2>rows. RowInv'
    BY <1>0, <1>36 DEF Cancel, RowInv, HeldInv, accountVars, rowVars, BookingState
  <2> QED
    BY <1>0, <1>36, <2>rows, PspUntouched, JobsUntouched DEF Cancel, StateInv
<1>37. ASSUME ClaimPayout PROVE StateInv'
  <2>rows. RowInv'
    BY <1>0, <1>37 DEF ClaimPayout, RowInv, HeldInv, PayoutStatus, rowVars, bookingVars
  <2> QED
    BY <1>0, <1>37, <2>rows, PspUntouched, JobsUntouched DEF ClaimPayout, StateInv
<1>38. ASSUME SettlePayout PROVE StateInv'
  <2>rows. RowInv'
    <3>1. payout' \in [status : PayoutStatus, amount : Nat]
      BY <1>0, <1>38 DEF SettlePayout, RowInv, PayoutStatus
    <3>2. ledger' \in [LedgerType -> Nat]
      BY <1>0, <1>38, Posting DEF SettlePayout, RowInv, LedgerType
    <3> QED
      BY <1>0, <1>38, <3>1, <3>2 DEF SettlePayout, RowInv, HeldInv, rowVars, bookingVars
  <2> QED
    BY <1>0, <1>38, <2>rows, PspUntouched, JobsUntouched DEF SettlePayout, StateInv
<1>39. CASE UNCHANGED vars
  BY <1>0, <1>39, RowsUntouched, PspUntouched, JobsUntouched DEF vars, StateInv
<1> QED
  BY <1>1, <1>2, <1>3, <1>4, <1>5, <1>6, <1>7, <1>8, <1>9, <1>10, <1>11, <1>12, <1>13,
     <1>14, <1>15, <1>16, <1>17, <1>18, <1>19, <1>20, <1>21, <1>22, <1>23, <1>24, <1>25,
     <1>26, <1>27, <1>28, <1>29, <1>30, <1>31, <1>32, <1>33, <1>34, <1>35, <1>36, <1>37,
     <1>38, <1>39 DEF Next, Handler, Webhook, Environment

\* Every variable keeps its type, whatever the constants.
THEOREM TypeCorrect == Spec => []TypeOK
<1>1. Init => StateInv
  BY StateInit
<1>2. StateInv /\ [Next]_vars => StateInv'
  BY StateStep
<1>3. StateInv => TypeOK
  BY DEF StateInv, RowInv, PspInv, WorkInv, TypeOK
<1> QED
  BY <1>1, <1>2, <1>3, PTL DEF Spec

-----------------------------------------------------------------------------
(* The money of the booking *)

\* The transitions of the account that the handlers make; Refund and Release
\* without the bounds that PaymentAccount puts on their sums.
Widened(a) ==
  /\ amount' = amount + a
  /\ UNCHANGED <<status, captured, refunded, ledger, payout>>

Released(a) ==
  /\ status = "PRE_AUTHORIZED"
  /\ status' = "REFUNDED"
  /\ ledger' = Post(ledger, "REFUND", a)
  /\ UNCHANGED <<amount, captured, refunded, payout>>

Repaid(seen, total) ==
  /\ AdvanceRefunded(seen, total)
  /\ payout' \in {payout, ClawBack(payout)}

Money ==
  \/ UNCHANGED accountVars
  \/ \E a \in Nat : Account!Hold(a) \/ Widened(a) \/ Released(a)
  \/ \E c \in Nat \ {0} : FinalizeCapture(c)
  \/ Account!Lapse
  \/ \E seen, total \in Nat : total > seen /\ Repaid(seen, total)
  \/ \E d \in Nat : Account!Dispute(d) \/ Account!LoseDispute(d)
  \/ Account!WinDispute
  \/ Account!ClaimPayout \/ Account!SettlePayout

\* Every step of every job, webhook and neighbour is one of them, or leaves the
\* money alone.
LEMMA MoneyMoves ==
  ASSUME StateInv, [Next]_vars
  PROVE  Money
<1>0. RowInv /\ PspInv /\ WorkInv
  BY DEF StateInv
<1>1. ASSUME NEW w \in Workers, Handler(w) PROVE Money
  <2>0. work[w] \in Job /\ JobOK(work[w])
    BY <1>0 DEF WorkInv, JobInv
  <2>1. CASE PreAuthorizeDb(w)
    BY <2>0, <2>1 DEF PreAuthorizeDb, CreatePayment, Job, Money, Account!Hold, Account!Post, Post
  <2>2. CASE CaptureDb(w)
    BY <2>0, <2>2 DEF CaptureDb, At, JobOK, Job, Money
  <2>3. CASE ReconcileDb(w)
    BY <2>0, <2>3 DEF ReconcileDb, At, JobOK, Job, Money
  <2>4. CASE VoidDb(w)
    BY <2>0, <2>4 DEF VoidDb, Released, Job, Money
  <2>5. CASE RefundDb(w)
    <3>1. /\ work[w].seen \in Nat /\ work[w].seen + work[w].amt \in Nat
          /\ work[w].seen + work[w].amt > work[w].seen
      BY <2>0, <2>5 DEF RefundDb, At, JobOK, Job
    <3>2. Repaid(work[w].seen, work[w].seen + work[w].amt)
      BY <2>5 DEF RefundDb, Repaid
    <3> QED
      BY <3>1, <3>2 DEF Money
  <2>6. CASE WebhookRefundedDb(w)
    <3>1. work[w].seen \in Nat /\ work[w].amt \in Nat /\ work[w].amt > work[w].seen
      BY <2>0, <2>6 DEF WebhookRefundedDb, At, JobOK, Job
    <3>2. Repaid(work[w].seen, work[w].amt)
      BY <2>6 DEF WebhookRefundedDb, Repaid
    <3> QED
      BY <3>1, <3>2 DEF Money
  <2>7. CASE ApproveExtraDb(w)
    BY <2>0, <2>7 DEF ApproveExtraDb, Widened, Job, Money
  <2>8. CASE ~( \/ PreAuthorizeDb(w) \/ CaptureDb(w) \/ ReconcileDb(w) \/ VoidDb(w)
                \/ RefundDb(w) \/ WebhookRefundedDb(w) \/ ApproveExtraDb(w))
    <3>1. UNCHANGED accountVars
      BY <1>1, <2>8
      DEF Handler, GiveUp, PreAuthorizeRead, PreAuthorizePsp, CaptureRead, ReauthorizePsp,
          ReauthorizeDb, CaptureStatus, CaptureStatusFails, CapturePsp, VoidResidualPsp,
          CancellationRead, VoidPsp, RefundBookingRead, RefundPsp, WebhookRefundedRead,
          ApproveExtraRead
    <3> QED
      BY <3>1 DEF Money
  <2> QED
    BY <2>1, <2>2, <2>3, <2>4, <2>5, <2>6, <2>7, <2>8
<1>2. ASSUME Webhook PROVE Money
  <2>1. CASE WebhookCaptured
    BY <1>0, <2>1, PositiveSums DEF WebhookCaptured, Money
  <2>2. CASE WebhookAuthExpired
    BY <2>2 DEF WebhookAuthExpired, Account!Lapse, Money
  <2>3. CASE WebhookDisputeOpened
    <3>1. (IF captured > 0 THEN captured ELSE amount) \in Nat
      BY <1>0 DEF RowInv
    <3> QED
      BY <2>3, <3>1 DEF WebhookDisputeOpened, Account!Dispute, Account!Refundable, Refundable,
                        Account!Post, Post, Money, accountVars
  <2>4. ASSUME NEW won \in BOOLEAN, WebhookDisputeClosed(won) PROVE Money
    <3>1. PICK i \in OpenDisputes :
            \/ Account!WinDispute
            \/ Account!LoseDispute(disputes[i].amount)
            \/ UNCHANGED accountVars
      BY <2>4 DEF WebhookDisputeClosed, Account!WinDispute, Account!LoseDispute, Account!Post,
                  Post, Account!ClawBack, ClawBack, accountVars
    <3>2. disputes \in Seq([amount : Nat, open : BOOLEAN]) /\ i \in 1..Len(disputes)
      BY <1>0 DEF RowInv, OpenDisputes
    <3>3. disputes[i] \in [amount : Nat, open : BOOLEAN]
      BY <3>2, ElementOfSeq
    <3> QED
      BY <3>1, <3>3 DEF Money
  <2> QED
    BY <1>2, <2>1, <2>2, <2>3, <2>4 DEF Webhook
<1>3. ASSUME Environment PROVE Money
  <2>1. CASE Authorize
    BY <2>1, PaymentAssumption DEF Authorize, CreatePayment, Account!Hold, Account!Post, Post,
                                   Money
  <2>2. CASE ClaimPayout
    BY <2>2 DEF ClaimPayout, Account!ClaimPayout, Money
  <2>3. CASE SettlePayout
    BY <2>3 DEF SettlePayout, Account!SettlePayout, Account!Post, Post, Money
  <2>4. CASE ~(Authorize \/ ClaimPayout \/ SettlePayout)
    BY <1>3, <2>4 DEF Environment, PspExpires, DashboardCapture, DashboardRefund, HoldAges,
                      Accept, Complete, NoShow, Cancel, Money
  <2> QED
    BY <2>1, <2>2, <2>3, <2>4
<1>4. CASE UNCHANGED vars
  BY <1>4 DEF vars, Money
<1> QED
  BY <1>1, <1>2, <1>3, <1>4 DEF Next

\* The books agree before anything has happened,
LEMMA LedgerInit == Init => LedgerInv
<1> SUFFICES ASSUME Init PROVE LedgerInv
  OBVIOUS
<1>1. Fee(0) = 0
  BY SplitCommission
<1> QED
  BY <1>1 DEF Init, LedgerInv, CaptureBooked, RefundsBooked, PayoutBooked, EmptyLedger,
              NoPayout, LedgerType, Settled

\* and a step that moves the money in one of these ways keeps them in agreement.
LEMMA LedgerStep ==
  ASSUME StateInv, LedgerInv, Money
  PROVE  LedgerInv'
<1>0. RowInv /\ CaptureBooked /\ RefundsBooked /\ PayoutBooked
  BY DEF StateInv, LedgerInv
<1>1. CASE UNCHANGED accountVars
  BY <1>0, <1>1 DEF accountVars, LedgerInv, CaptureBooked, RefundsBooked, PayoutBooked
<1>2. ASSUME NEW a \in Nat, Account!Hold(a) PROVE LedgerInv'
  <2>2. \A t \in {"CAPTURE", "FEE", "REFUND", "PAYOUT"} : ledger'[t] = ledger[t]
    BY <1>0, <1>2 DEF Account!Hold, Account!Post, RowInv, LedgerType
  <2> QED
    BY <1>0, <1>2, <2>2 DEF Account!Hold, LedgerInv, CaptureBooked, RefundsBooked,
                            PayoutBooked, RowInv, Settled
<1>3. ASSUME NEW a \in Nat, Widened(a) PROVE LedgerInv'
  BY <1>0, <1>3 DEF Widened, LedgerInv, CaptureBooked, RefundsBooked, PayoutBooked
<1>4. ASSUME NEW a \in Nat, Released(a) PROVE LedgerInv'
  <2>1. \A t \in {"CAPTURE", "FEE", "PAYOUT"} : ledger'[t] = ledger[t]
    BY <1>0, <1>4 DEF Released, Post, RowInv, LedgerType
  <2> QED
    BY <1>0, <1>4, <2>1 DEF Released, LedgerInv, CaptureBooked, RefundsBooked,
                            PayoutBooked, RowInv, Settled
<1>5. ASSUME NEW c \in Nat \ {0}, FinalizeCapture(c) PROVE LedgerInv'
  <2>1. captured = 0 /\ refunded = 0 /\ payout.status = "NONE" /\ ledger["REFUND"] = 0
    BY <1>0, <1>5 DEF FinalizeCapture, RowInv, CaptureBooked, RefundsBooked, PayoutBooked, Settled
  <2>2. ledger["CAPTURE"] = 0 /\ ledger["FEE"] = 0 /\ ledger["PAYOUT"] = 0
    BY <1>0, <2>1, SplitCommission DEF CaptureBooked, PayoutBooked
  <2>3. Fee(c) \in Nat /\ Post(ledger, "CAPTURE", c) \in [LedgerType -> Nat]
    BY <1>0, SplitCommission, Posting DEF RowInv, LedgerType
  <2>4. /\ ledger'["CAPTURE"] = c /\ ledger'["FEE"] = Fee(c)
        /\ ledger'["REFUND"] = 0 /\ ledger'["PAYOUT"] = 0
    BY <1>0, <1>5, <2>1, <2>2, <2>3 DEF FinalizeCapture, Post, RowInv, LedgerType
  <2>5. payout' \in {payout, [status |-> "PENDING", amount |-> Net(c)]}
    BY <1>5 DEF FinalizeCapture
  <2>6. status' = "CAPTURED" /\ captured' = c /\ refunded' = 0
    BY <1>5, <2>1 DEF FinalizeCapture
  <2>7. CaptureBooked'
    BY <2>4, <2>6 DEF CaptureBooked, Settled, Fee
  <2>8. RefundsBooked'
    BY <2>4, <2>6 DEF RefundsBooked
  <2>9. PayoutBooked'
    BY <2>1, <2>4, <2>5, <2>6 DEF PayoutBooked, Net, Fee
  <2> QED
    BY <2>7, <2>8, <2>9 DEF LedgerInv
<1>6. CASE Account!Lapse
  BY <1>0, <1>6 DEF Account!Lapse, LedgerInv, CaptureBooked, RefundsBooked, PayoutBooked, Settled
<1>7. ASSUME NEW seen \in Nat, NEW total \in Nat, total > seen, Repaid(seen, total)
      PROVE  LedgerInv'
  <2>1. /\ status \in Refundable /\ refunded = seen /\ refunded' = total
        /\ status' = IF total >= captured THEN "REFUNDED" ELSE "PARTIALLY_REFUNDED"
        /\ UNCHANGED <<amount, captured>>
    BY <1>7 DEF Repaid, AdvanceRefunded
  <2>2. /\ ledger'["REFUND"] = ledger["REFUND"] + (total - seen)
        /\ \A t \in {"CAPTURE", "FEE", "PAYOUT"} : ledger'[t] = ledger[t]
    <3>1. ledger' = Post(ledger, "REFUND", total - seen) /\ total - seen \in Nat
      BY <1>7 DEF Repaid, AdvanceRefunded
    <3> QED
      BY <1>0, <3>1 DEF Post, RowInv, LedgerType
  <2>3. captured > 0
    BY <1>0, <2>1 DEF CaptureBooked, Settled, Refundable
  <2>4. CaptureBooked'
    BY <1>0, <2>1, <2>2, <2>3 DEF CaptureBooked, Settled, Fee
  <2>5. RefundsBooked'
    BY <1>0, <2>1, <2>2, <2>3 DEF RefundsBooked, RowInv
  <2>6. /\ payout'.amount = payout.amount
        /\ payout'.status = "NONE" <=> payout.status = "NONE"
        /\ payout'.status = "COMPLETED" <=> payout.status = "COMPLETED"
    BY <1>0, <1>7, ClawingBack DEF Repaid, RowInv
  <2>7. PayoutBooked'
    BY <1>0, <2>1, <2>2, <2>3, <2>6 DEF PayoutBooked, Net, Fee
  <2> QED
    BY <2>4, <2>5, <2>7 DEF LedgerInv
<1>8. ASSUME NEW d \in Nat, Account!Dispute(d) PROVE LedgerInv'
  <2>1. \A t \in {"CAPTURE", "FEE", "REFUND", "PAYOUT"} : ledger'[t] = ledger[t]
    BY <1>0, <1>8 DEF Account!Dispute, Account!Post, RowInv, LedgerType
  <2> QED
    BY <1>0, <1>8, <2>1 DEF Account!Dispute, Account!Refundable, LedgerInv, CaptureBooked,
                            RefundsBooked, PayoutBooked, Settled
<1>9. ASSUME NEW d \in Nat, Account!LoseDispute(d) PROVE LedgerInv'
  <2>1. \A t \in {"CAPTURE", "FEE", "REFUND", "PAYOUT"} : ledger'[t] = ledger[t]
    BY <1>0, <1>9 DEF Account!LoseDispute, Account!Post, RowInv, LedgerType
  <2>2. /\ payout'.amount = payout.amount
        /\ payout'.status = "NONE" <=> payout.status = "NONE"
        /\ payout'.status = "COMPLETED" <=> payout.status = "COMPLETED"
    BY <1>0, <1>9 DEF Account!LoseDispute, Account!ClawBack, RowInv
  <2> QED
    BY <1>0, <1>9, <2>1, <2>2 DEF Account!LoseDispute, LedgerInv, CaptureBooked,
                                  RefundsBooked, PayoutBooked, Settled, Net, Fee
<1>10. CASE Account!WinDispute
  BY <1>0, <1>10 DEF Account!WinDispute, LedgerInv, CaptureBooked, RefundsBooked,
                     PayoutBooked, Settled
<1>11. CASE Account!ClaimPayout
  BY <1>0, <1>11 DEF Account!ClaimPayout, LedgerInv, CaptureBooked, RefundsBooked,
                     PayoutBooked, RowInv
<1>12. CASE Account!SettlePayout
  <2>1. /\ payout'.amount = payout.amount /\ payout.status = "PROCESSING"
        /\ payout'.status \in {"COMPLETED", "FAILED"}
        /\ UNCHANGED <<status, amount, captured, refunded>>
    BY <1>0, <1>12 DEF Account!SettlePayout, RowInv
  <2>2. /\ \A t \in {"CAPTURE", "FEE", "REFUND"} : ledger'[t] = ledger[t]
        /\ ledger'["PAYOUT"] = IF payout'.status = "COMPLETED" THEN payout.amount ELSE 0
    BY <1>0, <1>12 DEF Account!SettlePayout, Account!Post, RowInv, PayoutBooked, LedgerType
  <2> QED
    BY <1>0, <2>1, <2>2 DEF LedgerInv, CaptureBooked, RefundsBooked, PayoutBooked, Net, Fee
<1> QED
  BY <1>1, <1>2, <1>3, <1>4, <1>5, <1>6, <1>7, <1>8, <1>9, <1>10, <1>11, <1>12 DEF Money

\* The ledger, the payments row and the payout agree whatever handlers, webhooks
\* and admins interleave, crash or retry.
THEOREM LedgerAgrees == Spec => []LedgerInv
<1>1. Init => StateInv /\ LedgerInv
  BY StateInit, LedgerInit
<1>2. StateInv /\ LedgerInv /\ [Next]_vars => StateInv' /\ LedgerInv'
  BY StateStep, MoneyMoves, LedgerStep
<1> QED
  BY <1>1, <1>2, PTL DEF Spec

-----------------------------------------------------------------------------
(* Disputes *)

\* A payout still pending when its payment was charged back stays held back.
THEOREM ChargebackHoldsPayout == Spec => []ChargebackClawsBack
<1>1. Init => StateInv /\ ChargebackClawsBack
  BY StateInit DEF Init, ChargebackClawsBack
<1>2. ASSUME StateInv, ChargebackClawsBack, [Next]_vars
      PROVE  StateInv' /\ ChargebackClawsBack'
  <2>1. StateInv' /\ Money
    BY <1>2, StateStep, MoneyMoves
  <2>2. payout \in [status : PayoutStatus, amount : Nat]
    BY <1>2 DEF StateInv, RowInv
  <2>4. status' # "CHARGEBACK" => ChargebackClawsBack'
    BY DEF ChargebackClawsBack
  <2>5. UNCHANGED <<status, payout>> => ChargebackClawsBack'
    BY <1>2 DEF ChargebackClawsBack
  <2>6. CASE \E d \in Nat : Account!LoseDispute(d)
    BY <2>1, <2>2, <2>6 DEF Account!LoseDispute, Account!ClawBack, ChargebackClawsBack
  <2>7. CASE Account!ClaimPayout \/ Account!SettlePayout
    BY <1>2, <2>1, <2>2, <2>7 DEF Account!ClaimPayout, Account!SettlePayout, ChargebackClawsBack
  <2>8. CASE \/ UNCHANGED accountVars
             \/ \E a \in Nat : Account!Hold(a) \/ Widened(a) \/ Released(a)
             \/ \E c \in Nat \ {0} : FinalizeCapture(c)
             \/ Account!Lapse \/ Account!WinDispute
             \/ \E seen, total \in Nat : total > seen /\ Repaid(seen, total)
             \/ \E d \in Nat : Account!Dispute(d)
    BY <2>1, <2>4, <2>5, <2>8
    DEF accountVars, Account!Hold, Widened, Released, FinalizeCapture, Account!Lapse,
        Account!WinDispute, Repaid, AdvanceRefunded, Account!Dispute
  <2>9. ChargebackClawsBack'
    BY <2>1, <2>6, <2>7, <2>8 DEF Money
  <2> QED
    BY <2>1, <2>9
<1> QED
  BY <1>1, <1>2, PTL DEF Spec

\* A disputed payment has an open dispute that will settle it.
THEOREM DisputedIsOpen == Spec => []DisputedHasOpenDispute
<1>1. Init => StateInv /\ DisputedHasOpenDispute
  BY StateInit DEF Init, DisputedHasOpenDispute
<1>2. ASSUME StateInv, DisputedHasOpenDispute, [Next]_vars
      PROVE  StateInv' /\ DisputedHasOpenDispute'
  <2>0. /\ StateInv'
        /\ disputes \in Seq([amount : Nat, open : BOOLEAN])
    BY <1>2, StateStep DEF StateInv, RowInv
  <2>1. CASE WebhookDisputeOpened
    <3>1. PICK sum : disputes' = Append(disputes, [amount |-> sum, open |-> TRUE])
      BY <2>1 DEF WebhookDisputeOpened
    <3>2. Len(disputes) + 1 \in DOMAIN disputes' /\ disputes'[Len(disputes) + 1].open
      BY <2>0, <3>1
    <3> QED
      BY <2>0, <3>2 DEF DisputedHasOpenDispute, OpenDisputes
  <2>2. CASE \E won \in BOOLEAN : WebhookDisputeClosed(won)
    BY <2>0, <2>2 DEF WebhookDisputeClosed, DisputedHasOpenDispute
  <2>3. CASE UNCHANGED disputes /\ (status' = "DISPUTED" => status = "DISPUTED")
    BY <1>2, <2>0, <2>3 DEF DisputedHasOpenDispute, OpenDisputes
  <2>4. ASSUME NEW w \in Workers, Handler(w)
        PROVE  UNCHANGED disputes /\ (status' = "DISPUTED" => status = "DISPUTED")
    BY <2>4
    DEF Handler, GiveUp, PreAuthorizeRead, PreAuthorizePsp, PreAuthorizeDb, CreatePayment,
        CaptureRead, ReauthorizePsp, ReauthorizeDb, CaptureStatus, CaptureStatusFails, CapturePsp,
        CaptureDb, ReconcileDb, FinalizeCapture, VoidResidualPsp, CancellationRead, VoidPsp, VoidDb,
        RefundBookingRead, RefundPsp, RefundDb, AdvanceRefunded, WebhookRefundedRead,
        WebhookRefundedDb, ApproveExtraRead, ApproveExtraDb, accountVars, rowVars
  <2>5. ASSUME WebhookCaptured \/ WebhookAuthExpired \/ Environment
        PROVE  UNCHANGED disputes /\ (status' = "DISPUTED" => status = "DISPUTED")
    BY <2>5
    DEF WebhookCaptured, FinalizeCapture, WebhookAuthExpired, Environment, PspExpires,
        DashboardCapture, DashboardRefund, HoldAges, Authorize, CreatePayment, Accept, Complete,
        NoShow, Cancel, ClaimPayout, SettlePayout, accountVars, rowVars
  <2>6. CASE UNCHANGED vars
    BY <2>3, <2>6 DEF vars, accountVars, rowVars
  <2> QED
    BY <1>2, <2>1, <2>2, <2>3, <2>4, <2>5, <2>6 DEF Next, Webhook
<1> QED
  BY <1>1, <1>2, PTL DEF Spec

-----------------------------------------------------------------------------
(* The books and the PSP *)

(***************************************************************************)
(* What the PSP was asked to do and what the books say of it, by what a    *)
(* step may disturb.  None of the parts is inductive alone: that a second  *)
(* charge is refused rests on what every job still remembers (Known), what *)
(* operators took on the state of the two holds (TakenInv), and that a     *)
(* released hold was not charged on the bookings that can be both          *)
(* completed and cancelled (LifeInv).                                      *)
(***************************************************************************)

\* A hosted charge found at the PSP is booked as the sum this job would capture,
\* which is what was charged only if this service asked for it.
HostedCapturesAreOurs == Hosted => "capture" \notin Dashboard

\* Webhooks are matched by booking: a refund an operator made of a charge that the
\* row does not record is settled against the one that it does.
OneKindOfOperator == ~({"capture", "refund"} \subseteq Dashboard)

Charging == {"reauth_psp", "reauth_db", "capture_status", "capture_psp"}

CaptureKey == Key("capture", 0)
VoidKey == Key("void", 0)

\* A sum that the end of the job allows to capture from a hold of `held'.
Due(sum, held) ==
  \/ "completed" \in events /\ sum = held
  \/ "no_show" \in events /\ sum = Callout

\* What is still true of the row and of the PSP when a job goes on.
Known(job) ==
  /\ job.at \notin {"idle", "preauth_psp", "preauth_db"} => status # "NONE"
  /\ job.at \in {"preauth_psp", "preauth_db"} => job.amt = Total
  /\ job.at = "preauth_db" => hold["auth"] # "none"
  /\ job.at \in Charging \cup {"void_psp"} => job.ref \in Hold
  /\ job.at \in Charging \cup {"reconcile_db"} =>
       /\ job.amt <= job.seen /\ job.seen <= amount /\ (Hosted => job.seen = amount)
       /\ Due(job.amt, job.seen)
  /\ job.at = "capture_status" => Hosted
  /\ job.at \in {"capture_db", "reconcile_db"} => charges # <<>> /\ job.amt = charges[1]
  /\ job.at \in {"void_psp", "void_db"} => "cancelled" \in events /\ job.amt <= amount
  /\ job.at = "void_db" /\ ~Hosted => VoidKey \in keys
  /\ job.at \in {"refund_psp", "refund_db"} => job.seen + job.amt <= captured
  /\ job.at = "settle_db" => captured > 0 /\ (OneKindOfOperator => job.amt <= captured)
  /\ job.at = "widen_db" => ~Hosted /\ job.amt > 0

KnownInv == \A w \in Workers : Known(work[w])

\* How the booking ends: once, but for a payment that was disputed in between.
LifeInv ==
  /\ booking \in {"AWAITING_PAYMENT", "PENDING", "ASSIGNED"} =>
       events \cap {"completed", "no_show", "cancelled"} = {}
  /\ ~({"completed", "no_show"} \subseteq events)
  /\ booking = "NO_SHOW" => "no_show" \in events
  /\ booking = "DISPUTED" => captured > 0
  /\ {"completed", "cancelled"} \subseteq events => captured > 0

\* Nothing is asked of the PSP before there is a row.
FreshInv ==
  /\ status = "NONE" => charges = <<>> /\ keys = {}
  /\ status # "NONE" => ref \in Hold /\ hold["auth"] # "none"

\* What operators took: never more than the row holds, of a hold that the service
\* can then neither capture nor release, and not of the one it charged itself.
TakenInv ==
  /\ "capture" \notin Dashboard => TakenHolds = {}
  /\ \A h \in Hold : taken[h] <= IF status = "NONE" THEN Total ELSE amount
  /\ \A h \in TakenHolds : hold[h] = "captured"
  /\ ~Hosted /\ charges # <<>> => \E h \in Hold \ TakenHolds : hold[h] \in {"captured", "residual"}

\* The sums charged, booked, returned and reported.
SumInv ==
  /\ \A i \in DOMAIN charges : charges[i] <= amount /\ (Hosted => Due(charges[i], amount))
  /\ ~Hosted => Len(charges) <= 1 /\ (charges # <<>> => CaptureKey \in keys)
  /\ captured > 0 => captured \in Sums
  /\ OneKindOfOperator =>
       /\ \A r \in reported : r <= IF captured > 0 THEN captured ELSE charges[1]
       /\ reported # {} /\ captured = 0 => charges # <<>> /\ "refund" \in Dashboard
       /\ refunded <= captured

\* What the service released is not charged but for a callout fee, and an operator
\* has then no live hold left to take but a renewed one.
HoldInv ==
  ~Hosted =>
  /\ CaptureKey \in keys => "completed" \in events \/ charges[1] = Callout
  /\ VoidKey \in keys =>
       /\ "cancelled" \in events
       /\ captured > 0 \/ \A i \in DOMAIN charges : charges[i] = Callout
       /\ hold["reauth"] # "none" \/ (TakenHolds = {} /\ hold["auth"] # "held")
  /\ status = "REFUNDED" /\ captured = 0 => VoidKey \in keys

BooksInv == LifeInv /\ FreshInv /\ TakenInv /\ SumInv /\ HoldInv /\ KnownInv

\* All of it, with what the earlier sections prove.
AllInv == StateInv /\ LedgerInv /\ BooksInv

\* Which steps write what: each variable has few writers.
LEMMA Writers ==
  ASSUME [Next]_vars
  PROVE  /\ \/ UNCHANGED <<booking, events>>
            \/ Authorize \/ Accept \/ Complete \/ NoShow \/ Cancel \/ WebhookDisputeOpened
         /\ \/ UNCHANGED amount
            \/ Authorize \/ \E w \in Workers : PreAuthorizeDb(w) \/ ApproveExtraDb(w)
         /\ \/ UNCHANGED <<ref, aged>>
            \/ Authorize \/ HoldAges \/ \E w \in Workers : PreAuthorizeDb(w) \/ ReauthorizeDb(w)
         /\ \/ UNCHANGED hold
            \/ Authorize \/ PspExpires \/ DashboardCapture
            \/ \E w \in Workers : \/ PreAuthorizePsp(w) \/ ReauthorizePsp(w) \/ CapturePsp(w)
                                  \/ VoidResidualPsp(w) \/ VoidPsp(w)
         /\ UNCHANGED charges \/ \E w \in Workers : CapturePsp(w)
         /\ UNCHANGED taken \/ DashboardCapture
         /\ UNCHANGED reported \/ DashboardRefund \/ \E w \in Workers : RefundPsp(w)
         /\ \/ UNCHANGED keys
            \/ \E w \in Workers : CapturePsp(w) \/ VoidPsp(w) \/ RefundPsp(w)
         /\ UNCHANGED work \/ \E w \in Workers : Handler(w)
<1>1. ASSUME NEW w \in Workers, Handler(w)
      PROVE  /\ UNCHANGED <<booking, events>>
             /\ UNCHANGED amount \/ PreAuthorizeDb(w) \/ ApproveExtraDb(w)
             /\ UNCHANGED <<ref, aged>> \/ PreAuthorizeDb(w) \/ ReauthorizeDb(w)
             /\ UNCHANGED keys \/ CapturePsp(w) \/ VoidPsp(w) \/ RefundPsp(w)
  BY <1>1
  DEF Handler, GiveUp, PreAuthorizeRead, PreAuthorizePsp, PreAuthorizeDb, CreatePayment,
      CaptureRead, ReauthorizePsp, ReauthorizeDb, CaptureStatus, CaptureStatusFails, CapturePsp,
      CaptureDb, ReconcileDb, FinalizeCapture, VoidResidualPsp, CancellationRead, VoidPsp, VoidDb,
      RefundBookingRead, RefundPsp, RefundDb, AdvanceRefunded, WebhookRefundedRead,
      WebhookRefundedDb, ApproveExtraRead, ApproveExtraDb, accountVars, rowVars, bookingVars, pspVars
<1>2. ASSUME NEW w \in Workers, Handler(w)
      PROVE  /\ \/ UNCHANGED hold
                \/ PreAuthorizePsp(w) \/ ReauthorizePsp(w) \/ CapturePsp(w)
                \/ VoidResidualPsp(w) \/ VoidPsp(w)
             /\ UNCHANGED taken /\ (UNCHANGED charges \/ CapturePsp(w))
             /\ UNCHANGED reported \/ RefundPsp(w)
  BY <1>2
  DEF Handler, GiveUp, PreAuthorizeRead, PreAuthorizePsp, PreAuthorizeDb, CreatePayment,
      CaptureRead, ReauthorizePsp, ReauthorizeDb, CaptureStatus, CaptureStatusFails, CapturePsp,
      CaptureDb, ReconcileDb, FinalizeCapture, VoidResidualPsp, CancellationRead, VoidPsp, VoidDb,
      RefundBookingRead, RefundPsp, RefundDb, AdvanceRefunded, WebhookRefundedRead,
      WebhookRefundedDb, ApproveExtraRead, ApproveExtraDb, accountVars, rowVars, bookingVars, pspVars
<1>3. ASSUME Webhook
      PROVE  /\ UNCHANGED <<amount, ref, aged, hold, charges, taken, reported, keys, work>>
             /\ UNCHANGED <<booking, events>> \/ WebhookDisputeOpened
  BY <1>3
  DEF Webhook, WebhookCaptured, FinalizeCapture, WebhookAuthExpired, WebhookDisputeOpened,
      WebhookDisputeClosed, rowVars, bookingVars, pspVars
<1>4. ASSUME Environment
      PROVE  /\ UNCHANGED <<booking, events>> \/ Authorize \/ Accept \/ Complete \/ NoShow \/ Cancel
             /\ UNCHANGED amount \/ Authorize
             /\ UNCHANGED <<ref, aged>> \/ Authorize \/ HoldAges
             /\ UNCHANGED hold \/ Authorize \/ PspExpires \/ DashboardCapture
             /\ UNCHANGED charges /\ (UNCHANGED taken \/ DashboardCapture)
             /\ UNCHANGED reported \/ DashboardRefund
             /\ UNCHANGED <<keys, work>>
  BY <1>4
  DEF Environment, PspExpires, DashboardCapture, DashboardRefund, HoldAges, Authorize,
      CreatePayment, Accept, Complete, NoShow, Cancel, ClaimPayout, SettlePayout,
      accountVars, rowVars, bookingVars, pspVars
<1>5. CASE UNCHANGED vars
  BY <1>5 DEF vars, accountVars, rowVars, bookingVars, pspVars
<1>6. CASE \E w \in Workers : Handler(w)
  BY <1>6, <1>1, <1>2
<1> QED
  BY <1>3, <1>4, <1>5, <1>6 DEF Next

\* What no step takes back.
Grown ==
  /\ events \subseteq events' /\ keys \subseteq keys'
  /\ status # "NONE" => status' # "NONE" /\ amount <= amount' /\ (Hosted => amount' = amount)
  /\ captured > 0 => captured' = captured
  /\ charges # <<>> => charges' # <<>> /\ charges'[1] = charges[1]
  /\ Sums \subseteq Sums'
  /\ \A h \in Hold : hold[h] # "none" => hold'[h] # "none"
  /\ status # "NONE" /\ hold["auth"] # "held" => hold'["auth"] # "held"

\* The status moves on, and a captured sum stays: FinalizeCapture finds an
\* authorised row once.
LEMMA StatusGrows ==
  ASSUME StateInv, LedgerInv, [Next]_vars
  PROVE  /\ status # "NONE" => status' # "NONE"
         /\ status \notin {"NONE", "PRE_AUTHORIZED"} => status' # "PRE_AUTHORIZED"
         /\ captured > 0 => captured' = captured
<1>1. Money /\ CaptureBooked
  BY MoneyMoves DEF LedgerInv
<1>2. captured \in Nat
  BY DEF StateInv, RowInv
<1> QED
  BY <1>1, <1>2
  DEF Money, accountVars, Account!Hold, Widened, Released, FinalizeCapture, Account!Lapse, Repaid,
      AdvanceRefunded, Account!Dispute, Account!LoseDispute, Account!WinDispute,
      Account!ClaimPayout, Account!SettlePayout, Refundable, Account!Refundable, CaptureBooked,
      Settled

\* The PSP forgets no key and no charge, and a hold once placed is not placed again.
LEMMA PspGrows ==
  ASSUME AllInv, [Next]_vars
  PROVE  /\ keys \subseteq keys'
         /\ charges # <<>> => charges' # <<>> /\ charges'[1] = charges[1]
         /\ Sums \subseteq Sums'
         /\ \A h \in Hold : hold[h] # "none" => hold'[h] # "none"
         /\ status # "NONE" /\ hold["auth"] # "held" => hold'["auth"] # "held"
<1>0. /\ charges \in Seq(Nat) /\ hold \in [Hold -> HoldState] /\ taken \in [Hold -> Nat]
      /\ TakenInv /\ \A w \in Workers : work[w] \in Job
  BY DEF AllInv, StateInv, PspInv, WorkInv, BooksInv
<1>1. keys \subseteq keys'
  BY Writers DEF CapturePsp, VoidPsp, RefundPsp, Remember, pspVars
<1>2. UNCHANGED charges \/ \E sum \in Nat : charges' = Append(charges, sum)
  BY <1>0, Writers DEF CapturePsp, pspVars, Job
<1>3. charges # <<>> => charges' # <<>> /\ charges'[1] = charges[1]
  BY <1>0, <1>2
<1>4. Sums \subseteq Sums'
  <2>1. \A i \in DOMAIN charges : i \in DOMAIN charges' /\ charges'[i] = charges[i]
    <3>1. CASE UNCHANGED charges
      BY <3>1
    <3>2. ASSUME NEW sum \in Nat, charges' = Append(charges, sum)
          PROVE  \A i \in DOMAIN charges : i \in DOMAIN charges' /\ charges'[i] = charges[i]
      BY <1>0, <3>2
    <3> QED
      BY <1>2, <3>1, <3>2
  <2>2. \A h \in TakenHolds : h \in TakenHolds' /\ taken'[h] = taken[h]
    <3>1. CASE UNCHANGED taken
      BY <3>1 DEF TakenHolds
    <3>2. CASE DashboardCapture
      BY <1>0, <3>2 DEF DashboardCapture, TakenInv, TakenHolds
    <3> QED
      BY <3>1, <3>2, Writers
  <2> QED
    BY <2>1, <2>2 DEF Sums
<1>5. /\ \A h \in Hold : hold[h] # "none" => hold'[h] # "none"
      /\ status # "NONE" /\ hold["auth"] # "held" => hold'["auth"] # "held"
  <2>0. status # "NONE" => hold["auth"] # "none"
    BY DEF AllInv, BooksInv, FreshInv
  <2>1. CASE UNCHANGED hold
    BY <2>1
  <2>2. CASE Authorize \/ DashboardCapture
    BY <1>0, <2>2 DEF Authorize, CreatePayment, DashboardCapture, Hold
  <2>3. CASE PspExpires
    BY <1>0, <2>3 DEF PspExpires, Hold
  <2>4. ASSUME NEW w \in Workers,
               \/ PreAuthorizePsp(w) \/ ReauthorizePsp(w) \/ CapturePsp(w)
               \/ VoidResidualPsp(w) \/ VoidPsp(w)
        PROVE  /\ \A h \in Hold : hold[h] # "none" => hold'[h] # "none"
               /\ status # "NONE" /\ hold["auth"] # "held" => hold'["auth"] # "held"
    BY <1>0, <2>0, <2>4 DEF PreAuthorizePsp, ReauthorizePsp, CapturePsp, VoidResidualPsp,
                            VoidPsp, Voided, Hold, pspVars
  <2> QED
    BY <2>1, <2>2, <2>3, <2>4, Writers
<1> QED
  BY <1>1, <1>3, <1>4, <1>5

\* Every step, then, leaves Grown behind.
LEMMA Grows ==
  ASSUME AllInv, [Next]_vars
  PROVE  Grown
<1>0. StateInv /\ LedgerInv /\ KnownInv /\ FreshInv
  BY DEF AllInv, BooksInv
<1>1. /\ status # "NONE" => status' # "NONE"
      /\ status \notin {"NONE", "PRE_AUTHORIZED"} => status' # "PRE_AUTHORIZED"
      /\ captured > 0 => captured' = captured
  BY <1>0, StatusGrows
<1>2. events \subseteq events'
  BY Writers DEF Authorize, Accept, Complete, NoShow, Cancel, WebhookDisputeOpened
<1>3. status # "NONE" => amount <= amount' /\ (Hosted => amount' = amount)
  <2>1. amount \in Nat /\ \A w \in Workers : work[w].amt \in Nat
    BY <1>0 DEF StateInv, RowInv, WorkInv, Job
  <2>2. \A w \in Workers : At(w, "widen_db") => ~Hosted
    BY <1>0 DEF KnownInv, Known, At
  <2> QED
    BY <2>1, <2>2, Writers DEF Authorize, PreAuthorizeDb, CreatePayment, ApproveExtraDb
<1> QED
  BY <1>1, <1>2, <1>3, PspGrows DEF Grown

\* A row is created by the two authorizations alone.
LEMMA RowCreated ==
  ASSUME [Next]_vars, status = "NONE"
  PROVE  status' = "NONE" \/ Authorize \/ \E w \in Workers : PreAuthorizeDb(w)
<1>1. ASSUME NEW w \in Workers, Handler(w) PROVE UNCHANGED status \/ PreAuthorizeDb(w)
  BY <1>1
  DEF Handler, GiveUp, PreAuthorizeRead, PreAuthorizePsp, CaptureRead, ReauthorizePsp,
      ReauthorizeDb, CaptureStatus, CaptureStatusFails, CapturePsp, CaptureDb, ReconcileDb,
      FinalizeCapture, VoidResidualPsp, CancellationRead, VoidPsp, VoidDb, RefundBookingRead,
      RefundPsp, RefundDb, AdvanceRefunded, Refundable, WebhookRefundedRead, WebhookRefundedDb,
      ApproveExtraRead, ApproveExtraDb, accountVars
<1>2. ASSUME Webhook PROVE UNCHANGED status
  BY <1>2 DEF Webhook, WebhookCaptured, FinalizeCapture, WebhookAuthExpired,
              WebhookDisputeOpened, WebhookDisputeClosed, Refundable
<1>3. ASSUME Environment PROVE UNCHANGED status \/ Authorize
  BY <1>3 DEF Environment, PspExpires, DashboardCapture, DashboardRefund, HoldAges, Accept,
              Complete, NoShow, Cancel, ClaimPayout, SettlePayout, accountVars
<1> QED
  BY <1>1, <1>2, <1>3 DEF Next, vars, accountVars

\* Nothing is charged or asked before there is a row, and there is a hold with it.
LEMMA FreshStep ==
  ASSUME AllInv, [Next]_vars
  PROVE  FreshInv'
<1>0. Grown /\ FreshInv /\ KnownInv
  BY Grows DEF AllInv, BooksInv
<1>1. ASSUME status' = "NONE" PROVE charges' = <<>> /\ keys' = {}
  <2>1. status = "NONE" /\ charges = <<>> /\ keys = {}
    BY <1>0, <1>1 DEF Grown, FreshInv
  <2>2. \A w \in Workers : work[w].at \notin {"capture_psp", "void_psp", "refund_psp"}
    BY <1>0, <2>1 DEF KnownInv, Known
  <2> QED
    BY <2>1, <2>2, Writers DEF CapturePsp, VoidPsp, RefundPsp, At
<1>2. ASSUME status' # "NONE", status # "NONE" PROVE ref' \in Hold /\ hold'["auth"] # "none"
  BY <1>0, <1>2, Writers DEF Grown, FreshInv, Authorize, PreAuthorizeDb, CreatePayment, HoldAges,
                             ReauthorizeDb, Hold
<1>3. ASSUME status' # "NONE", status = "NONE" PROVE ref' \in Hold /\ hold'["auth"] # "none"
  <2>1. CASE Authorize
    <3>1. ref' = "auth" /\ hold' = [hold EXCEPT !["auth"] = "held"]
      BY <2>1 DEF Authorize, CreatePayment
    <3>2. hold \in [Hold -> HoldState]
      BY DEF AllInv, StateInv, PspInv
    <3> QED
      BY <3>1, <3>2 DEF Hold
  <2>2. ASSUME NEW w \in Workers, PreAuthorizeDb(w)
        PROVE  ref' \in Hold /\ hold'["auth"] # "none"
    BY <1>0, <2>2 DEF PreAuthorizeDb, CreatePayment, At, KnownInv, Known, Hold, pspVars
  <2> QED
    BY <1>3, <2>1, <2>2, RowCreated
<1> QED
  BY <1>1, <1>2, <1>3 DEF FreshInv

\* A completed booking is cancelled only as a disputed one, whose money is in.
LEMMA LifeStep ==
  ASSUME AllInv, [Next]_vars
  PROVE  LifeInv'
<1>0. /\ Grown /\ LifeInv /\ captured \in Nat
      /\ captured > 0 => captured' > 0
  BY Grows DEF AllInv, BooksInv, StateInv, RowInv, Grown
<1>1. CASE UNCHANGED <<booking, events>>
  BY <1>0, <1>1 DEF LifeInv
<1>2. CASE Authorize \/ Accept
  BY <1>0, <1>2 DEF Authorize, Accept, LifeInv
<1>3. CASE Complete \/ NoShow
  BY <1>0, <1>3 DEF Complete, NoShow, LifeInv
<1>4. CASE Cancel
  <2>1. booking \in BookingState
    BY DEF AllInv, StateInv, RowInv
  <2>2. "completed" \in events => captured > 0
    BY <1>0, <1>4, <2>1 DEF Cancel, LifeInv, BookingState
  <2> QED
    BY <1>0, <1>4, <2>2 DEF Cancel, LifeInv
<1>5. CASE WebhookDisputeOpened
  <2>1. events' = events /\ (booking' = booking \/ (booking' = "DISPUTED" /\ status \in Refundable))
    BY <1>5 DEF WebhookDisputeOpened
  <2>2. status \in Refundable => captured > 0
    BY DEF AllInv, LedgerInv, CaptureBooked, Refundable, Settled
  <2> QED
    BY <1>0, <2>1, <2>2 DEF LifeInv
<1> QED
  BY <1>1, <1>2, <1>3, <1>4, <1>5, Writers

\* Every charge is of the same sum: one alone, or (hosted) what the one end of
\* the booking allows of an amount that never changes.
LEMMA EqualCharges ==
  ASSUME AllInv
  PROVE  \A i \in DOMAIN charges : 1 \in DOMAIN charges /\ charges[i] = charges[1]
<1>0. SumInv /\ LifeInv /\ charges \in Seq(Nat)
  BY DEF AllInv, BooksInv, StateInv, PspInv
<1>1. \A i \in DOMAIN charges : 1 \in DOMAIN charges
  BY <1>0
<1>2. ~Hosted => \A i \in DOMAIN charges : i = 1
  BY <1>0 DEF SumInv
<1>3. ASSUME Hosted PROVE \A i \in DOMAIN charges : charges[i] = charges[1]
  BY <1>0, <1>1, <1>3 DEF SumInv, LifeInv, Due
<1> QED
  BY <1>1, <1>2, <1>3

\* A handler charges what the end of the booking allows, and in instant mode only
\* the first time: the capture has one key.
LEMMA HandlerCharge ==
  ASSUME AllInv, NEW w \in Workers, CapturePsp(w), ~Answered(CaptureKey)
  PROVE  /\ charges' = Append(charges, work[w].amt)
         /\ work[w].amt <= amount /\ (Hosted => Due(work[w].amt, amount))
         /\ ~Hosted => charges = <<>>
         /\ charges # <<>> => work[w].amt = charges[1]
<1>0. /\ SumInv /\ LifeInv /\ Known(work[w]) /\ work[w].at = "capture_psp"
      /\ charges \in Seq(Nat) /\ work[w] \in Job /\ amount \in Nat
  BY DEF AllInv, BooksInv, StateInv, PspInv, RowInv, WorkInv, KnownInv, CapturePsp, At
<1>1. charges' = Append(charges, work[w].amt)
  BY DEF CapturePsp, CaptureKey
<1>2. work[w].amt <= amount /\ (Hosted => Due(work[w].amt, amount))
  BY <1>0 DEF Known, Charging, Job
<1>3. ASSUME ~Hosted PROVE charges = <<>>
  <2>1. CaptureKey \notin keys
    BY <1>3 DEF Answered
  <2> QED
    BY <1>0, <1>3, <2>1 DEF SumInv
<1>4. ASSUME charges # <<>> PROVE work[w].amt = charges[1]
  <2>1. Hosted /\ 1 \in DOMAIN charges
    BY <1>0, <1>3, <1>4
  <2> QED
    BY <1>0, <1>2, <2>1 DEF SumInv, LifeInv, Due
<1> QED
  BY <1>1, <1>2, <1>3, <1>4

\* So a step charges nothing, or one sum that the row covers.
LEMMA NewCharge ==
  ASSUME AllInv, [Next]_vars
  PROVE  \/ UNCHANGED charges
         \/ \E sum \in Nat :
              /\ charges' = Append(charges, sum)
              /\ status # "NONE" /\ sum <= amount /\ (Hosted => Due(sum, amount))
              /\ ~Hosted => charges = <<>>
<1>0. /\ amount \in Nat /\ \A w \in Workers : work[w].amt \in Nat
      /\ \A w \in Workers : At(w, "capture_psp") => status # "NONE"
  BY DEF AllInv, StateInv, RowInv, WorkInv, Job, BooksInv, KnownInv, Known, At
<1>1. ASSUME NEW w \in Workers, CapturePsp(w)
      PROVE  \/ UNCHANGED charges
             \/ \E sum \in Nat :
                  /\ charges' = Append(charges, sum)
                  /\ status # "NONE" /\ sum <= amount /\ (Hosted => Due(sum, amount))
                  /\ ~Hosted => charges = <<>>
  <2>1. CASE Answered(CaptureKey)
    BY <1>1, <2>1 DEF CapturePsp, CaptureKey, pspVars
  <2>2. CASE ~Answered(CaptureKey)
    BY <1>0, <1>1, <2>2, HandlerCharge DEF CapturePsp
  <2> QED
    BY <2>1, <2>2
<1> QED
  BY <1>1, Writers

\* What a handler or a webhook books is what the PSP charged.
LEMMA BookedSum ==
  ASSUME AllInv, [Next]_vars, captured' # captured
  PROVE  captured' \in Sums
<1>1. ASSUME NEW w \in Workers, Handler(w)
      PROVE  /\ work[w].at \in {"capture_db", "reconcile_db"}
             /\ captured' = work[w].amt
  BY <1>1
  DEF Handler, GiveUp, PreAuthorizeRead, PreAuthorizePsp, PreAuthorizeDb, CreatePayment,
      CaptureRead, ReauthorizePsp, ReauthorizeDb, CaptureStatus, CaptureStatusFails, CapturePsp,
      CaptureDb, ReconcileDb, FinalizeCapture, VoidResidualPsp, CancellationRead, VoidPsp, VoidDb,
      RefundBookingRead, RefundPsp, RefundDb, AdvanceRefunded, WebhookRefundedRead,
      WebhookRefundedDb, ApproveExtraRead, ApproveExtraDb, accountVars, At
<1>2. ASSUME Webhook PROVE captured' \in Sums
  BY <1>2 DEF Webhook, WebhookCaptured, FinalizeCapture, WebhookAuthExpired,
              WebhookDisputeOpened, WebhookDisputeClosed
<1>3. ~Environment
  BY DEF Environment, PspExpires, DashboardCapture, DashboardRefund, HoldAges, Authorize,
         CreatePayment, Accept, Complete, NoShow, Cancel, ClaimPayout, SettlePayout, accountVars
<1>4. CASE \E w \in Workers : Handler(w)
  <2>1. charges \in Seq(Nat) /\ KnownInv
    BY DEF AllInv, StateInv, PspInv, BooksInv
  <2>2. charges # <<>> /\ captured' = charges[1]
    BY <1>1, <1>4, <2>1 DEF KnownInv, Known
  <2> QED
    BY <2>1, <2>2 DEF Sums
<1> QED
  BY <1>2, <1>3, <1>4 DEF Next, vars, accountVars

\* What operators took is of a hold that was live, and stays apart from the charge
\* of this service.
LEMMA TakenStep ==
  ASSUME HostedCapturesAreOurs, AllInv, [Next]_vars
  PROVE  TakenInv'
<1>0. /\ Grown /\ TakenInv /\ KnownInv /\ SumInv /\ StateInv' /\ Total \in Nat
      /\ hold \in [Hold -> HoldState] /\ taken \in [Hold -> Nat] /\ charges \in Seq(Nat)
      /\ amount \in Nat /\ amount' \in Nat
      /\ \A w \in Workers : work[w] \in Job /\ Known(work[w])
  BY Grows, StateStep, PaymentAssumption
  DEF AllInv, BooksInv, StateInv, PspInv, RowInv, WorkInv, KnownInv
<1>1. \A h \in Hold : (IF status = "NONE" THEN Total ELSE amount)
                       <= (IF status' = "NONE" THEN Total ELSE amount')
  <2>1. CASE status # "NONE"
    BY <1>0, <2>1 DEF Grown
  <2>2. CASE status = "NONE" /\ status' # "NONE"
    <3>1. amount' = Total
      BY <1>0, <2>2, RowCreated
      DEF Authorize, PreAuthorizeDb, CreatePayment, At, Known
    <3> QED
      BY <1>0, <2>2, <3>1
  <2>3. CASE status' = "NONE"
    BY <1>0, <2>3 DEF Grown
  <2> QED
    BY <2>1, <2>2, <2>3
<1>2. CASE DashboardCapture
  <2>1. PICK g \in Hold :
          /\ hold[g] = "held"
          /\ hold' = [hold EXCEPT ![g] = "captured"]
          /\ taken' = [taken EXCEPT ![g] = IF status = "NONE" THEN Total ELSE amount]
    BY <1>2 DEF DashboardCapture
  <2>2. "capture" \in Dashboard /\ UNCHANGED <<charges, status, amount>>
    BY <1>2 DEF DashboardCapture, accountVars
  <2>3. \A h \in Hold : taken'[h] <= IF status' = "NONE" THEN Total ELSE amount'
    BY <1>0, <2>1, <2>2 DEF TakenInv
  <2>4. TakenHolds' \subseteq TakenHolds \cup {g}
    BY <1>0, <2>1 DEF TakenHolds
  <2>5. \A h \in TakenHolds' : hold'[h] = "captured"
    BY <1>0, <2>1, <2>4 DEF TakenInv, TakenHolds
  <2>6. ASSUME ~Hosted, charges' # <<>>
        PROVE  \E h \in Hold \ TakenHolds' : hold'[h] \in {"captured", "residual"}
    <3>1. PICK h \in Hold \ TakenHolds : hold[h] \in {"captured", "residual"}
      BY <1>0, <2>2, <2>6 DEF TakenInv
    <3>2. h # g /\ h \notin TakenHolds' /\ hold'[h] = hold[h]
      BY <1>0, <2>1, <2>4, <3>1
    <3> QED
      BY <3>1, <3>2
  <2> QED
    BY <2>2, <2>3, <2>5, <2>6 DEF TakenInv
<1>3. CASE UNCHANGED taken
  <2>1. TakenHolds' = TakenHolds /\ ("capture" \notin Dashboard => TakenHolds' = {})
    BY <1>0, <1>3 DEF TakenInv, TakenHolds
  <2>2. \A h \in Hold : taken'[h] <= IF status' = "NONE" THEN Total ELSE amount'
    BY <1>0, <1>1, <1>3 DEF TakenInv
  <2>3. ~Hosted => \A h \in Hold : /\ hold[h] = "captured" => hold'[h] = "captured"
                                   /\ hold[h] = "residual" => hold'[h] \in {"captured", "residual"}
    <3>1. ASSUME ~Hosted, Authorize \/ PspExpires \/ DashboardCapture
          PROVE  \A h \in Hold : /\ hold[h] = "captured" => hold'[h] = "captured"
                                 /\ hold[h] = "residual" => hold'[h] \in {"captured", "residual"}
      BY <1>0, <3>1 DEF Authorize, PspExpires, DashboardCapture
    <3>2. ASSUME ~Hosted, NEW w \in Workers,
                 \/ PreAuthorizePsp(w) \/ ReauthorizePsp(w) \/ CapturePsp(w)
                 \/ VoidResidualPsp(w) \/ VoidPsp(w)
          PROVE  \A h \in Hold : /\ hold[h] = "captured" => hold'[h] = "captured"
                                 /\ hold[h] = "residual" => hold'[h] \in {"captured", "residual"}
      BY <1>0, <3>2 DEF PreAuthorizePsp, ReauthorizePsp, CapturePsp, VoidResidualPsp, VoidPsp,
                        Voided, pspVars
    <3> QED
      BY <3>1, <3>2, Writers
  <2>4. \A h \in TakenHolds' : hold'[h] = "captured"
    BY <1>0, <2>1, <2>3 DEF TakenInv, HostedCapturesAreOurs, TakenHolds
  <2>5. ASSUME ~Hosted, charges' # <<>>
        PROVE  \E h \in Hold \ TakenHolds' : hold'[h] \in {"captured", "residual"}
    <3>1. CASE charges # <<>>
      BY <1>0, <2>1, <2>3, <2>5, <3>1 DEF TakenInv
    <3>2. CASE charges = <<>>
      <4>1. PICK w \in Workers : CapturePsp(w)
        BY <2>5, <3>2, Writers
      <4>2. ~Answered(CaptureKey)
        BY <2>5, <3>2, <4>1 DEF CapturePsp, CaptureKey, pspVars
      <4>3. /\ hold[work[w].ref] = "held"
            /\ hold' = [hold EXCEPT ![work[w].ref] =
                          IF work[w].amt < work[w].seen THEN "residual" ELSE "captured"]
        BY <2>5, <4>1, <4>2 DEF CapturePsp, CaptureKey
      <4>4. work[w].ref \in Hold
        BY <1>0, <4>1 DEF CapturePsp, At, Known, Charging
      <4>5. work[w].ref \notin TakenHolds'
        BY <1>0, <2>1, <4>3 DEF TakenInv
      <4> QED
        BY <1>0, <4>3, <4>4, <4>5
    <3> QED
      BY <3>1, <3>2
  <2> QED
    BY <2>1, <2>2, <2>4, <2>5 DEF TakenInv
<1> QED
  BY <1>2, <1>3, Writers

\* The refunded total has two writers.
LEMMA RefundedBy ==
  ASSUME [Next]_vars
  PROVE  UNCHANGED refunded \/ \E w \in Workers : RefundDb(w) \/ WebhookRefundedDb(w)
<1>1. ASSUME NEW w \in Workers, Handler(w)
      PROVE  UNCHANGED refunded \/ RefundDb(w) \/ WebhookRefundedDb(w)
  BY <1>1
  DEF Handler, GiveUp, PreAuthorizeRead, PreAuthorizePsp, PreAuthorizeDb, CreatePayment,
      CaptureRead, ReauthorizePsp, ReauthorizeDb, CaptureStatus, CaptureStatusFails,
      CapturePsp, CaptureDb, ReconcileDb, FinalizeCapture, VoidResidualPsp, CancellationRead,
      VoidPsp, VoidDb, RefundBookingRead, RefundPsp, WebhookRefundedRead, ApproveExtraRead,
      ApproveExtraDb, accountVars
<1>2. ASSUME Webhook PROVE UNCHANGED refunded
  BY <1>2 DEF Webhook, WebhookCaptured, FinalizeCapture, WebhookAuthExpired,
              WebhookDisputeOpened, WebhookDisputeClosed
<1>3. ASSUME Environment PROVE UNCHANGED refunded
  BY <1>3 DEF Environment, PspExpires, DashboardCapture, DashboardRefund, HoldAges, Authorize,
              CreatePayment, Accept, Complete, NoShow, Cancel, ClaimPayout, SettlePayout,
              accountVars
<1> QED
  BY <1>1, <1>2, <1>3 DEF Next, vars, accountVars

\* Every charge is covered by the row, and booked, returned and reported once.
LEMMA SumStep ==
  ASSUME HostedCapturesAreOurs, AllInv, [Next]_vars
  PROVE  SumInv'
<1>0. /\ Grown /\ SumInv /\ FreshInv /\ KnownInv /\ TakenInv /\ StateInv' /\ Sums \subseteq Nat \ {0}
      /\ charges \in Seq(Nat) /\ amount \in Nat /\ captured \in Nat /\ refunded \in Nat
      /\ charges' \in Seq(Nat) /\ amount' \in Nat /\ reported \subseteq Nat
      /\ charges # <<>> => status # "NONE"
  BY Grows, StateStep, PositiveSums DEF AllInv, BooksInv, StateInv, RowInv, PspInv, FreshInv
<1>1. (\A i \in DOMAIN charges : charges[i] <= amount /\ (Hosted => Due(charges[i], amount)))'
  <2>1. ASSUME NEW sum \in Nat, sum <= amount, Hosted => Due(sum, amount), status # "NONE"
        PROVE  sum <= amount' /\ (Hosted => Due(sum, amount)')
    BY <1>0, <2>1 DEF Grown, Due
  <2>2. \A i \in DOMAIN charges : charges[i] \in Nat /\ status # "NONE"
    BY <1>0
  <2>3. ASSUME NEW i \in DOMAIN charges
        PROVE  /\ charges[i] <= amount'
               /\ Hosted => \/ "completed" \in events' /\ charges[i] = amount'
                            \/ "no_show" \in events' /\ charges[i] = Callout
    <3>1. charges[i] \in Nat /\ charges[i] <= amount /\ (Hosted => Due(charges[i], amount))
      BY <1>0, <2>2 DEF SumInv
    <3>2. amount <= amount' /\ (Hosted => amount' = amount) /\ events \subseteq events'
      BY <1>0, <2>2 DEF Grown
    <3>3. charges[i] <= amount'
      BY <1>0, <3>1, <3>2
    <3>4. ASSUME Hosted
          PROVE  \/ "completed" \in events' /\ charges[i] = amount'
                 \/ "no_show" \in events' /\ charges[i] = Callout
      <4>1. /\ amount' = amount
            /\ \/ "completed" \in events /\ charges[i] = amount
               \/ "no_show" \in events /\ charges[i] = Callout
        BY <3>1, <3>2, <3>4 DEF Due
      <4> QED
        BY <3>2, <4>1
    <3> QED
      BY <3>3, <3>4
  <2>4. CASE UNCHANGED charges
    BY <2>3, <2>4 DEF Due
  <2>5. ASSUME NEW sum \in Nat, charges' = Append(charges, sum), sum <= amount,
               Hosted => Due(sum, amount), status # "NONE"
        PROVE  (\A i \in DOMAIN charges : charges[i] <= amount /\ (Hosted => Due(charges[i], amount)))'
    <3>1. \A i \in DOMAIN charges' : \/ charges'[i] = sum
                                     \/ i \in DOMAIN charges /\ charges'[i] = charges[i]
      BY <1>0, <2>5
    <3> QED
      BY <2>1, <2>3, <2>5, <3>1 DEF Due
  <2> QED
    BY <2>4, <2>5, NewCharge
<1>2. ~Hosted => Len(charges') <= 1 /\ (charges' # <<>> => CaptureKey \in keys')
  <2>1. ~Hosted => Len(charges') <= 1
    BY <1>0, NewCharge DEF SumInv
  <2>2. ASSUME ~Hosted, charges' # <<>> PROVE CaptureKey \in keys'
    <3>1. ASSUME NEW w \in Workers, CapturePsp(w) PROVE CaptureKey \in keys'
      BY <2>2, <3>1 DEF CapturePsp, Answered, Remember, CaptureKey, pspVars
    <3>2. CASE UNCHANGED charges
      BY <1>0, <2>2, <3>2 DEF SumInv, Grown, CaptureKey, Key
    <3> QED
      BY <3>1, <3>2, Writers
  <2> QED
    BY <2>1, <2>2
<1>3. captured' > 0 => captured' \in Sums'
  BY <1>0, BookedSum DEF SumInv, Grown
<1>4. ASSUME OneKindOfOperator
      PROVE  /\ \A r \in reported' : r <= IF captured' > 0 THEN captured' ELSE charges'[1]
             /\ reported' # {} /\ captured' = 0 => charges' # <<>> /\ "refund" \in Dashboard
  <2>0. "refund" \in Dashboard => \A c \in Sums : charges # <<>> /\ c = charges[1]
    <3>1. "refund" \in Dashboard => TakenHolds = {}
      BY <1>0, <1>4 DEF OneKindOfOperator, TakenInv
    <3> QED
      BY <1>0, <3>1, EqualCharges DEF Sums
  <2>1. CASE UNCHANGED reported
    <3>1. CASE captured' = captured
      BY <1>0, <1>4, <2>1, <3>1 DEF SumInv, Grown
    <3>2. CASE captured' # captured
      <4>1. captured = 0 /\ captured' \in Sums
        BY <1>0, <3>2, BookedSum DEF Grown
      <4>2. reported # {} => captured' = charges[1]
        BY <1>0, <1>4, <2>0, <4>1 DEF SumInv
      <4> QED
        BY <1>0, <1>4, <2>1, <4>1, <4>2 DEF SumInv
    <3> QED
      BY <3>1, <3>2
  <2>2. ASSUME NEW a \in Nat, ReturnMoney(a), UNCHANGED <<captured, charges>>,
               captured > 0 \/ "refund" \in Dashboard
        PROVE  /\ \A r \in reported' : r <= IF captured' > 0 THEN captured' ELSE charges'[1]
               /\ reported' # {} /\ captured' = 0 => charges' # <<>> /\ "refund" \in Dashboard
    <3>1. PICK c \in IF captured > 0 THEN {captured} ELSE Sums : returned + a <= c
      BY <2>2 DEF ReturnMoney
    <3>2. c = (IF captured > 0 THEN captured ELSE charges[1]) /\ (captured = 0 => charges # <<>>)
      BY <1>0, <2>0, <2>2, <3>1
    <3>3. returned \in Nat /\ c \in Nat
      BY <1>0, <3>1 DEF AllInv, StateInv, PspInv
    <3>4. a <= c /\ returned + a <= c
      BY <3>1, <3>3
    <3>5. \A r \in reported' : r \in reported \/ r = a \/ r = returned + a
      BY <2>2 DEF ReturnMoney
    <3> QED
      BY <1>0, <1>4, <2>2, <3>2, <3>4, <3>5 DEF SumInv
  <2>3. ASSUME NEW w \in Workers, RefundPsp(w), ~UNCHANGED reported
        PROVE  /\ ReturnMoney(work[w].amt) /\ work[w].amt \in Nat
               /\ captured > 0 /\ UNCHANGED <<captured, charges>>
    <3>1. work[w] \in Job /\ JobOK(work[w]) /\ Known(work[w]) /\ work[w].at = "refund_psp"
      BY <1>0, <2>3 DEF AllInv, StateInv, WorkInv, JobInv, KnownInv, RefundPsp, At
    <3>2. work[w].amt \in Nat /\ work[w].seen \in Nat /\ work[w].amt > 0
      BY <3>1 DEF Job, JobOK
    <3>3. captured > 0
      BY <1>0, <3>1, <3>2 DEF Known
    <3> QED
      BY <2>3, <3>2, <3>3 DEF RefundPsp, accountVars
  <2>4. CASE DashboardRefund
    <3>1. "refund" \in Dashboard /\ UNCHANGED <<captured, charges>>
      BY <2>4 DEF DashboardRefund, accountVars
    <3>2. ASSUME NEW a \in RefundAmounts, ReturnMoney(a) PROVE a \in Nat
      BY PaymentAssumption
    <3>3. ASSUME NEW c \in Sums, NEW figure \in 1..c, reported' = reported \cup {figure}
          PROVE  /\ \A r \in reported' : r <= IF captured' > 0 THEN captured' ELSE charges'[1]
                 /\ reported' # {} /\ captured' = 0 => charges' # <<>> /\ "refund" \in Dashboard
      <4>1. charges # <<>> /\ c = charges[1] /\ c \in Nat /\ (captured > 0 => captured = c)
        BY <1>0, <2>0, <3>1 DEF SumInv
      <4>2. figure <= c
        BY <4>1
      <4> QED
        BY <1>0, <1>4, <3>1, <3>3, <4>1, <4>2 DEF SumInv
    <3> QED
      BY <2>2, <2>4, <3>1, <3>2, <3>3 DEF DashboardRefund
  <2> QED
    BY <2>1, <2>2, <2>3, <2>4, Writers
<1>5. ASSUME OneKindOfOperator
      PROVE  refunded' <= captured'
  <2>1. ASSUME NEW w \in Workers, RefundDb(w) PROVE refunded' <= captured'
    BY <1>0, <2>1 DEF RefundDb, AdvanceRefunded, At, KnownInv, Known
  <2>2. ASSUME NEW w \in Workers, WebhookRefundedDb(w) PROVE refunded' <= captured'
    BY <1>0, <1>5, <2>2 DEF WebhookRefundedDb, AdvanceRefunded, At, KnownInv, Known
  <2>3. ASSUME UNCHANGED refunded PROVE refunded' <= captured'
    <3>1. captured = 0 => refunded = 0
      BY DEF AllInv, LedgerInv, RefundsBooked
    <3>2. captured' \in Nat
      BY <1>0 DEF StateInv, RowInv
    <3> QED
      BY <1>0, <1>5, <2>3, <3>1, <3>2 DEF SumInv, Grown
  <2> QED
    BY <2>1, <2>2, <2>3, RefundedBy
<1> QED
  BY <1>1, <1>2, <1>3, <1>4, <1>5 DEF SumInv, CaptureKey, Key

\* A key is added by the call that bears it, when the PSP had not seen it.
LEMMA NewKey ==
  ASSUME AllInv, [Next]_vars, ~Hosted
  PROVE  /\ CaptureKey \in keys' \ keys =>
              \E w \in Workers : CapturePsp(w) /\ ~Answered(CaptureKey)
         /\ VoidKey \in keys' \ keys =>
              \E w \in Workers : VoidPsp(w) /\ ~Answered(VoidKey)
<1>1. UNCHANGED keys \/ \E w \in Workers : CapturePsp(w) \/ VoidPsp(w) \/ RefundPsp(w)
  BY Writers
<1>2. ASSUME NEW w \in Workers, CapturePsp(w)
      PROVE  keys' \subseteq keys \cup {CaptureKey} /\ (Answered(CaptureKey) => keys' = keys)
  BY <1>2 DEF CapturePsp, Remember, CaptureKey, pspVars
<1>3. ASSUME NEW w \in Workers, VoidPsp(w)
      PROVE  keys' \subseteq keys \cup {VoidKey} /\ (Answered(VoidKey) => keys' = keys)
  BY <1>3 DEF VoidPsp, Remember, VoidKey
<1>4. ASSUME NEW w \in Workers, RefundPsp(w)
      PROVE  keys' \subseteq keys \cup {Key("refund", work[w].seen)}
  BY <1>4 DEF RefundPsp, Remember
<1>5. /\ CaptureKey # VoidKey
      /\ \A w \in Workers : Key("refund", work[w].seen) \notin {CaptureKey, VoidKey}
  BY DEF CaptureKey, VoidKey, Key
<1> QED
  BY <1>1, <1>2, <1>3, <1>4, <1>5

\* A handler captures for a completed job, or the callout fee.
LEMMA CapturedHoldStep ==
  ASSUME AllInv, [Next]_vars, ~Hosted, CaptureKey \in keys'
  PROVE  "completed" \in events' \/ charges'[1] = Callout
<1>0. /\ Grown /\ HoldInv /\ KnownInv /\ charges \in Seq(Nat) /\ work \in [Workers -> Job]
      /\ CaptureKey \in keys => charges # <<>>
  BY Grows DEF AllInv, BooksInv, StateInv, PspInv, ChargeInv, CaptureKey, WorkInv
<1>1. CASE CaptureKey \in keys
  BY <1>0, <1>1 DEF Grown, HoldInv
<1>2. CASE CaptureKey \notin keys
  <2>1. PICK w \in Workers : CapturePsp(w) /\ ~Answered(CaptureKey)
    BY <1>2, NewKey
  <2>2. charges'[1] = work[w].amt
    <3>1. charges = <<>> /\ charges' = Append(charges, work[w].amt)
      BY <2>1, HandlerCharge
    <3>2. work[w].amt \in Nat
      BY <1>0 DEF Job
    <3> QED
      BY <3>1, <3>2
  <2>3. Due(work[w].amt, work[w].seen)
    BY <1>0, <2>1 DEF CapturePsp, At, KnownInv, Known, Charging
  <2>4. "completed" \in events' \/ work[w].amt = Callout
    BY <1>0, <2>3 DEF Due, Grown
  <2> QED
    BY <2>2, <2>4
<1> QED
  BY <1>1, <1>2

\* A hold the service released stays uncharged but for a callout fee, unless the
\* payment was captured first.
LEMMA VoidedHoldStep ==
  ASSUME AllInv, [Next]_vars, ~Hosted, VoidKey \in keys'
  PROVE  /\ "cancelled" \in events'
         /\ captured' > 0 \/ (\A i \in DOMAIN charges : charges[i] = Callout)'
         /\ hold'["reauth"] # "none" \/ (TakenHolds' = {} /\ hold'["auth"] # "held")
<1>0. /\ Grown /\ HoldInv /\ KnownInv /\ FreshInv /\ SumInv /\ LifeInv /\ TakenInv
      /\ charges \in Seq(Nat) /\ captured \in Nat
      /\ hold \in [Hold -> HoldState] /\ work \in [Workers -> Job]
  BY Grows DEF AllInv, BooksInv, StateInv, PspInv, RowInv, WorkInv
<1>1. CASE VoidKey \in keys
  <2>1. /\ "cancelled" \in events /\ status # "NONE"
        /\ captured > 0 \/ \A i \in DOMAIN charges : charges[i] = Callout
        /\ hold["reauth"] # "none" \/ (TakenHolds = {} /\ hold["auth"] # "held")
    BY <1>0, <1>1 DEF HoldInv, FreshInv
  <2>2. "cancelled" \in events' /\ (captured > 0 => captured' > 0)
    BY <1>0, <2>1 DEF Grown
  <2>3. hold'["reauth"] # "none" \/ (TakenHolds' = {} /\ hold'["auth"] # "held")
    <3>1. CASE hold["reauth"] # "none"
      BY <1>0, <3>1 DEF Grown, Hold
    <3>2. CASE hold["reauth"] = "none"
      <4>1. ~DashboardCapture
        BY <2>1, <3>2 DEF DashboardCapture, Hold
      <4> QED
        BY <1>0, <2>1, <3>2, <4>1, Writers DEF Grown, TakenHolds
    <3> QED
      BY <3>1, <3>2
  <2>4. ASSUME captured = 0 PROVE (\A i \in DOMAIN charges : charges[i] = Callout)'
    <3>2. ASSUME NEW w \in Workers, CapturePsp(w), ~UNCHANGED charges
          PROVE  (\A i \in DOMAIN charges : charges[i] = Callout)'
      <4>1. ~Answered(CaptureKey)
        BY <3>2 DEF CapturePsp, CaptureKey, pspVars
      <4>2. charges = <<>> /\ charges' = Append(charges, work[w].amt) /\ work[w].amt \in Nat
        BY <1>0, <3>2, <4>1, HandlerCharge DEF Job
      <4>3. Due(work[w].amt, work[w].seen)
        BY <1>0, <3>2 DEF CapturePsp, At, KnownInv, Known, Charging
      <4>4. work[w].amt = Callout
        BY <1>0, <2>1, <2>4, <4>3 DEF Due, LifeInv
      <4> QED
        BY <4>2, <4>4
    <3> QED
      BY <2>1, <2>4, <3>2, Writers
  <2> QED
    BY <1>0, <2>2, <2>3, <2>1, <2>4
<1>2. CASE VoidKey \notin keys
  <2>1. PICK w \in Workers : VoidPsp(w) /\ ~Answered(VoidKey)
    BY <1>2, NewKey
  <2>2. "cancelled" \in events /\ work[w].ref \in Hold
    BY <1>0, <2>1 DEF VoidPsp, At, KnownInv, Known
  <2>3. /\ hold[work[w].ref] \in {"held", "residual"}
        /\ hold' = [hold EXCEPT ![work[w].ref] = Voided(@)]
        /\ UNCHANGED <<charges, taken, events, captured>>
    BY <2>1 DEF VoidPsp, VoidKey, bookingVars, accountVars
  <2>4. hold'["reauth"] # "none" \/ (TakenHolds' = {} /\ hold'["auth"] # "held")
    <3>1. CASE work[w].ref = "reauth"
      BY <1>0, <2>3, <3>1 DEF Voided, Hold
    <3>2. CASE work[w].ref = "auth"
      <4>1. TakenHolds' = TakenHolds /\ "auth" \notin TakenHolds /\ TakenHolds \subseteq Hold
        BY <1>0, <2>3, <3>2 DEF TakenHolds, TakenInv
      <4>2. "reauth" \in TakenHolds => hold'["reauth"] # "none"
        BY <1>0, <2>3, <3>2 DEF TakenInv
      <4>3. hold'["auth"] # "held"
        BY <1>0, <2>3, <3>2 DEF Voided, Hold
      <4> QED
        BY <4>1, <4>2, <4>3 DEF Hold
    <3> QED
      BY <2>2, <3>1, <3>2 DEF Hold
  <2>5. captured > 0 \/ \A i \in DOMAIN charges : charges[i] = Callout
    <3>1. charges # <<>> => CaptureKey \in keys
      BY <1>0 DEF SumInv
    <3>2. CASE charges # <<>> /\ CaptureKey \in keys
      <4>1. "completed" \in events \/ charges[1] = Callout
        BY <1>0, <3>2 DEF HoldInv
      <4>2. "completed" \in events => captured > 0
        BY <1>0, <2>2 DEF LifeInv
      <4> QED
        BY <4>1, <4>2, EqualCharges
    <3>3. CASE charges = <<>>
      BY <3>3
    <3> QED
      BY <3>1, <3>2, <3>3
  <2> QED
    BY <2>2, <2>3, <2>4, <2>5
<1> QED
  BY <1>1, <1>2

\* A row turns REFUNDED without a capture by the end of a cancellation alone.
LEMMA ReleasedBy ==
  ASSUME [Next]_vars, status' = "REFUNDED", status \notin Refundable \cup {"REFUNDED"}
  PROVE  \E w \in Workers : VoidDb(w)
<1>1. ASSUME NEW w \in Workers, Handler(w) PROVE VoidDb(w)
  BY <1>1
  DEF Handler, GiveUp, PreAuthorizeRead, PreAuthorizePsp, PreAuthorizeDb, CreatePayment,
      CaptureRead, ReauthorizePsp, ReauthorizeDb, CaptureStatus, CaptureStatusFails, CapturePsp,
      CaptureDb, ReconcileDb, FinalizeCapture, VoidResidualPsp, CancellationRead, VoidPsp,
      RefundBookingRead, RefundPsp, RefundDb, AdvanceRefunded, WebhookRefundedRead,
      WebhookRefundedDb, ApproveExtraRead, ApproveExtraDb, accountVars
<1>2. ~Webhook
  BY DEF Webhook, WebhookCaptured, FinalizeCapture, WebhookAuthExpired, WebhookDisputeOpened,
         WebhookDisputeClosed
<1>3. ~Environment
  BY DEF Environment, PspExpires, DashboardCapture, DashboardRefund, HoldAges, Authorize,
         CreatePayment, Accept, Complete, NoShow, Cancel, ClaimPayout, SettlePayout, accountVars
<1> QED
  BY <1>1, <1>2, <1>3 DEF Next, vars, accountVars

\* A hold is called released after the PSP was asked to release it.
LEMMA ReleasedStep ==
  ASSUME AllInv, [Next]_vars, ~Hosted, status' = "REFUNDED", captured' = 0
  PROVE  VoidKey \in keys'
<1>0. Grown /\ HoldInv /\ KnownInv /\ captured \in Nat
  BY Grows DEF AllInv, BooksInv, StateInv, RowInv
<1>1. captured = 0 /\ status \notin Refundable
  BY <1>0 DEF Grown, AllInv, LedgerInv, CaptureBooked, Refundable, Settled
<1>2. CASE status = "REFUNDED"
  BY <1>0, <1>1, <1>2 DEF HoldInv, Grown
<1>3. CASE status # "REFUNDED"
  <2>1. PICK w \in Workers : VoidDb(w)
    BY <1>1, <1>3, ReleasedBy
  <2> QED
    BY <1>0, <2>1 DEF VoidDb, At, KnownInv, Known, Grown
<1> QED
  BY <1>2, <1>3

\* Whoever charged or released first, the holds keep to it.
LEMMA HoldStep ==
  ASSUME AllInv, [Next]_vars
  PROVE  HoldInv'
<1> SUFFICES ASSUME ~Hosted
             PROVE  HoldInv'
  BY DEF HoldInv
<1> QED
  BY CapturedHoldStep, VoidedHoldStep, ReleasedStep
  DEF HoldInv, CaptureKey, VoidKey, Key

\* What a job knows stays true whatever the others do,
LEMMA StillKnown ==
  ASSUME AllInv, Grown, StateInv', NEW job \in Job, JobOK(job), Known(job)
  PROVE  Known(job)'
<1>0. /\ amount \in Nat /\ amount' \in Nat /\ captured \in Nat
      /\ job.amt \in Nat /\ job.seen \in Nat
  BY DEF AllInv, StateInv, RowInv, Job
<1>1. /\ job.at \notin {"idle", "preauth_psp", "preauth_db"} => status' # "NONE"
      /\ job.at = "preauth_db" => hold'["auth"] # "none"
      /\ job.at \in {"void_psp", "void_db"} => "cancelled" \in events' /\ job.amt <= amount'
      /\ job.at = "void_db" /\ ~Hosted => VoidKey \in keys'
  BY <1>0 DEF Known, Grown, Hold
<1>2. job.at \in Charging \cup {"reconcile_db"} =>
        /\ job.amt <= job.seen /\ job.seen <= amount' /\ (Hosted => job.seen = amount')
        /\ Due(job.amt, job.seen)'
  <2> HAVE job.at \in Charging \cup {"reconcile_db"}
  <2>1. /\ job.amt <= job.seen /\ job.seen <= amount /\ (Hosted => job.seen = amount)
        /\ Due(job.amt, job.seen) /\ status # "NONE"
    BY DEF Known, Charging
  <2>2. events \subseteq events' /\ amount <= amount' /\ (Hosted => amount' = amount)
    BY <2>1 DEF Grown
  <2>3. Due(job.amt, job.seen)'
    BY <2>1, <2>2 DEF Due
  <2> QED
    BY <1>0, <2>1, <2>2, <2>3
<1>3. job.at \in {"capture_db", "reconcile_db"} => charges' # <<>> /\ job.amt = charges'[1]
  BY DEF Known, Grown
<1>4. /\ job.at \in {"refund_psp", "refund_db"} => job.seen + job.amt <= captured'
      /\ job.at = "settle_db" => captured' > 0 /\ (OneKindOfOperator => job.amt <= captured')
  BY <1>0 DEF Known, Grown, JobOK
<1> QED
  BY <1>1, <1>2, <1>3, <1>4 DEF Known, VoidKey, Key, Charging

\* so that a step need only answer for the job it moves,
LEMMA KnownElsewhere ==
  ASSUME AllInv, Grown, StateInv', NEW w \in Workers,
         \A v \in Workers \ {w} : work'[v] = work[v], Known(work[w])'
  PROVE  KnownInv'
<1>0. /\ work \in [Workers -> Job] /\ KnownInv
      /\ \A v \in Workers : JobOK(work[v])
  BY DEF AllInv, BooksInv, StateInv, WorkInv, JobInv
<1>1. ASSUME NEW v \in Workers \ {w} PROVE Known(work[v])'
  <2>1. PICK other \in Job : work[v] = other /\ work'[v] = other
    BY <1>0
  <2>2. JobOK(other) /\ Known(other)
    BY <1>0, <2>1 DEF KnownInv, Known
  <2>3. Known(other)'
    BY <2>2, StillKnown
  <2> QED
    BY <2>1, <2>3 DEF Known
<1> QED
  BY <1>1 DEF KnownInv

\* for a job that ends, nothing,
LEMMA KnownEnds ==
  ASSUME AllInv, Grown, StateInv', NEW w \in Workers, Finish(w)
  PROVE  KnownInv'
<1>1. work'[w] = Idle /\ \A v \in Workers \ {w} : work'[v] = work[v]
  BY DEF AllInv, StateInv, WorkInv, Finish
<1>2. Known(work[w])'
  BY <1>1 DEF Known, Idle, Charging
<1> QED
  BY <1>1, <1>2, KnownElsewhere

\* and for one that goes on, what the next step asks in addition.
LEMMA KnownGoesOn ==
  ASSUME AllInv, Grown, StateInv', NEW w \in Workers, NEW point \in Point, Goto(w, point),
         \/ point \in {"preauth_db", "reconcile_db", "capture_db", "void_db"}
         \/ point = "capture_psp" /\ work[w].at \in Charging
         \/ point = "residual_psp" /\ work[w].at = "capture_db"
         \/ point = "refund_db" /\ work[w].at = "refund_psp",
         point = "preauth_db" => work[w].at = "preauth_psp" /\ hold'["auth"] # "none",
         point \in {"capture_db", "reconcile_db"} =>
           work[w].at \in Charging /\ charges' # <<>> /\ work[w].amt = charges'[1],
         point = "void_db" => work[w].at = "void_psp" /\ (~Hosted => VoidKey \in keys')
  PROVE  KnownInv'
<1>0. work \in [Workers -> Job] /\ Known(work[w]) /\ JobOK(work[w])
  BY DEF AllInv, BooksInv, StateInv, WorkInv, JobInv, KnownInv
<1>1. PICK old \in Job : work[w] = old
  BY <1>0
<1>2. Known(old)'
  <2>1. Known(old) /\ JobOK(old)
    BY <1>0, <1>1 DEF Known
  <2> QED
    BY <2>1, StillKnown
<1>3. /\ work'[w] = [old EXCEPT !.at = point]
      /\ \A v \in Workers \ {w} : work'[v] = work[v]
  BY <1>0, <1>1 DEF Goto
<1>4. /\ work'[w].at = point /\ work'[w].ref = old.ref
      /\ work'[w].amt = old.amt /\ work'[w].seen = old.seen
  BY <1>3 DEF Job
<1>5. Known(work[w])'
  BY <1>1, <1>2, <1>4 DEF Known, Charging, VoidKey, Key
<1> QED
  BY <1>3, <1>5, KnownElsewhere

\* A job taken up knows the row it has just read.
LEMMA KnownStarts ==
  ASSUME AllInv, Grown, StateInv', NEW w \in Workers,
         \/ PreAuthorizeRead(w) \/ CaptureRead(w) \/ CancellationRead(w)
         \/ RefundBookingRead(w) \/ WebhookRefundedRead(w) \/ ApproveExtraRead(w)
  PROVE  KnownInv'
<1>0. /\ work \in [Workers -> Job] /\ FreshInv /\ SumInv
      /\ amount \in Nat /\ captured \in Nat /\ refunded \in Nat
      /\ UNCHANGED <<status, amount, captured, refunded, ref, aged, events, hold, charges, keys>>
  BY DEF AllInv, BooksInv, StateInv, WorkInv, RowInv, PreAuthorizeRead, CaptureRead,
         CancellationRead, RefundBookingRead, WebhookRefundedRead, ApproveExtraRead,
         accountVars, rowVars, bookingVars, pspVars
<1>1. \A v \in Workers \ {w} : work'[v] = work[v]
  BY <1>0 DEF PreAuthorizeRead, CaptureRead, CancellationRead, RefundBookingRead,
              WebhookRefundedRead, ApproveExtraRead, Start
<1>2. CASE PreAuthorizeRead(w)
  <2>1. work'[w] = [at |-> "preauth_psp", ref |-> "none", amt |-> Total, seen |-> 0]
    BY <1>0, <1>2 DEF PreAuthorizeRead, Start
  <2> QED
    BY <2>1, <1>1, KnownElsewhere DEF Known, Charging
<1>3. CASE CaptureRead(w)
  <2>1. PICK c \in {amount : e \in events \cap {"completed"}} \cup {Callout : e \in events \cap {"no_show"}} :
          /\ c <= amount
          /\ \/ aged /\ Start(w, "reauth_psp", ref, c, amount)
             \/ Hosted /\ Start(w, "capture_status", ref, c, amount)
             \/ Start(w, "capture_psp", ref, c, amount)
    BY <1>3 DEF CaptureRead
  <2>2. /\ work'[w].at \in {"reauth_psp", "capture_status", "capture_psp"}
        /\ work'[w].ref = ref /\ work'[w].amt = c /\ work'[w].seen = amount
        /\ work'[w].at = "reauth_psp" => aged
        /\ work'[w].at = "capture_status" => Hosted
    BY <1>0, <2>1 DEF Start
  <2>3. Due(c, amount)'
    BY <1>0, <2>1 DEF Due
  <2>4. status = "PRE_AUTHORIZED" /\ ref \in Hold
    BY <1>0, <1>3 DEF CaptureRead, FreshInv
  <2>5. Known(work[w])'
    BY <1>0, <2>1, <2>2, <2>3, <2>4 DEF Known, Charging, Due
  <2> QED
    BY <2>5, <1>1, KnownElsewhere
<1>4. CASE CancellationRead(w)
  <2>1. \/ work'[w] = [at |-> "void_psp", ref |-> ref, amt |-> amount, seen |-> 0]
        \/ /\ status \in Refundable
           /\ work'[w] = [at |-> "refund_psp", ref |-> "none",
                          amt |-> captured - refunded, seen |-> refunded]
    BY <1>0, <1>4 DEF CancellationRead, Start
  <2>2. "cancelled" \in events /\ status # "NONE" /\ ref \in Hold
    BY <1>0, <1>4 DEF CancellationRead, Refundable, FreshInv
  <2>3. refunded + (captured - refunded) <= captured
    BY <1>0
  <2>4. Known(work[w])'
    BY <1>0, <2>1, <2>2, <2>3 DEF Known, Charging
  <2> QED
    BY <2>4, <1>1, KnownElsewhere
<1>5. CASE RefundBookingRead(w)
  <2>1. PICK a \in RefundAmounts :
          /\ a <= captured - refunded
          /\ work'[w] = [at |-> "refund_psp", ref |-> "none", amt |-> a, seen |-> refunded]
    BY <1>0, <1>5 DEF RefundBookingRead, Start
  <2>2. status # "NONE" /\ refunded + a <= captured
    BY <1>0, <1>5, <2>1, PaymentAssumption DEF RefundBookingRead, Refundable
  <2>3. Known(work[w])'
    BY <1>0, <2>1, <2>2 DEF Known, Charging
  <2> QED
    BY <2>3, <1>1, KnownElsewhere
<1>6. CASE WebhookRefundedRead(w)
  <2>1. PICK settled \in reported :
          work'[w] = [at |-> "settle_db", ref |-> "none", amt |-> settled, seen |-> refunded]
    BY <1>0, <1>6 DEF WebhookRefundedRead, Start
  <2>2. captured > 0 /\ (OneKindOfOperator => settled <= captured)
    BY <1>0, <1>6 DEF WebhookRefundedRead, SumInv
  <2>3. status # "NONE"
    BY <1>0, <2>2 DEF AllInv, LedgerInv, CaptureBooked, Settled
  <2>4. Known(work[w])'
    BY <1>0, <2>1, <2>2, <2>3 DEF Known, Charging
  <2> QED
    BY <2>4, <1>1, KnownElsewhere
<1>7. CASE ApproveExtraRead(w)
  <2>1. PICK a \in Extra :
          work'[w] = [at |-> "widen_db", ref |-> "none", amt |-> a, seen |-> 0]
    BY <1>0, <1>7 DEF ApproveExtraRead, Start
  <2>2. ~Hosted /\ status # "NONE" /\ a > 0
    BY <1>7, PaymentAssumption DEF ApproveExtraRead
  <2>3. Known(work[w])'
    BY <1>0, <2>1, <2>2 DEF Known, Charging
  <2> QED
    BY <2>3, <1>1, KnownElsewhere
<1> QED
  BY <1>2, <1>3, <1>4, <1>5, <1>6, <1>7

\* Every handler knows what it needs of the row it read when it writes.
LEMMA KnownStep ==
  ASSUME HostedCapturesAreOurs, AllInv, [Next]_vars
  PROVE  KnownInv'
<1>0. /\ Grown /\ StateInv' /\ KnownInv /\ work \in [Workers -> Job]
      /\ charges \in Seq(Nat) /\ hold \in [Hold -> HoldState]
  BY Grows, StateStep DEF AllInv, BooksInv, StateInv, PspInv, WorkInv
<1>1. ASSUME UNCHANGED work PROVE KnownInv'
  <2>1. ASSUME NEW w \in Workers PROVE Known(work[w])'
    <3>1. PICK job \in Job : work[w] = job /\ work'[w] = job
      BY <1>0, <1>1
    <3>2. JobOK(job) /\ Known(job)
      BY <1>0, <3>1 DEF AllInv, StateInv, WorkInv, JobInv, KnownInv, Known
    <3>3. Known(job)'
      BY <1>0, <3>2, StillKnown
    <3> QED
      BY <3>1, <3>3 DEF Known
  <2> QED
    BY <2>1 DEF KnownInv
<1>2. ASSUME NEW w \in Workers,
             \/ PreAuthorizeRead(w) \/ CaptureRead(w) \/ CancellationRead(w)
             \/ RefundBookingRead(w) \/ WebhookRefundedRead(w) \/ ApproveExtraRead(w)
      PROVE  KnownInv'
  BY <1>0, <1>2, KnownStarts
<1>3. ASSUME NEW w \in Workers, Finish(w) PROVE KnownInv'
  BY <1>0, <1>3, KnownEnds
<1>4. ASSUME NEW w \in Workers,
             \/ GiveUp(w) \/ PreAuthorizeDb(w) \/ ReconcileDb(w) \/ VoidResidualPsp(w)
             \/ VoidDb(w) \/ RefundDb(w) \/ WebhookRefundedDb(w) \/ ApproveExtraDb(w)
      PROVE  KnownInv'
  BY <1>3, <1>4 DEF GiveUp, PreAuthorizeDb, ReconcileDb, VoidResidualPsp, VoidDb, RefundDb,
                    WebhookRefundedDb, ApproveExtraDb
<1>5. ASSUME NEW w \in Workers, PreAuthorizePsp(w) PROVE KnownInv'
  <2>1. hold'["auth"] # "none" /\ work[w].at = "preauth_psp"
    BY <1>0, <1>5 DEF PreAuthorizePsp, At, Hold
  <2> QED
    BY <1>0, <1>5, <2>1, KnownGoesOn DEF PreAuthorizePsp, Point
<1>6. ASSUME NEW w \in Workers, ReauthorizePsp(w) PROVE KnownInv'
  <2>1. PICK old \in Job : work[w] = old
    BY <1>0
  <2>2. Known(old) /\ JobOK(old) /\ old.at = "reauth_psp"
    BY <1>0, <1>6, <2>1 DEF AllInv, StateInv, WorkInv, JobInv, KnownInv, Known,
                            ReauthorizePsp, At
  <2>3. Known(old)'
    BY <1>0, <2>2, StillKnown
  <2>4. /\ work'[w] = [old EXCEPT !.at = "reauth_db", !.ref = "reauth"]
        /\ \A v \in Workers \ {w} : work'[v] = work[v]
    BY <1>0, <1>6, <2>1 DEF ReauthorizePsp
  <2>5. /\ work'[w].at = "reauth_db" /\ work'[w].ref = "reauth"
        /\ work'[w].amt = old.amt /\ work'[w].seen = old.seen
    BY <2>4 DEF Job
  <2>6. Known(work[w])'
    BY <2>2, <2>3, <2>5 DEF Known, Charging, Hold
  <2> QED
    BY <1>0, <2>4, <2>6, KnownElsewhere
<1>7. ASSUME NEW w \in Workers, ReauthorizeDb(w) \/ CaptureStatusFails(w) PROVE KnownInv'
  <2>1. Goto(w, "capture_psp") /\ work[w].at \in Charging
    BY <1>7 DEF ReauthorizeDb, CaptureStatusFails, At, Charging
  <2> QED
    BY <1>0, <2>1, KnownGoesOn DEF Point
<1>8. ASSUME NEW w \in Workers, CaptureStatus(w) PROVE KnownInv'
  <2>1. work[w].at \in Charging /\ UNCHANGED charges
    BY <1>8 DEF CaptureStatus, At, Charging, pspVars
  <2>0. Sums = {} <=> charges = <<>>
    <3>1. Hosted /\ TakenHolds = {}
      BY <1>0, <1>8 DEF CaptureStatus, At, KnownInv, Known, AllInv, BooksInv, TakenInv,
                        HostedCapturesAreOurs
    <3> QED
      BY <1>0, <3>1 DEF Sums
  <2>2. CASE charges = <<>>
    <3>1. Goto(w, "capture_psp")
      BY <1>8, <2>0, <2>2 DEF CaptureStatus
    <3> QED
      BY <1>0, <2>1, <3>1, KnownGoesOn DEF Point
  <2>3. CASE charges # <<>>
    <3>1. Goto(w, "reconcile_db")
      BY <1>8, <2>0, <2>3 DEF CaptureStatus
    <3>2. Hosted /\ Due(work[w].amt, amount)
      BY <1>0, <1>8 DEF CaptureStatus, At, KnownInv, Known, Charging
    <3>3. 1 \in DOMAIN charges /\ Due(charges[1], amount) /\ LifeInv
      BY <1>0, <2>3, <3>2 DEF AllInv, BooksInv, SumInv
    <3>4. work[w].amt = charges[1]
      BY <3>2, <3>3 DEF Due, LifeInv
    <3> QED
      BY <1>0, <2>1, <2>3, <3>1, <3>4, KnownGoesOn DEF Point
  <2> QED
    BY <2>2, <2>3
<1>9. ASSUME NEW w \in Workers, CapturePsp(w) PROVE KnownInv'
  <2>1. work[w].at \in Charging
    BY <1>9 DEF CapturePsp, At, Charging
  <2>2. CASE Answered(CaptureKey)
    <3>1. charges # <<>> /\ charges[1] \in Nat /\ charges' = charges
      BY <1>0, <1>9, <2>2 DEF AllInv, StateInv, PspInv, ChargeInv, Answered, CaptureKey, CapturePsp, pspVars
    <3>2. work' = [work EXCEPT ![w].at = "capture_db", ![w].amt = charges[1]]
      BY <1>9, <2>2 DEF CapturePsp, CaptureKey
    <3>3. PICK old \in Job : work[w] = old
      BY <1>0
    <3>4. Known(old) /\ JobOK(old) /\ old.at = "capture_psp"
      BY <1>0, <1>9, <3>3 DEF AllInv, StateInv, WorkInv, JobInv, KnownInv, Known,
                              CapturePsp, At
    <3>5. Known(old)'
      BY <1>0, <3>4, StillKnown
    <3>6. /\ work'[w] = [old EXCEPT !.at = "capture_db", !.amt = charges[1]]
          /\ \A v \in Workers \ {w} : work'[v] = work[v]
      BY <1>0, <3>2, <3>3
    <3>7. /\ work'[w].at = "capture_db" /\ work'[w].ref = old.ref
          /\ work'[w].amt = charges[1]
      BY <3>6 DEF Job
    <3>8. Known(work[w])'
      BY <3>1, <3>4, <3>5, <3>7 DEF Known, Charging
    <3> QED
      BY <1>0, <3>6, <3>8, KnownElsewhere
  <2>3. CASE ~Answered(CaptureKey)
    <3>1. Goto(w, "capture_db")
      BY <1>9, <2>3 DEF CapturePsp, CaptureKey
    <3>2. /\ charges' = Append(charges, work[w].amt) /\ work[w].amt \in Nat
          /\ charges # <<>> => work[w].amt = charges[1]
      BY <1>0, <1>9, <2>3, HandlerCharge DEF Job
    <3>3. charges' # <<>> /\ work[w].amt = charges'[1]
      BY <1>0, <3>2
    <3> QED
      BY <1>0, <2>1, <3>1, <3>3, KnownGoesOn DEF Point
  <2> QED
    BY <2>2, <2>3
<1>10. ASSUME NEW w \in Workers, CaptureDb(w) PROVE KnownInv'
  <2>1. Finish(w) \/ (Goto(w, "residual_psp") /\ work[w].at = "capture_db")
    BY <1>10 DEF CaptureDb, At
  <2> QED
    BY <1>0, <1>3, <2>1, KnownGoesOn DEF Point
<1>11. ASSUME NEW w \in Workers, VoidPsp(w) PROVE KnownInv'
  <2>1. Goto(w, "void_db") /\ work[w].at = "void_psp"
    BY <1>11 DEF VoidPsp, At
  <2>2. ~Hosted => VoidKey \in keys'
    BY <1>11 DEF VoidPsp, Answered, Remember, VoidKey
  <2> QED
    BY <1>0, <2>1, <2>2, KnownGoesOn DEF Point
<1>12. ASSUME NEW w \in Workers, RefundPsp(w) PROVE KnownInv'
  <2>1. Goto(w, "refund_db") /\ work[w].at = "refund_psp"
    BY <1>12 DEF RefundPsp, At
  <2> QED
    BY <1>0, <2>1, KnownGoesOn DEF Point
<1> QED
  BY <1>1, <1>2, <1>4, <1>5, <1>6, <1>7, <1>8, <1>9, <1>10, <1>11, <1>12, Writers DEF Handler

\* Before anything has happened the books are empty,
LEMMA BooksInit == Init => BooksInv
<1> SUFFICES ASSUME Init PROVE BooksInv
  OBVIOUS
<1>1. LifeInv /\ FreshInv /\ HoldInv
  BY DEF Init, LifeInv, FreshInv, HoldInv
<1>2. SumInv /\ TakenInv
  BY PaymentAssumption DEF Init, SumInv, TakenInv, TakenHolds
<1>3. KnownInv
  BY DEF Init, KnownInv, Known, Idle, Charging
<1> QED
  BY <1>1, <1>2, <1>3 DEF BooksInv

\* and all of the invariant is inductive.
LEMMA AllInit == Init => AllInv
BY StateInit, LedgerInit, BooksInit DEF AllInv

LEMMA AllStep ==
  ASSUME HostedCapturesAreOurs, AllInv, [Next]_vars
  PROVE  AllInv'
<1>1. StateInv' /\ LedgerInv'
  BY StateStep, MoneyMoves, LedgerStep DEF AllInv
<1>2. BooksInv'
  BY LifeStep, FreshStep, TakenStep, SumStep, HoldStep, KnownStep DEF BooksInv
<1> QED
  BY <1>1, <1>2 DEF AllInv

\* The invariant holds at all times,
LEMMA Invariance ==
  ASSUME HostedCapturesAreOurs
  PROVE  Spec => []AllInv
<1>1. Init => AllInv
  BY AllInit
<1>2. AllInv /\ [Next]_vars => AllInv'
  BY AllStep
<1> QED
  BY <1>1, <1>2, PTL DEF Spec

\* and says of the one charge of instant mode, and of what operators took besides,
\* what the properties ask.
LEMMA OneCharge ==
  ASSUME ~Hosted, AllInv
  PROVE  ChargedOnce /\ BooksMatchPsp /\ VoidedNotCharged
<1>0. /\ SumInv /\ HoldInv /\ TakenInv /\ FreshInv /\ charges \in Seq(Nat)
      /\ taken \in [Hold -> Nat] /\ amount \in Nat /\ captured \in Nat
  BY DEF AllInv, BooksInv, StateInv, PspInv, RowInv
<1>1. /\ charges = <<>> => OwnCharges = 0
      /\ charges # <<>> => /\ 1 \in DOMAIN charges /\ OwnCharges = charges[1]
                          /\ \A i \in DOMAIN charges : i = 1
  <2>1. PICK n \in Nat : Len(charges) = n /\ n <= 1
    BY <1>0 DEF SumInv
  <2>2. Len(charges) = 0 \/ Len(charges) = 1
    <3>1. n = 0 \/ n = 1
      BY <2>1
    <3> QED
      BY <2>1, <3>1
  <2>3. charges = <<>> <=> Len(charges) = 0
    BY <1>0
  <2> QED
    BY <1>0, <2>2, <2>3 DEF OwnCharges
<1>2. status # "NONE" => OwnCharges <= amount
  BY <1>0, <1>1 DEF SumInv
<1>3. VoidedNotCharged
  BY <1>0 DEF HoldInv, VoidedNotCharged
<1>4. TakenHolds \subseteq Hold /\ \A h \in Hold \ TakenHolds : taken[h] = 0
  BY <1>0 DEF TakenHolds
<1>5. CASE TakenHolds = {}
  <2>1. AllCharged = OwnCharges
    BY <1>0, <1>1, <1>4, <1>5 DEF AllCharged, Hold
  <2>2. Sums \subseteq {OwnCharges}
    BY <1>1, <1>5 DEF Sums
  <2> QED
    BY <1>0, <1>2, <1>3, <2>1, <2>2 DEF SumInv, ChargedOnce, BooksMatchPsp
<1>6. ASSUME NEW h \in Hold, TakenHolds = {h}, charges = <<>>
      PROVE  ChargedOnce /\ BooksMatchPsp /\ VoidedNotCharged
  <2>1. AllCharged = taken[h]
    BY <1>0, <1>1, <1>4, <1>6 DEF AllCharged, Hold
  <2>2. Sums = {taken[h]}
    BY <1>6 DEF Sums
  <2>3. status # "NONE" => taken[h] <= amount
    BY <1>0 DEF TakenInv
  <2> QED
    BY <1>0, <1>2, <1>3, <2>1, <2>2, <2>3 DEF SumInv, ChargedOnce, BooksMatchPsp
<1>7. ASSUME NEW h \in TakenHolds, charges # <<>> \/ TakenHolds # {h}
      PROVE  ChargedOnce /\ BooksMatchPsp /\ VoidedNotCharged
  <2>1. PICK g \in Hold : g # h /\ hold[g] \in {"captured", "residual"}
    BY <1>0, <1>4, <1>7 DEF TakenInv
  <2>2. ChargedOnBoth
    BY <1>0, <1>4, <2>1 DEF ChargedOnBoth, TakenInv, Hold
  <2> QED
    BY <1>0, <1>2, <1>3, <2>2 DEF SumInv, ChargedOnce, BooksMatchPsp
<1> QED
  BY <1>4, <1>5, <1>6, <1>7

\* The service never records more refunded than was captured, for every number of
\* concurrent refunds, their webhooks and refunds made at the PSP, as long as
\* operators do not also capture there.
THEOREM RefundsBounded ==
  ASSUME HostedCapturesAreOurs, OneKindOfOperator
  PROVE  Spec => []RefundWithinCapture
<1>1. AllInv => RefundWithinCapture
  BY DEF AllInv, BooksInv, SumInv, RefundWithinCapture
<1> QED
  BY <1>1, Invariance, PTL

\* In instant mode the service charges the customer at most what the row holds,
\* however many handlers retry or renew the hold; with what operators take it is
\* still at most that, unless an operator took one hold and the other was charged.
THEOREM NeverOvercharged ==
  ASSUME ~Hosted
  PROVE  Spec => []ChargedOnce
<1>1. HostedCapturesAreOurs
  BY DEF HostedCapturesAreOurs
<1>2. AllInv => ChargedOnce
  BY OneCharge
<1> QED
  BY <1>1, <1>2, Invariance, PTL

\* What the row calls captured is then what the PSP charged: in all, or one of the
\* two charges when an operator took one hold and the other was charged too,
THEOREM BookedIsCharged ==
  ASSUME ~Hosted
  PROVE  Spec => []BooksMatchPsp
<1>1. HostedCapturesAreOurs
  BY DEF HostedCapturesAreOurs
<1>2. AllInv => BooksMatchPsp
  BY OneCharge
<1> QED
  BY <1>1, <1>2, Invariance, PTL

\* and a hold that it calls released was not charged, but for a callout fee; an
\* operator can have charged one behind it only when the hold was renewed.
THEOREM ReleasedIsNotCharged ==
  ASSUME ~Hosted
  PROVE  Spec => []VoidedNotCharged
<1>1. HostedCapturesAreOurs
  BY DEF HostedCapturesAreOurs
<1>2. AllInv => VoidedNotCharged
  BY OneCharge
<1> QED
  BY <1>1, <1>2, Invariance, PTL

-----------------------------------------------------------------------------
(* The handlers implement the account *)

\* Approved work widens an authorised row, by something.
LEMMA WidenedBy ==
  ASSUME AllInv, [Next]_vars, UNCHANGED status, amount' # amount
  PROVE  status # "NONE"
<1>1. ASSUME NEW w \in Workers, ApproveExtraDb(w) PROVE status # "NONE"
  BY <1>1 DEF AllInv, BooksInv, KnownInv, Known, ApproveExtraDb, At
<1>2. ~Authorize /\ \A w \in Workers : ~PreAuthorizeDb(w)
  BY DEF Authorize, PreAuthorizeDb, CreatePayment
<1> QED
  BY <1>1, <1>2, Writers

\* Every step is one transition of the account, or leaves it alone.
LEMMA AccountStep ==
  ASSUME HostedCapturesAreOurs, OneKindOfOperator, AllInv, [Next]_vars
  PROVE  [Account!Next]_(Account!accountVars)
<1>0. /\ Money /\ SumInv' /\ KnownInv
      /\ ledger \in [LedgerType -> Nat] /\ payout \in [status : PayoutStatus, amount : Nat]
      /\ amount \in Nat /\ captured \in Nat /\ refunded \in Nat
  BY MoneyMoves, SumStep DEF AllInv, BooksInv, StateInv, RowInv
<1>1. CASE UNCHANGED accountVars
  BY <1>1 DEF accountVars, Account!accountVars
<1>2. ASSUME NEW a \in Nat, Account!Hold(a) PROVE Account!Next
  BY <1>2 DEF Account!Next, Account!Hold
<1>3. ASSUME NEW a \in Nat, Widened(a) PROVE [Account!Next]_(Account!accountVars)
  <2>1. CASE a = 0
    BY <1>0, <1>3, <2>1 DEF Widened, Account!accountVars
  <2>2. CASE a # 0
    <3>1. status # "NONE"
      BY <1>0, <1>3, <2>2, WidenedBy DEF Widened
    <3>2. a > 0 /\ amount' - amount = a
      BY <1>0, <1>3, <2>2 DEF Widened
    <3>3. Account!Widen(a)
      BY <1>3, <3>1, <3>2 DEF Widened, Account!Widen
    <3> QED
      BY <3>2, <3>3 DEF Account!Next
  <2> QED
    BY <2>1, <2>2
<1>4. ASSUME NEW a \in Nat, Released(a) PROVE Account!Next
  <2>1. PICK w \in Workers : VoidDb(w)
    BY <1>4, ReleasedBy DEF Released, Refundable
  <2>2. work[w].amt <= amount /\ work[w].amt \in Nat
    BY <1>0, <2>1 DEF VoidDb, At, KnownInv, Known, AllInv, StateInv, WorkInv, Job
  <2>3. ledger' = Post(ledger, "REFUND", work[w].amt)
    BY <2>1 DEF VoidDb
  <2>4. ledger'["REFUND"] - ledger["REFUND"] = work[w].amt
    BY <1>0, <2>2, <2>3 DEF Post, LedgerType
  <2>5. Account!Release(work[w].amt)
    BY <1>4, <2>2, <2>3 DEF Released, Account!Release, Account!Post, Post
  <2> QED
    BY <2>4, <2>5 DEF Account!Next
<1>5. ASSUME NEW c \in Nat \ {0}, FinalizeCapture(c) PROVE Account!Next
  <2>1. payout' \in {payout, [status |-> "PENDING", amount |-> Net(c)]} /\ c > 0
    BY <1>5 DEF FinalizeCapture
  <2>2. Account!Capture(captured')
    BY <1>5, <2>1 DEF FinalizeCapture, Account!Capture, Account!Post, Post, Account!Fee, Fee,
                      Account!Net, Net
  <2> QED
    BY <2>2 DEF Account!Next
<1>6. ASSUME NEW seen \in Nat, NEW total \in Nat, total > seen, Repaid(seen, total)
      PROVE  Account!Next
  <2>1. /\ status \in Refundable /\ refunded = seen /\ refunded' = total
        /\ status' = IF total >= captured THEN "REFUNDED" ELSE "PARTIALLY_REFUNDED"
        /\ ledger' = Post(ledger, "REFUND", total - seen)
        /\ UNCHANGED <<amount, captured>>
    BY <1>6 DEF Repaid, AdvanceRefunded
  <2>2. total <= captured
    BY <1>0, <2>1 DEF SumInv
  <2>3. \/ UNCHANGED payout
        \/ status' = "REFUNDED" /\ payout' = ClawBack(payout)
    <3>1. PICK w \in Workers : RefundDb(w) \/ WebhookRefundedDb(w)
      BY <1>6, <2>1, RefundedBy
    <3> QED
      BY <3>1 DEF RefundDb, WebhookRefundedDb
  <2>4. /\ refunded' - refunded = total - seen /\ total - seen > 0
        /\ refunded + (total - seen) = total
        /\ total >= captured <=> total = captured
    BY <1>0, <1>6, <2>1, <2>2
  <2>5. Account!Refund(total - seen)
    BY <2>1, <2>2, <2>3, <2>4 DEF Account!Refund, Account!Refundable, Refundable, Account!Post,
                                  Post, Account!ClawBack, ClawBack
  <2> QED
    BY <2>4, <2>5 DEF Account!Next
<1>7. ASSUME NEW d \in Nat, Account!Dispute(d) PROVE Account!Next
  <2>1. ledger'["DISPUTE"] - ledger["DISPUTE"] = d
    BY <1>0, <1>7 DEF Account!Dispute, Account!Post, LedgerType
  <2> QED
    BY <1>7, <2>1 DEF Account!Next
<1>8. ASSUME NEW d \in Nat, Account!LoseDispute(d) PROVE Account!Next
  <2>1. ledger'["CHARGEBACK"] - ledger["CHARGEBACK"] = d
    BY <1>0, <1>8 DEF Account!LoseDispute, Account!Post, LedgerType
  <2> QED
    BY <1>8, <2>1 DEF Account!Next
<1>9. CASE Account!Lapse \/ Account!WinDispute \/ Account!ClaimPayout \/ Account!SettlePayout
  BY <1>9 DEF Account!Next
<1> QED
  BY <1>0, <1>1, <1>2, <1>3, <1>4, <1>5, <1>6, <1>7, <1>8, <1>9 DEF Money

\* Whatever handlers, webhooks and admins interleave, crash or retry, the money of
\* the booking moves by the account's business transitions.
THEOREM AccountImplemented ==
  ASSUME HostedCapturesAreOurs, OneKindOfOperator
  PROVE  Spec => AccountSpec
<1>1. Init => Account!Init
  BY DEF Init, Account!Init, EmptyLedger, Account!EmptyLedger, NoPayout, Account!NoPayout,
         LedgerType, Account!LedgerType
<1>2. AllInv /\ [Next]_vars => [Account!Next]_(Account!accountVars)
  BY AccountStep
<1> QED
  BY <1>1, <1>2, Invariance, PTL DEF Spec, AccountSpec, Account!Spec

=============================================================================
