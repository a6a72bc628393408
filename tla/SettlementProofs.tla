-------------------------- MODULE SettlementProofs --------------------------
(***************************************************************************)
(* Theorems about Settlement: that a completed job is paid for and a       *)
(* cancelled one released, for every total, fee, commission and retry      *)
(* budget and any number of crashes and timed-out deliveries.              *)
(*                                                                         *)
(* AccountOK says what the payment's columns say of each other, BookingOK  *)
(* how the booking got where it is, MoneyOK what that says of its money,   *)
(* JobOK what a delivery, on time or late, is about to do and why it may   *)
(* still do it, and EventOK what an event's row says about the money.      *)
(* BillInv, at the end, bounds what is charged; the last theorems say that *)
(* the composition uses its two parts as they promise to be used.          *)
(***************************************************************************)
EXTENDS Settlement, TLAPS

Disputes == ledger["DISPUTE"]

AccountOK ==
  /\ status \in {"NONE", "PRE_AUTHORIZED", "FAILED"} => captured = 0 /\ refunded = 0
  /\ status # "NONE" => amount > 0
  /\ status \in {"CAPTURED", "PARTIALLY_REFUNDED", "DISPUTED", "CHARGEBACK"} => refunded < captured
  /\ status \in {"DISPUTED", "CHARGEBACK"} => Disputes > 0
  /\ Disputes >= 0
  /\ Disputes > 0 => captured > 0

BookingOK ==
  /\ booking \in {"PENDING", "ASSIGNED"} => ending = "none" /\ event[Cancelled] = "NONE"
  /\ booking = "COMPLETED" => ending = "completed"
  /\ ending = "completed" => booking \in {"COMPLETED", "CANCELLED", "DISPUTED"}
  /\ event[Ended] # "NONE" => ending # "none"
  /\ booking = "DISPUTED" => Disputes > 0
  /\ booking \in {"ASSIGNED", "COMPLETED", "NO_SHOW"} => dispatched
  /\ event[Cancelled] # "NONE" => booking \in {"CANCELLED", "DISPUTED"}
  /\ event[Cancelled] # "NONE" /\ ending = "completed" => Disputes > 0

MoneyOK ==
  /\ dispatched => status # "NONE"
  /\ captured > 0 => ending # "none"
  /\ captured > 0 /\ ending = "no_show" => captured = Callout
  /\ ending = "completed" /\ captured = 0 => status \in {"PRE_AUTHORIZED", "FAILED"}

JobOK(j) ==
  /\ j.do \in {"hold", "capture", "refund"} => j.sum > 0
  /\ j.do = "capture" => ending # "none" /\ (ending = "no_show" => j.sum = Callout)
  /\ j.do \in {"void", "refund"} => event[Cancelled] # "NONE"
  /\ j.do = "refund" => j.sum + j.seen = captured

Paid == captured > 0 \/ status = "FAILED"
Released == status \in {"REFUNDED", "FAILED"} \/ (ending = "no_show" /\ 0 < captured /\ captured = Callout)

\* The jobs an event's deliveries may have.
Does(e) ==
  CASE e = Created -> {"nothing", "hold"}
    [] e = Ended -> {"nothing", "capture"}
    [] e = Cancelled -> {"nothing", "void", "refund"}

EventOK ==
  /\ \A e \in Event : job[e] = Nothing \/ job[e].do \in Does(e) \ {"nothing"}
  /\ ending = "completed" =>
       /\ event[Ended] = "PROCESSING" /\ job[Ended] = Nothing => Paid
       /\ event[Ended] = "DONE" => Paid
  /\ dispatched /\ Disputes = 0 =>
       /\ event[Cancelled] = "PROCESSING" /\ job[Cancelled] = Nothing => Released
       /\ event[Cancelled] = "DONE" => Released

IInv ==
  /\ TypeOK /\ AccountOK /\ BookingOK /\ MoneyOK
  /\ \A e \in Event : JobOK(job[e])
  /\ \A j \in late : JobOK(j)
  /\ EventOK

AccountType ==
  /\ status \in PaymentStatus /\ amount \in Nat /\ captured \in Nat /\ refunded \in Nat
  /\ ledger \in [LedgerType -> Int] /\ payout \in [status : PayoutStatus, amount : Int]

\* What every step of the account has in common: money once captured stays
\* captured, and a payment that is refunded or failed stays so.
AccountMove ==
  /\ AccountType' /\ AccountOK'
  /\ captured > 0 => captured' = captured
  /\ status # "NONE" => status' # "NONE"
  /\ Disputes' >= Disputes
  /\ Paid => Paid'
  /\ status \in {"REFUNDED", "FAILED"} => status' = status

-----------------------------------------------------------------------------
(* The steps of the account *)

LEMMA NetInt == ASSUME NEW c \in Nat PROVE Fee(c) \in Int /\ Net(c) \in Int
<1>1. (c * CommissionPct) \div 100 \in Int
  <2>1. c * CommissionPct \in Int
    BY CommissionAssumption
  <2> QED
    BY <2>1
<1>2. QED
  BY <1>1 DEF Fee, Net

LEMMA Posted ==
  ASSUME NEW entries \in [LedgerType -> Int], NEW t \in LedgerType, NEW s \in Int
  PROVE  /\ Post(entries, t, s) \in [LedgerType -> Int]
         /\ t # "DISPUTE" => Post(entries, t, s)["DISPUTE"] = entries["DISPUTE"]
         /\ t = "DISPUTE" => Post(entries, t, s)["DISPUTE"] = entries["DISPUTE"] + s
<1>1. "DISPUTE" \in LedgerType
  BY DEF LedgerType
<1>2. entries[t] + s \in Int /\ entries["DISPUTE"] \in Int
  BY <1>1
<1>3. QED
  BY <1>1, <1>2 DEF Post

\* No step but a dispute changes what is disputed.
LEMMA NotDisputed ==
  ASSUME IInv, NEW t \in LedgerType \ {"DISPUTE"}, NEW s \in Int, ledger' = Post(ledger, t, s)
  PROVE  ledger' \in [LedgerType -> Int] /\ Disputes' = Disputes /\ Disputes \in Int
<1>1. ledger \in [LedgerType -> Int] /\ "DISPUTE" \in LedgerType
  BY DEF IInv, TypeOK, LedgerType
<1>2. ledger["DISPUTE"] \in Int
  BY <1>1
<1>3. QED
  BY <1>1, <1>2, Posted DEF Disputes

LEMMA Still == ASSUME IInv, UNCHANGED accountVars PROVE AccountMove
<1> USE DEF accountVars
<1>1. AccountType' /\ Disputes' = Disputes /\ Disputes \in Int
  BY DEF IInv, TypeOK, AccountType, Disputes, LedgerType
<1>2. AccountOK' /\ (Paid => Paid')
  BY <1>1 DEF IInv, AccountOK, Paid
<1>3. QED
  BY <1>1, <1>2 DEF AccountMove

LEMMA HoldMoves ==
  ASSUME IInv, NEW s \in Nat, s > 0, Account!Hold(s)
  PROVE  AccountMove /\ captured' = captured /\ status = "NONE" /\ status' = "PRE_AUTHORIZED"
<1>0. "CHARGE" \in LedgerType \ {"DISPUTE"} /\ ledger' = Post(ledger, "CHARGE", s)
  BY DEF LedgerType, Account!Hold, Account!Post, Post
<1>1. AccountType' /\ Disputes' = Disputes /\ Disputes \in Int
  BY <1>0, NotDisputed DEF IInv, TypeOK, AccountType, Account!Hold, PaymentStatus
<1>2. AccountOK' /\ (Paid => Paid')
  BY <1>1 DEF IInv, TypeOK, AccountOK, Paid, Account!Hold
<1>3. QED
  BY <1>1, <1>2 DEF AccountMove, Account!Hold

LEMMA CaptureMoves ==
  ASSUME IInv, NEW c \in Nat, c > 0, Account!Capture(c), payout' = PayoutFor(c)
  PROVE  /\ AccountMove /\ Disputes' = Disputes
         /\ captured = 0 /\ captured' = c /\ status' = "CAPTURED"
<1>1. /\ ledger' \in [LedgerType -> Int] /\ Disputes' = Disputes /\ Disputes \in Int
  <2>1. ledger \in [LedgerType -> Int] /\ ledger["DISPUTE"] \in Int
    BY DEF IInv, TypeOK, LedgerType
  <2>2. "CAPTURE" \in LedgerType /\ "FEE" \in LedgerType /\ Fee(c) \in Int
    BY NetInt DEF LedgerType
  <2>0. ledger' = Post(Post(ledger, "CAPTURE", c), "FEE", Fee(c))
    BY DEF Account!Capture, Account!Post, Account!Fee, Post, Fee
  <2>3. /\ Post(ledger, "CAPTURE", c) \in [LedgerType -> Int]
        /\ Post(ledger, "CAPTURE", c)["DISPUTE"] = ledger["DISPUTE"]
    <3>1. c \in Int
      OBVIOUS
    <3>2. QED
      BY <2>1, <2>2, <3>1, Posted
  <2>4. /\ Post(Post(ledger, "CAPTURE", c), "FEE", Fee(c)) \in [LedgerType -> Int]
        /\ Post(Post(ledger, "CAPTURE", c), "FEE", Fee(c))["DISPUTE"] = ledger["DISPUTE"]
    BY <2>1, <2>2, <2>3, Posted
  <2>5. QED
    BY <2>0, <2>1, <2>4 DEF Disputes
<1>2. payout' \in [status : PayoutStatus, amount : Int]
  BY NetInt DEF IInv, TypeOK, PayoutFor, PayoutStatus
<1>3. AccountType' /\ Disputes' = Disputes /\ Disputes \in Int
  BY <1>1, <1>2 DEF IInv, TypeOK, AccountType, Account!Capture, PaymentStatus
<1>4. AccountOK' /\ (Paid => Paid') /\ captured = 0
  BY <1>3 DEF IInv, TypeOK, AccountOK, Paid, Account!Capture
<1>5. QED
  BY <1>3, <1>4 DEF AccountMove, Account!Capture

LEMMA ReleaseMoves ==
  ASSUME IInv, NEW s \in Nat, Account!Release(s)
  PROVE  AccountMove /\ captured' = captured /\ captured = 0 /\ status' = "REFUNDED"
<1>0. "REFUND" \in LedgerType \ {"DISPUTE"} /\ ledger' = Post(ledger, "REFUND", s)
  BY DEF LedgerType, Account!Release, Account!Post, Post
<1>1. AccountType' /\ Disputes' = Disputes /\ Disputes \in Int
  BY <1>0, NotDisputed DEF IInv, TypeOK, AccountType, Account!Release, PaymentStatus
<1>2. AccountOK' /\ (Paid => Paid') /\ captured = 0
  BY <1>1 DEF IInv, TypeOK, AccountOK, Paid, Account!Release
<1>3. QED
  BY <1>1, <1>2 DEF AccountMove, Account!Release

LEMMA RefundMoves ==
  ASSUME IInv, NEW r \in Nat, r > 0, Account!Refund(r), payout' = ClawBack(payout)
  PROVE  /\ AccountMove /\ captured' = captured /\ captured > 0
         /\ refunded + r = captured => status' = "REFUNDED"
<1>1. payout' \in [status : PayoutStatus, amount : Int]
  BY DEF IInv, TypeOK, ClawBack, PayoutStatus
<1>0. "REFUND" \in LedgerType \ {"DISPUTE"} /\ ledger' = Post(ledger, "REFUND", r)
  BY DEF LedgerType, Account!Refund, Account!Post, Post
<1>2. AccountType' /\ Disputes' = Disputes /\ Disputes \in Int
  BY <1>0, <1>1, NotDisputed DEF IInv, TypeOK, AccountType, Account!Refund, PaymentStatus
<1>3. AccountOK' /\ (Paid => Paid') /\ captured > 0
  BY <1>2 DEF IInv, TypeOK, AccountOK, Paid, Account!Refund
<1>4. refunded + r = captured => status' = "REFUNDED"
  BY DEF Account!Refund
<1>5. status' # "NONE" /\ status \notin {"REFUNDED", "FAILED"} /\ captured' = captured
  BY DEF Account!Refund, Account!Refundable
<1>6. QED
  BY <1>2, <1>3, <1>4, <1>5 DEF AccountMove

LEMMA LapseMoves ==
  ASSUME IInv, Account!Lapse
  PROVE  AccountMove /\ captured' = captured /\ status = "PRE_AUTHORIZED" /\ status' = "FAILED"
<1>1. AccountType' /\ Disputes' = Disputes /\ Disputes \in Int
  BY DEF IInv, TypeOK, AccountType, Account!Lapse, PaymentStatus, Disputes, LedgerType
<1>2. AccountOK' /\ (Paid => Paid')
  BY <1>1 DEF IInv, TypeOK, AccountOK, Paid, Account!Lapse
<1>3. QED
  BY <1>1, <1>2 DEF AccountMove, Account!Lapse

LEMMA DisputeMoves ==
  ASSUME IInv, Account!Dispute(captured)
  PROVE  AccountMove /\ captured' = captured /\ captured > 0 /\ Disputes' > 0
<1>1. captured > 0 /\ captured \in Int
  BY DEF IInv, TypeOK, AccountOK, Account!Dispute, Account!Refundable
<1>2. ledger' \in [LedgerType -> Int] /\ Disputes' = Disputes + captured /\ Disputes \in Int
  <2>1. "DISPUTE" \in LedgerType /\ ledger \in [LedgerType -> Int] /\ ledger["DISPUTE"] \in Int
    BY DEF IInv, TypeOK, LedgerType
  <2>2. ledger' = Post(ledger, "DISPUTE", captured)
    BY DEF Account!Dispute, Account!Post, Post
  <2>3. QED
    BY <1>1, <2>1, <2>2, Posted DEF Disputes
<1>3. AccountType'
  BY <1>2 DEF IInv, TypeOK, AccountType, Account!Dispute, PaymentStatus
<1>4. AccountOK' /\ (Paid => Paid') /\ Disputes' > 0
  BY <1>1, <1>2 DEF IInv, TypeOK, AccountOK, Paid, Account!Dispute, Account!Refundable
<1>5. status \notin {"REFUNDED", "FAILED"} /\ status' # "NONE" /\ captured' = captured
  BY DEF Account!Dispute, Account!Refundable
<1>6. QED
  BY <1>1, <1>2, <1>3, <1>4, <1>5 DEF AccountMove

LEMMA DisputeClosedMoves ==
  ASSUME IInv, Account!WinDispute \/ Account!LoseDispute(captured)
  PROVE  AccountMove /\ captured' = captured /\ captured > 0
<1>1. captured > 0 /\ captured \in Int
  BY DEF IInv, TypeOK, AccountOK, Account!WinDispute, Account!LoseDispute
<1>2. ledger' \in [LedgerType -> Int] /\ Disputes' = Disputes /\ Disputes \in Int
  <2>1. CASE Account!WinDispute
    BY <2>1 DEF IInv, TypeOK, LedgerType, Disputes, Account!WinDispute
  <2>2. CASE Account!LoseDispute(captured)
    <3>1. "CHARGEBACK" \in LedgerType \ {"DISPUTE"} /\ ledger' = Post(ledger, "CHARGEBACK", captured)
      BY <2>2 DEF LedgerType, Account!LoseDispute, Account!Post, Post
    <3>2. QED
      BY <1>1, <3>1, NotDisputed
  <2>3. QED
    BY <2>1, <2>2
<1>3. AccountType'
  BY <1>2 DEF IInv, TypeOK, AccountType, Account!WinDispute, Account!LoseDispute, PaymentStatus,
              PayoutStatus, Account!ClawBack
<1>4. AccountOK' /\ (Paid => Paid')
  BY <1>1, <1>2 DEF IInv, TypeOK, AccountOK, Paid, Account!WinDispute, Account!LoseDispute
<1>5. status \notin {"REFUNDED", "FAILED"} /\ status' # "NONE" /\ captured' = captured
  BY DEF Account!WinDispute, Account!LoseDispute
<1>6. QED
  BY <1>1, <1>2, <1>3, <1>4, <1>5 DEF AccountMove

LEMMA PayoutMoves ==
  ASSUME IInv, Account!ClaimPayout \/ Account!SettlePayout
  PROVE  AccountMove /\ captured' = captured /\ status' = status
<1>1. payout \in [status : PayoutStatus, amount : Int]
  BY DEF IInv, TypeOK
<1>2. ledger' \in [LedgerType -> Int] /\ Disputes' = Disputes /\ Disputes \in Int
  <2>1. CASE ledger' = ledger
    BY <2>1 DEF IInv, TypeOK, LedgerType, Disputes
  <2>2. CASE ledger' = Post(ledger, "PAYOUT", payout.amount)
    <3>1. "PAYOUT" \in LedgerType \ {"DISPUTE"} /\ payout.amount \in Int
      BY <1>1 DEF LedgerType
    <3>2. QED
      BY <2>2, <3>1, NotDisputed
  <2>3. QED
    BY <2>1, <2>2 DEF Account!ClaimPayout, Account!SettlePayout, Account!Post, Post
<1>3. payout' \in [status : PayoutStatus, amount : Int]
  BY <1>1 DEF PayoutStatus, Account!ClaimPayout, Account!SettlePayout
<1>4. UNCHANGED <<status, amount, captured, refunded>>
  BY DEF Account!ClaimPayout, Account!SettlePayout
<1>5. AccountType' /\ AccountOK' /\ (Paid => Paid')
  BY <1>2, <1>3, <1>4 DEF IInv, TypeOK, AccountType, AccountOK, Paid
<1>6. QED
  BY <1>2, <1>4, <1>5 DEF AccountMove

\* Whatever a delivery does, on time or late: the account moves as it may, its
\* money stays in line with the booking's ending.
LEMMA EffectMoves ==
  ASSUME IInv, NEW j \in Job, JobOK(j), Effect(j), UNCHANGED bookingVars
  PROVE  /\ AccountMove /\ MoneyOK' /\ Disputes' = Disputes
         /\ j.do = "capture" => captured' > 0
         /\ j.do = "void" /\ Disputes = 0 => Released'
         /\ j.do = "refund" => Released'
<1> USE DEF bookingVars
<1>0. j.sum \in Nat /\ j.seen \in Nat /\ Callout \in Nat
  BY SettlementAssumption DEF Job
<1>1. CASE (j = Nothing \/ RestReleased(j)) /\ UNCHANGED accountVars
  <2>1. AccountMove /\ MoneyOK' /\ Disputes' = Disputes
    BY <1>1, Still DEF accountVars, IInv, MoneyOK, Disputes
  <2>2. j.do \notin {"capture", "refund"}
    BY <1>1 DEF Nothing, RestReleased
  <2>3. ASSUME j.do = "void", Disputes = 0 PROVE Released'
    BY <1>0, <1>1, <2>3 DEF Nothing, RestReleased, accountVars, Released, IInv, TypeOK, JobOK, BookingOK, MoneyOK
  <2>4. QED
    BY <2>1, <2>2, <2>3
<1>2. CASE j.do = "hold" /\ Account!Hold(j.sum)
  <2>1. AccountMove /\ captured' = captured /\ status = "NONE" /\ status' = "PRE_AUTHORIZED"
    BY <1>0, <1>2, HoldMoves DEF JobOK
  <2>2. Disputes' = Disputes
    BY <1>2 DEF Account!Hold, Account!Post, Disputes
  <2>3. MoneyOK'
    BY <2>1 DEF IInv, MoneyOK
  <2>4. QED
    BY <1>2, <2>1, <2>2, <2>3
<1>3. CASE j.do = "capture" /\ Account!Capture(j.sum) /\ payout' = PayoutFor(j.sum)
  <2>1. AccountMove /\ captured = 0 /\ captured' = j.sum /\ status' = "CAPTURED" /\ j.sum > 0
    BY <1>0, <1>3, CaptureMoves DEF JobOK
  <2>2. Disputes' = Disputes
    BY <1>0, <1>3, CaptureMoves DEF JobOK
  <2>3. MoneyOK'
    BY <1>0, <1>3, <2>1 DEF IInv, MoneyOK, JobOK
  <2>4. QED
    BY <1>3, <2>1, <2>2, <2>3
<1>4. CASE j.do = "void" /\ Account!Release(j.sum)
  <2>1. AccountMove /\ captured' = captured /\ captured = 0 /\ status' = "REFUNDED"
    BY <1>0, <1>4, ReleaseMoves
  <2>2. Disputes' = Disputes
    BY <1>4 DEF Account!Release, Account!Post, Disputes
  <2>3. ending # "completed"
    BY <1>4, <2>1 DEF IInv, TypeOK, JobOK, BookingOK, AccountOK
  <2>4. MoneyOK'
    BY <2>1, <2>3 DEF IInv, MoneyOK
  <2>5. QED
    BY <1>4, <2>1, <2>2, <2>4 DEF Released
<1>5. CASE j.do = "refund" /\ refunded = j.seen /\ Account!Refund(j.sum) /\ payout' = ClawBack(payout)
  <2>1. /\ AccountMove /\ captured' = captured /\ captured > 0 /\ j.sum > 0
        /\ refunded + j.sum = captured => status' = "REFUNDED"
    BY <1>0, <1>5, RefundMoves DEF JobOK
  <2>2. status' = "REFUNDED"
    BY <1>0, <1>5, <2>1 DEF JobOK
  <2>3. Disputes' = Disputes
    BY <1>5 DEF Account!Refund, Account!Post, Disputes
  <2>4. MoneyOK'
    BY <2>1, <2>2 DEF IInv, MoneyOK
  <2>5. QED
    BY <1>5, <2>1, <2>2, <2>3, <2>4 DEF Released
<1>6. QED
  BY <1>1, <1>2, <1>3, <1>4, <1>5 DEF Effect

\* What a job relies on, no step of the account or of the outbox takes away.
LEMMA JobKept ==
  ASSUME IInv, AccountMove, NEW j \in Job, JobOK(j),
         ending' = ending \/ ending = "none",
         event[Cancelled] # "NONE" => event'[Cancelled] # "NONE"
  PROVE  JobOK(j)'
<1>1. j.sum \in Nat /\ j.seen \in Nat /\ captured \in Nat
  BY DEF Job, IInv, TypeOK
<1>2. QED
  BY <1>1 DEF JobOK, AccountMove

\* A step is checked part by part.
LEMMA StepOK ==
  ASSUME IInv, TypeOK', AccountMove, BookingOK', MoneyOK', EventOK',
         ending' = ending \/ ending = "none",
         event[Cancelled] # "NONE" => event'[Cancelled] # "NONE",
         \A e \in Event : job'[e] \in {job[e], Nothing} \/ JobOK(job[e])',
         \A j \in late' : j \in late \/ \E e \in Event : j = job[e]
  PROVE  IInv'
<1>1. ASSUME NEW e \in Event PROVE JobOK(job[e])'
  <2>1. PICK old \in Job : old = job[e] /\ JobOK(old)
    BY DEF IInv, TypeOK
  <2>2. PICK new \in Job : new = job'[e]
    BY DEF TypeOK
  <2>3. JobOK(old)'
    BY <2>1, JobKept
  <2>4. CASE new = old
    BY <2>2, <2>3, <2>4 DEF JobOK
  <2>5. CASE new = Nothing
    BY <2>2, <2>5 DEF JobOK, Nothing
  <2>6. QED
    BY <2>1, <2>2, <2>4, <2>5
<1>2. ASSUME NEW j \in late' PROVE JobOK(j)'
  <2>1. j \in Job /\ JobOK(j)
    BY DEF IInv, TypeOK
  <2>2. QED
    BY <2>1, JobKept
<1>3. QED
  BY <1>1, <1>2 DEF IInv, AccountMove

LEMMA SettledKept ==
  ASSUME IInv, AccountMove, ending' = ending
  PROVE  (Paid => Paid') /\ (Released => Released') /\ (Disputes' = 0 => Disputes = 0)
<1>1. captured \in Nat /\ Disputes >= 0 /\ Disputes \in Int /\ Disputes' \in Int
  BY DEF IInv, TypeOK, AccountOK, Disputes, AccountMove, AccountType, LedgerType
<1>2. QED
  BY <1>1 DEF AccountMove, Released

LEMMA EventKept ==
  ASSUME IInv, AccountMove, UNCHANGED <<event, job, ending, dispatched>>
  PROVE  EventOK'
BY SettledKept DEF IInv, EventOK

\* One row of the outbox moves; what it says of the money is true.
LEMMA RowStep ==
  ASSUME IInv, AccountMove, UNCHANGED <<ending, dispatched>>,
         NEW e \in Event, NEW s, NEW k, k = Nothing \/ k.do \in Does(e) \ {"nothing"},
         event' = [event EXCEPT ![e] = s], job' = [job EXCEPT ![e] = k],
         e = Ended /\ ending = "completed" /\ (s = "DONE" \/ (s = "PROCESSING" /\ k = Nothing))
           => Paid',
         e = Cancelled /\ dispatched /\ Disputes = 0 /\ (s = "DONE" \/ (s = "PROCESSING" /\ k = Nothing))
           => Released'
  PROVE  EventOK'
<1>1. \A f \in Event : /\ event'[f] = IF f = e THEN s ELSE event[f]
                       /\ job'[f] = IF f = e THEN k ELSE job[f]
  BY DEF IInv, TypeOK
<1>2. \A f \in Event : job'[f] = Nothing \/ job'[f].do \in Does(f) \ {"nothing"}
  BY <1>1 DEF IInv, EventOK
<1>3. Ended \in Event /\ Cancelled \in Event
  BY DEF Event
<1>4. ASSUME ending = "completed",
             (event'[Ended] = "PROCESSING" /\ job'[Ended] = Nothing) \/ event'[Ended] = "DONE"
      PROVE  Paid'
  <2>1. CASE e = Ended
    BY <1>1, <1>3, <1>4, <2>1
  <2>2. CASE e # Ended
    <3>1. event'[Ended] = event[Ended] /\ job'[Ended] = job[Ended]
      BY <1>1, <1>3, <2>2
    <3>2. Paid
      BY <1>4, <3>1 DEF IInv, EventOK
    <3>3. QED
      BY <3>2, SettledKept
  <2>3. QED
    BY <2>1, <2>2
<1>5. ASSUME dispatched, Disputes' = 0,
             (event'[Cancelled] = "PROCESSING" /\ job'[Cancelled] = Nothing) \/ event'[Cancelled] = "DONE"
      PROVE  Released'
  <2>0. Disputes = 0
    BY <1>5, SettledKept
  <2>1. CASE e = Cancelled
    BY <1>1, <1>3, <1>5, <2>0, <2>1
  <2>2. CASE e # Cancelled
    <3>1. event'[Cancelled] = event[Cancelled] /\ job'[Cancelled] = job[Cancelled]
      BY <1>1, <1>3, <2>2
    <3>2. Released
      BY <1>5, <2>0, <3>1 DEF IInv, EventOK
    <3>3. QED
      BY <3>2, SettledKept
  <2>3. QED
    BY <2>1, <2>2
<1>6. QED
  BY <1>2, <1>4, <1>5 DEF EventOK, Does

LEMMA NothingOK == Nothing \in Job
BY DEF Nothing, Job

LEMMA Initially == Init => IInv
<1> SUFFICES ASSUME Init PROVE IInv
  OBVIOUS
<1> USE DEF Init, Account!Init
<1>1. TypeOK
  <2>1. ledger = EmptyLedger /\ payout = NoPayout
    BY DEF Account!EmptyLedger, Account!LedgerType, EmptyLedger, LedgerType, Account!NoPayout, NoPayout
  <2>2. EmptyLedger \in [LedgerType -> Int] /\ NoPayout \in [status : PayoutStatus, amount : Int]
    BY DEF EmptyLedger, NoPayout, PayoutStatus
  <2>3. QED
    BY <2>1, <2>2, NothingOK, SettlementAssumption DEF TypeOK, PaymentStatus
<1>2. AccountOK
  BY DEF AccountOK, Disputes, Account!EmptyLedger, Account!LedgerType
<1>3. BookingOK /\ MoneyOK
  BY DEF BookingOK, MoneyOK, Event, Created, Ended, Cancelled
<1>4. \A e \in Event : JobOK(job[e])
  BY DEF JobOK, Nothing
<1>5. EventOK
  BY DEF EventOK
<1>6. QED
  BY <1>1, <1>2, <1>3, <1>4, <1>5 DEF IInv

-----------------------------------------------------------------------------
(* The lifecycle *)

LEMMA EmitRow ==
  ASSUME IInv, NEW e \in Event, Emits(e)
  PROVE  /\ event' = [event EXCEPT ![e] = "PENDING"]
         /\ event' \in [Event -> {"NONE", "PENDING", "PROCESSING", "DONE", "FAILED"}]
         /\ event[e] = "NONE"
         /\ UNCHANGED <<attempts, job, late, crashes>>
<1>1. e >= e
  BY DEF Event, Created, Ended, Cancelled
<1>2. QED
  BY <1>1 DEF Emits, Rows!Emit, IInv, TypeOK

LEMMA StartDispatchOK == ASSUME IInv, StartDispatch PROVE IInv'
<1> USE DEF StartDispatch, bookingVars, outboxVars
<1>1. AccountMove
  BY Still
<1>2. TypeOK' /\ BookingOK' /\ MoneyOK'
  BY DEF accountVars, IInv, TypeOK, BookingOK, MoneyOK, Disputes
<1>3. EventOK'
  BY DEF accountVars, IInv, BookingOK, EventOK, Paid, Released, Disputes
<1>4. QED
  BY <1>1, <1>2, <1>3, StepOK

LEMMA AcceptOK == ASSUME IInv, Accept PROVE IInv'
<1> USE DEF Accept, bookingVars, outboxVars
<1>1. AccountMove
  BY Still
<1>2. TypeOK' /\ BookingOK' /\ MoneyOK'
  BY DEF accountVars, IInv, TypeOK, BookingOK, MoneyOK, Disputes
<1>3. EventOK'
  BY <1>1, EventKept
<1>4. QED
  BY <1>1, <1>2, <1>3, StepOK

\* The job was paid for, or at least held for, before it ends.
LEMMA EndOK == ASSUME IInv, Complete \/ NoShow PROVE IInv'
<1> USE DEF Complete, NoShow, bookingVars, outboxVars
<1>1. AccountMove
  BY Still
<1>2. /\ event' = [event EXCEPT ![Ended] = "PENDING"]
      /\ event' \in [Event -> {"NONE", "PENDING", "PROCESSING", "DONE", "FAILED"}]
      /\ UNCHANGED <<attempts, job, late, crashes>>
      /\ Ended \in Event /\ Cancelled \in Event /\ Ended # Cancelled
  BY EmitRow DEF Event, Ended, Cancelled
<1>3. ending = "none" /\ dispatched /\ event[Cancelled] = "NONE"
  BY DEF IInv, BookingOK
<1>4. captured = 0
  BY <1>3 DEF IInv, TypeOK, MoneyOK
<1>5. event'[Cancelled] = "NONE" /\ event'[Ended] = "PENDING"
  BY <1>2, <1>3 DEF IInv, TypeOK
<1>6. status = "PRE_AUTHORIZED" \/ NoShow
  BY <1>4 DEF IInv, TypeOK, AccountOK
<1>7. TypeOK'
  BY <1>2 DEF accountVars, IInv, TypeOK
<1>8. BookingOK' /\ MoneyOK'
  BY <1>3, <1>4, <1>5, <1>6 DEF accountVars, IInv, BookingOK, MoneyOK
<1>9. EventOK'
  BY <1>2, <1>5 DEF IInv, EventOK
<1>10. QED
  BY <1>1, <1>2, <1>3, <1>5, <1>7, <1>8, <1>9, StepOK

\* Only a dispute opens a completed booking to a cancellation.
LEMMA CancelOK == ASSUME IInv, Cancel PROVE IInv'
<1> USE DEF Cancel, bookingVars, outboxVars
<1>1. AccountMove
  BY Still
<1>2. /\ event' = [event EXCEPT ![Cancelled] = "PENDING"]
      /\ event' \in [Event -> {"NONE", "PENDING", "PROCESSING", "DONE", "FAILED"}]
      /\ event[Cancelled] = "NONE"
      /\ UNCHANGED <<attempts, job, late, crashes>>
      /\ Cancelled \in Event /\ Cancelled # Ended /\ Ended \in Event
  BY EmitRow DEF Event, Ended, Cancelled
<1>3. event'[Cancelled] = "PENDING" /\ event'[Ended] = event[Ended]
  BY <1>2 DEF IInv, TypeOK
<1>4. ending = "completed" => Disputes > 0
  BY DEF IInv, TypeOK, BookingOK
<1>5. TypeOK'
  BY <1>2 DEF accountVars, IInv, TypeOK
<1>6. BookingOK' /\ MoneyOK'
  BY <1>3, <1>4 DEF accountVars, IInv, BookingOK, MoneyOK, Disputes
<1>7. EventOK'
  BY <1>1, <1>2, <1>3, SettledKept DEF IInv, EventOK
<1>8. QED
  BY <1>1, <1>2, <1>3, <1>5, <1>6, <1>7, StepOK

-----------------------------------------------------------------------------
(* The deliveries *)

\* A delivery that decides to do nothing finds nothing left to do.
LEMMA DecidesRightly ==
  ASSUME IInv, NEW e \in Event, event[e] = "PENDING"
  PROVE  /\ Decide(e) \in Job
         /\ Decide(e) = Nothing \/ Decide(e).do \in Does(e) \ {"nothing"}
         /\ JobOK(Decide(e))
         /\ e = Ended /\ ending = "completed" /\ Decide(e) = Nothing => Paid
         /\ e = Cancelled /\ dispatched /\ Disputes = 0 /\ Decide(e) = Nothing => Released
<1> USE DEF Nothing, Job
<1>0. /\ total \in Nat /\ amount \in Nat /\ captured \in Nat /\ refunded \in Nat
      /\ Callout \in Nat /\ status \in PaymentStatus /\ ending \in {"none", "completed", "no_show"}
  BY SettlementAssumption DEF IInv, TypeOK
<1>1. CASE e = Created
  BY <1>0, <1>1 DEF Decide, DecidePreAuthorize, Does, JobOK, Created, Ended, Cancelled
<1>2. CASE e = Ended
  <2>1. Decide(e) = DecideCapture
    BY <1>2 DEF Decide, Created, Ended, Cancelled
  <2>2. ending # "none"
    BY <1>2 DEF IInv, BookingOK
  <2>3. /\ DecideCapture \in Job
        /\ DecideCapture = Nothing \/ DecideCapture.do = "capture"
        /\ JobOK(DecideCapture)
    BY <1>0, <2>2 DEF DecideCapture, JobOK
  <2>4. ASSUME ending = "completed", DecideCapture = Nothing PROVE Paid
    <3>1. CASE captured > 0
      BY <3>1 DEF Paid
    <3>2. CASE captured = 0
      <4>1. status = "PRE_AUTHORIZED" => DecideCapture.do = "capture"
        BY <1>0, <2>4 DEF DecideCapture, IInv, AccountOK
      <4>2. QED
        BY <2>4, <3>2, <4>1 DEF IInv, MoneyOK, Paid
    <3>3. QED
      BY <1>0, <3>1, <3>2
  <2>5. QED
    BY <1>2, <2>1, <2>3, <2>4 DEF Does, Created, Ended, Cancelled
<1>3. CASE e = Cancelled
  <2>1. Decide(e) = DecideCancellation
    BY <1>3 DEF Decide, Created, Ended, Cancelled
  <2>2. /\ DecideCancellation \in Job
        /\ DecideCancellation = Nothing \/ DecideCancellation.do \in {"void", "refund"}
    BY <1>0 DEF DecideCancellation, Refundable
  <2>3. JobOK(DecideCancellation)
    BY <1>0, <1>3 DEF DecideCancellation, Refundable, JobOK
  <2>4. ASSUME dispatched, Disputes = 0, DecideCancellation = Nothing PROVE Released
    <3>1. status \in {"REFUNDED", "FAILED"}
      BY <1>0, <2>4 DEF DecideCancellation, Refundable, IInv, MoneyOK, AccountOK, PaymentStatus
    <3>2. QED
      BY <3>1 DEF Released
  <2>5. QED
    BY <1>3, <2>1, <2>2, <2>3, <2>4 DEF Does, Created, Ended, Cancelled
<1>4. QED
  BY <1>1, <1>2, <1>3 DEF Event

\* The rows keep their type, and a cancellation its row.
LEMMA RowMoves ==
  ASSUME IInv, NEW e \in Event, event[e] \in {"PENDING", "PROCESSING"},
         NEW s \in {"PENDING", "PROCESSING", "DONE", "FAILED"}, event' = [event EXCEPT ![e] = s]
  PROVE  /\ event' \in [Event -> {"NONE", "PENDING", "PROCESSING", "DONE", "FAILED"}]
         /\ \A f \in {Ended, Cancelled} : event'[f] = "NONE" <=> event[f] = "NONE"
BY DEF IInv, TypeOK, Event

LEMMA DeliverOK == ASSUME IInv, NEW e \in Event, Deliver(e) PROVE IInv'
<1> USE DEF Deliver, bookingVars
<1>1. AccountMove
  BY Still
<1>2. /\ event[e] = "PENDING" /\ event' = [event EXCEPT ![e] = "PROCESSING"]
      /\ attempts' = [attempts EXCEPT ![e] = @ + 1]
  BY DEF Rows!Start, Rows!Due
<1>3. PICK k \in Job : /\ k = Decide(e) /\ JobOK(k)
                       /\ k = Nothing \/ k.do \in Does(e) \ {"nothing"}
                       /\ e = Ended /\ ending = "completed" /\ k = Nothing => Paid
                       /\ e = Cancelled /\ dispatched /\ Disputes = 0 /\ k = Nothing => Released
  BY <1>2, DecidesRightly
<1>4. /\ event' \in [Event -> {"NONE", "PENDING", "PROCESSING", "DONE", "FAILED"}]
      /\ \A f \in {Ended, Cancelled} : event'[f] = "NONE" <=> event[f] = "NONE"
  BY <1>2, RowMoves
<1>5. TypeOK'
  BY <1>2, <1>3, <1>4 DEF accountVars, IInv, TypeOK
<1>6. BookingOK' /\ MoneyOK'
  BY <1>4 DEF accountVars, IInv, BookingOK, MoneyOK, Disputes
<1>7. EventOK'
  BY <1>1, <1>2, <1>3, RowStep, SettledKept
<1>8. \A f \in Event : job'[f] = IF f = e THEN k ELSE job[f]
  BY <1>3 DEF IInv, TypeOK
<1>9. JobOK(k)'
  BY <1>1, <1>3, <1>4, JobKept
<1>10. \A f \in Event : job'[f] \in {job[f], Nothing} \/ JobOK(job[f])'
  BY <1>8, <1>9 DEF JobOK
<1>11. QED
  BY <1>1, <1>4, <1>5, <1>6, <1>7, <1>10, StepOK

\* A delivery that succeeds leaves the money where its event wants it.
LEMMA ReturnOK == ASSUME IInv, NEW e \in Event, Return(e) PROVE IInv'
<1> USE DEF Return, bookingVars
<1>1. PICK j \in Job : j = job[e] /\ JobOK(j) /\ Effect(j)
  BY DEF IInv, TypeOK
<1>2. /\ AccountMove /\ MoneyOK' /\ Disputes' = Disputes
      /\ j.do = "capture" => captured' > 0
      /\ j.do = "void" /\ Disputes = 0 => Released'
      /\ j.do = "refund" => Released'
  BY <1>1, EffectMoves
<1>3. event[e] = "PROCESSING" /\ event' = [event EXCEPT ![e] = "DONE"] /\ attempts' = attempts
  BY DEF Rows!Succeed
<1>4. /\ event' \in [Event -> {"NONE", "PENDING", "PROCESSING", "DONE", "FAILED"}]
      /\ \A f \in {Ended, Cancelled} : event'[f] = "NONE" <=> event[f] = "NONE"
  BY <1>3, RowMoves
<1>5. TypeOK'
  BY <1>2, <1>3, <1>4, NothingOK DEF IInv, TypeOK, AccountMove, AccountType
<1>6. BookingOK'
  BY <1>2, <1>4 DEF IInv, BookingOK
<1>7. j = Nothing \/ j.do \in Does(e) \ {"nothing"}
  BY <1>1 DEF IInv, EventOK
<1>8. ASSUME e = Ended, ending = "completed" PROVE Paid'
  <2>1. CASE j = Nothing
    BY <1>1, <1>2, <1>3, <1>8, <2>1, SettledKept DEF IInv, EventOK
  <2>2. CASE j # Nothing
    BY <1>2, <1>7, <1>8, <2>2 DEF Does, Paid, Created, Ended, Cancelled
  <2>3. QED
    BY <2>1, <2>2
<1>9. ASSUME e = Cancelled, dispatched, Disputes = 0 PROVE Released'
  <2>1. CASE j = Nothing
    BY <1>1, <1>2, <1>3, <1>9, <2>1, SettledKept DEF IInv, EventOK
  <2>2. CASE j # Nothing
    <3>1. j.do \in {"void", "refund"}
      BY <1>7, <1>9, <2>2 DEF Does, Created, Ended, Cancelled
    <3>2. QED
      BY <1>2, <1>9, <3>1
  <2>3. QED
    BY <2>1, <2>2
<1>10. EventOK'
  BY <1>2, <1>3, <1>8, <1>9, RowStep
<1>11. \A f \in Event : job'[f] \in {job[f], Nothing}
  BY DEF IInv, TypeOK
<1>12. QED
  BY <1>2, <1>4, <1>5, <1>6, <1>10, <1>11, StepOK

\* A delivery that ends otherwise goes back to the queue or is given up; its job may
\* run on.
LEMMA BackOK ==
  ASSUME IInv, NEW e \in Event, event[e] = "PROCESSING",
         NEW s \in {"PENDING", "FAILED"}, event' = [event EXCEPT ![e] = s],
         job' = [job EXCEPT ![e] = Nothing], attempts' = attempts, crashes' \in Nat,
         late' \in {late, (late \cup {job[e]}) \ {Nothing}},
         UNCHANGED <<bookingVars, accountVars>>
  PROVE  IInv'
<1> USE DEF bookingVars
<1>1. AccountMove
  BY Still
<1>2. /\ event' \in [Event -> {"NONE", "PENDING", "PROCESSING", "DONE", "FAILED"}]
      /\ \A f \in {Ended, Cancelled} : event'[f] = "NONE" <=> event[f] = "NONE"
  BY RowMoves
<1>3. TypeOK'
  BY <1>2, NothingOK DEF accountVars, IInv, TypeOK
<1>4. BookingOK' /\ MoneyOK'
  BY <1>2 DEF accountVars, IInv, BookingOK, MoneyOK, Disputes
<1>5. EventOK'
  BY <1>1, RowStep
<1>6. \A f \in Event : job'[f] \in {job[f], Nothing}
  BY DEF IInv, TypeOK
<1>7. QED
  BY <1>1, <1>2, <1>3, <1>4, <1>5, <1>6, StepOK

LEMMA Requeued ==
  ASSUME IInv, NEW e \in Event, Rows!Requeue({e})
  PROVE  event[e] = "PROCESSING" /\ event' = [event EXCEPT ![e] = "PENDING"] /\ attempts' = attempts
BY DEF IInv, TypeOK, Rows!Requeue

LEMMA FailOK == ASSUME IInv, NEW e \in Event, Fail(e) PROVE IInv'
<1>1. CASE Rows!Requeue({e})
  BY <1>1, Requeued, BackOK DEF Fail, IInv, TypeOK
<1>2. CASE Rows!GiveUp(e)
  BY <1>2, BackOK DEF Fail, Rows!GiveUp, IInv, TypeOK
<1>3. QED
  BY <1>1, <1>2 DEF Fail

LEMMA CrashOK == ASSUME IInv, NEW e \in Event, Crash(e) PROVE IInv'
<1>1. event[e] = "PROCESSING" /\ event' = [event EXCEPT ![e] = "PENDING"] /\ attempts' = attempts
  BY Requeued DEF Crash
<1>2. crashes' \in Nat
  BY DEF Crash, IInv, TypeOK
<1>3. late' \in {late, (late \cup {job[e]}) \ {Nothing}}
  BY DEF Crash
<1>4. QED
  BY <1>1, <1>2, <1>3, BackOK DEF Crash

\* A call that the worker gave up on may land at any time: every job keeps what it
\* relied on, and what is paid or released stays so.
LEMMA LateOK == ASSUME IInv, NEW j \in late, LateLands(j) \/ LateIsLost(j) PROVE IInv'
<1> USE DEF LateLands, LateIsLost, bookingVars
<1>1. j \in Job /\ JobOK(j)
  BY DEF IInv, TypeOK
<1>2. AccountMove /\ MoneyOK' /\ Disputes' = Disputes
  <2>1. CASE LateLands(j)
    BY <1>1, <2>1, EffectMoves
  <2>2. CASE LateIsLost(j)
    BY <2>2, Still DEF accountVars, IInv, MoneyOK, Disputes
  <2>3. QED
    BY <2>1, <2>2
<1>3. TypeOK' /\ BookingOK'
  BY <1>2 DEF IInv, TypeOK, AccountMove, AccountType, BookingOK
<1>4. EventOK'
  BY <1>2, EventKept
<1>5. QED
  BY <1>2, <1>3, <1>4, StepOK

-----------------------------------------------------------------------------
(* The PSP and the payouts *)

LEMMA HoldExpiresOK == ASSUME IInv, HoldExpires PROVE IInv'
<1> USE DEF HoldExpires, bookingVars, outboxVars
<1>1. /\ AccountMove /\ captured' = captured /\ Disputes' = Disputes
      /\ status = "PRE_AUTHORIZED" /\ status' = "FAILED"
  BY LapseMoves DEF Account!Lapse, Disputes
<1>2. TypeOK' /\ BookingOK' /\ MoneyOK'
  BY <1>1 DEF IInv, TypeOK, AccountMove, AccountType, BookingOK, MoneyOK
<1>3. EventOK'
  BY <1>1, EventKept
<1>4. QED
  BY <1>1, <1>2, <1>3, StepOK

\* A dispute reopens the booking whatever it was; a dispute is of captured money.
LEMMA DisputeOpenedOK == ASSUME IInv, DisputeOpened PROVE IInv'
<1> USE DEF DisputeOpened, outboxVars
<1>1. AccountMove /\ captured' = captured /\ captured > 0 /\ Disputes' > 0
  BY DisputeMoves
<1>2. TypeOK' /\ MoneyOK'
  BY <1>1 DEF IInv, TypeOK, AccountMove, AccountType, MoneyOK
<1>3. BookingOK'
  BY <1>1 DEF IInv, BookingOK
<1>4. EventOK'
  BY <1>1, EventKept
<1>5. QED
  BY <1>1, <1>2, <1>3, <1>4, StepOK

LEMMA DisputeClosedOK == ASSUME IInv, DisputeClosed PROVE IInv'
<1> USE DEF DisputeClosed, bookingVars, outboxVars
<1>1. AccountMove /\ captured' = captured /\ captured > 0
  BY DisputeClosedMoves
<1>2. Disputes' >= Disputes /\ Disputes \in Int /\ Disputes' \in Int
  BY <1>1 DEF IInv, TypeOK, AccountMove, AccountType, Disputes, LedgerType
<1>3. TypeOK' /\ BookingOK' /\ MoneyOK'
  BY <1>1, <1>2 DEF IInv, TypeOK, AccountMove, AccountType, BookingOK, MoneyOK
<1>4. EventOK'
  BY <1>1, EventKept
<1>5. QED
  BY <1>1, <1>3, <1>4, StepOK

LEMMA PayoutsOK == ASSUME IInv, Payouts PROVE IInv'
<1> USE DEF Payouts, bookingVars, outboxVars
<1>1. AccountMove /\ captured' = captured /\ status' = status
  BY PayoutMoves
<1>2. Disputes' >= Disputes /\ Disputes \in Int /\ Disputes' \in Int
  BY <1>1 DEF IInv, TypeOK, AccountMove, AccountType, Disputes, LedgerType
<1>3. TypeOK' /\ BookingOK' /\ MoneyOK'
  BY <1>1, <1>2 DEF IInv, TypeOK, AccountMove, AccountType, BookingOK, MoneyOK
<1>4. EventOK'
  BY <1>1, EventKept
<1>5. QED
  BY <1>1, <1>3, <1>4, StepOK

LEMMA StutterOK == ASSUME IInv, UNCHANGED vars PROVE IInv'
<1> USE DEF vars, bookingVars, outboxVars
<1>1. AccountMove
  BY Still
<1>2. TypeOK' /\ BookingOK' /\ MoneyOK'
  BY DEF accountVars, IInv, TypeOK, BookingOK, MoneyOK, Disputes
<1>3. EventOK'
  BY <1>1, EventKept
<1>4. QED
  BY <1>1, <1>2, <1>3, StepOK

-----------------------------------------------------------------------------
LEMMA Inductive == IInv /\ [Next]_vars => IInv'
<1> SUFFICES ASSUME IInv, [Next]_vars PROVE IInv'
  OBVIOUS
<1>1. CASE Lifecycle
  BY <1>1, StartDispatchOK, AcceptOK, EndOK, CancelOK DEF Lifecycle
<1>2. ASSUME NEW e \in Event, Deliver(e) \/ Handle(e) \/ Crash(e) PROVE IInv'
  BY <1>2, DeliverOK, ReturnOK, FailOK, CrashOK DEF Handle
<1>3. ASSUME NEW j \in late, LateLands(j) \/ LateIsLost(j) PROVE IInv'
  BY <1>3, LateOK
<1>4. CASE HoldExpires \/ DisputeOpened \/ DisputeClosed \/ Payouts
  BY <1>4, HoldExpiresOK, DisputeOpenedOK, DisputeClosedOK, PayoutsOK
<1>5. CASE UNCHANGED vars
  BY <1>5, StutterOK
<1>6. QED
  BY <1>1, <1>2, <1>3, <1>4, <1>5 DEF Next

LEMMA Invariance == Spec => []IInv
BY Initially, Inductive, PTL DEF Spec

\* Every variable keeps its type, whatever is delivered late, twice or never.
THEOREM TypeCorrect == Spec => []TypeOK
<1>1. IInv => TypeOK
  BY DEF IInv
<1>2. QED
  BY <1>1, Invariance, PTL

\* Once the event of a completed job is done, the job is paid for, unless its hold
\* lapsed at the PSP: a delivery passes the payment over only where there is
\* nothing to capture, and nothing takes back a capture (handleBookingCompleted).
THEOREM CompletedJobsArePaid == Spec => []CompletedIsPaid
<1>1. IInv => CompletedIsPaid
  BY DEF IInv, EventOK, CompletedIsPaid, Paid
<1>2. QED
  BY <1>1, Invariance, PTL

\* Once the cancellation of a dispatched and undisputed booking is done, no money of
\* the customer is held or kept, a no-show's callout fee aside (handleCancellation).
THEOREM CancelledBookingsAreReleased == Spec => []CancelledIsReleased
<1>1. IInv => CancelledIsReleased
  BY DEF IInv, EventOK, CancelledIsReleased, Released, Disputes
<1>2. QED
  BY <1>1, Invariance, PTL

-----------------------------------------------------------------------------
(* What is charged *)

\* A job remembers sums that the bill still covers when it lands.
SumOK(j) ==
  /\ j.do = "hold" => j.sum = total
  /\ j.do = "capture" => status # "NONE" /\ j.sum <= amount

\* The customer pays at most the total, and gets back at most what was charged.
ChargedWithinBill == refunded <= captured /\ captured <= total

\* Nothing widens the hold here, so that it covers whatever a late job remembers.
BillInv ==
  /\ ChargedWithinBill
  /\ amount <= total
  /\ \A e \in Event : SumOK(job[e])
  /\ \A j \in late : SumOK(j)

\* What a delivery does to the bill: only a hold sets the amount, and only once.
LEMMA EffectBills ==
  ASSUME IInv, BillInv, NEW j \in Job, JobOK(j), SumOK(j), Effect(j), UNCHANGED bookingVars
  PROVE  /\ (ChargedWithinBill /\ amount <= total)'
         /\ status # "NONE" => status' # "NONE" /\ amount' = amount
<1> USE DEF bookingVars
<1>0. /\ j.sum \in Nat /\ total \in Nat /\ amount \in Nat /\ captured \in Nat /\ refunded \in Nat
      /\ ChargedWithinBill /\ amount <= total /\ total' = total
  BY DEF IInv, TypeOK, BillInv, Job
<1>1. CASE UNCHANGED accountVars
  BY <1>0, <1>1 DEF accountVars, ChargedWithinBill
<1>2. CASE j.do = "hold" /\ Account!Hold(j.sum)
  BY <1>0, <1>2 DEF Account!Hold, SumOK, ChargedWithinBill
<1>3. CASE j.do = "capture" /\ Account!Capture(j.sum)
  <2>1. refunded = 0
    BY <1>3 DEF Account!Capture, IInv, AccountOK
  <2>2. QED
    BY <1>0, <1>3, <2>1 DEF Account!Capture, SumOK, ChargedWithinBill
<1>4. CASE j.do = "void" /\ Account!Release(j.sum)
  BY <1>0, <1>4 DEF Account!Release, ChargedWithinBill
<1>5. CASE j.do = "refund" /\ Account!Refund(j.sum)
  BY <1>0, <1>5 DEF Account!Refund, ChargedWithinBill
<1>6. QED
  BY <1>1, <1>2, <1>3, <1>4, <1>5 DEF Effect

LEMMA OthersBill ==
  ASSUME IInv, BillInv, HoldExpires \/ DisputeOpened \/ DisputeClosed \/ Payouts
  PROVE  /\ UNCHANGED <<total, amount, captured, refunded, job, late>>
         /\ status' = status \/ status' # "NONE"
BY DEF HoldExpires, DisputeOpened, DisputeClosed, Payouts, bookingVars, outboxVars,
       Account!Lapse, Account!Dispute, Account!WinDispute, Account!LoseDispute,
       Account!ClaimPayout, Account!SettlePayout

\* A job's sum stays right until it lands, whatever lands before it.
LEMMA BillKept ==
  ASSUME IInv, BillInv, UNCHANGED total, (ChargedWithinBill /\ amount <= total)',
         status # "NONE" => status' # "NONE" /\ amount' = amount,
         \A e \in Event : job'[e] = job[e] \/ SumOK(job[e])',
         \A j \in late' : j \in late \/ \E e \in Event : j = job[e]
  PROVE  BillInv'
<1>1. ASSUME NEW j, SumOK(j) PROVE SumOK(j)'
  BY <1>1 DEF SumOK
<1>2. \A e \in Event : SumOK(job[e])'
  <2>1. ASSUME NEW e \in Event, job'[e] = job[e] PROVE SumOK(job[e])'
    BY <1>1, <2>1 DEF BillInv, SumOK
  <2>2. QED
    BY <2>1
<1>3. \A j \in late' : SumOK(j)'
  BY <1>1 DEF BillInv
<1>4. QED
  BY <1>2, <1>3 DEF BillInv

LEMMA NothingToBill == SumOK(Nothing) /\ SumOK(Nothing)'
BY DEF SumOK, Nothing

\* What a delivery decides, the bill covers.
LEMMA DecisionCovered ==
  ASSUME NEW e \in Event
  PROVE  SumOK(Decide(e))
<1>1. SumOK(DecidePreAuthorize)
  BY DEF DecidePreAuthorize, SumOK, Nothing
<1>2. SumOK(DecideCapture)
  BY DEF DecideCapture, SumOK, Nothing
<1>3. SumOK(DecideCancellation)
  BY DEF DecideCancellation, SumOK, Nothing
<1>4. Decide(e) \in {DecidePreAuthorize, DecideCapture, DecideCancellation}
  BY DEF Decide, Event
<1>5. QED
  BY <1>1, <1>2, <1>3, <1>4

LEMMA BillInductive == IInv /\ BillInv /\ [Next]_vars => BillInv'
<1> SUFFICES ASSUME IInv, BillInv, [Next]_vars PROVE BillInv'
  OBVIOUS
<1>0. ASSUME UNCHANGED <<total, status, amount, captured, refunded>>
      PROVE  /\ (ChargedWithinBill /\ amount <= total)'
             /\ status # "NONE" => status' # "NONE" /\ amount' = amount
  BY <1>0 DEF BillInv, ChargedWithinBill
<1>1. CASE Lifecycle \/ UNCHANGED vars
  <2>1. UNCHANGED <<total, status, amount, captured, refunded, job, late>>
    BY <1>1 DEF Lifecycle, StartDispatch, Accept, Complete, NoShow, Cancel, Emits, vars,
                bookingVars, outboxVars, accountVars
  <2>2. QED
    BY <1>0, <2>1, BillKept
<1>2. ASSUME NEW e \in Event, Deliver(e) PROVE BillInv'
  <2>1. UNCHANGED <<total, status, amount, captured, refunded, late>>
    BY <1>2 DEF Deliver, bookingVars, accountVars
  <2>2. SumOK(Decide(e))
    BY DecisionCovered
  <2>3. PICK c : c = Decide(e)
    OBVIOUS
  <2>4. SumOK(c)'
    BY <2>1, <2>2, <2>3 DEF SumOK
  <2>5. \A f \in Event : job'[f] = IF f = e THEN c ELSE job[f]
    BY <1>2, <2>3 DEF Deliver, IInv, TypeOK
  <2>6. \A f \in Event : job'[f] = job[f] \/ SumOK(job[f])'
    <3>1. ASSUME NEW f \in Event, job'[f] = c PROVE SumOK(job[f])'
      BY <2>4, <3>1 DEF SumOK
    <3>2. QED
      BY <2>5, <3>1
  <2>7. QED
    BY <1>0, <2>1, <2>6, BillKept
<1>3. ASSUME NEW e \in Event, Return(e) PROVE BillInv'
  <2>1. job[e] \in Job /\ JobOK(job[e]) /\ SumOK(job[e]) /\ Effect(job[e]) /\ UNCHANGED bookingVars
    BY <1>3 DEF Return, IInv, TypeOK, BillInv
  <2>2. \A f \in Event : job'[f] = job[f] \/ SumOK(job[f])'
    BY <1>3, NothingToBill DEF Return, IInv, TypeOK, SumOK
  <2>3. late' = late /\ total' = total
    BY <1>3 DEF Return, bookingVars
  <2>4. QED
    BY <2>1, <2>2, <2>3, EffectBills, BillKept
<1>4. ASSUME NEW e \in Event, Fail(e) \/ Crash(e) PROVE BillInv'
  <2>1. UNCHANGED <<total, status, amount, captured, refunded>>
    BY <1>4 DEF Fail, Crash, bookingVars, accountVars
  <2>2. \A f \in Event : job'[f] = job[f] \/ SumOK(job[f])'
    BY <1>4, NothingToBill DEF Fail, Crash, IInv, TypeOK, SumOK
  <2>3. \A j \in late' : j \in late \/ j = job[e]
    BY <1>4 DEF Fail, Crash
  <2>4. QED
    BY <1>0, <2>1, <2>2, <2>3, BillKept
<1>5. ASSUME NEW j \in late, LateLands(j) PROVE BillInv'
  <2>1. j \in Job /\ JobOK(j) /\ SumOK(j) /\ Effect(j) /\ UNCHANGED bookingVars
    BY <1>5 DEF LateLands, IInv, TypeOK, BillInv
  <2>2. job' = job /\ late' \subseteq late /\ total' = total
    BY <1>5 DEF LateLands, bookingVars
  <2>3. QED
    BY <2>1, <2>2, EffectBills, BillKept
<1>6. ASSUME NEW j \in late, LateIsLost(j) PROVE BillInv'
  <2>1. UNCHANGED <<total, status, amount, captured, refunded, job>> /\ late' \subseteq late
    BY <1>6 DEF LateIsLost, bookingVars, accountVars
  <2>2. QED
    BY <1>0, <2>1, BillKept
<1>7. CASE HoldExpires \/ DisputeOpened \/ DisputeClosed \/ Payouts
  <2>1. UNCHANGED <<total, amount, captured, refunded, job, late>>
        /\ (status # "NONE" => status' # "NONE")
    BY <1>7, OthersBill
  <2>2. (ChargedWithinBill /\ amount <= total)'
    BY <2>1 DEF BillInv, ChargedWithinBill
  <2>3. QED
    BY <2>1, <2>2, BillKept
<1>8. QED
  BY <1>1, <1>2, <1>3, <1>4, <1>5, <1>6, <1>7 DEF Next, Handle

LEMMA BillInitially == Init => BillInv
<1> SUFFICES ASSUME Init PROVE BillInv
  OBVIOUS
<1>1. amount = 0 /\ captured = 0 /\ refunded = 0 /\ total \in Nat
  BY SettlementAssumption DEF Init, Account!Init
<1>2. \A e \in Event : SumOK(job[e])
  BY NothingToBill DEF Init
<1>3. QED
  BY <1>1, <1>2 DEF Init, BillInv, ChargedWithinBill

\* However late a hold, a capture or a refund lands, the customer is never charged
\* more than the booking's total, nor given back more than was charged.
THEOREM ChargeIsWithinBill == Spec => []ChargedWithinBill
<1>1. BillInv => ChargedWithinBill
  BY DEF BillInv
<1>2. QED
  BY <1>1, BillInitially, BillInductive, Invariance, PTL DEF Spec

-----------------------------------------------------------------------------
(* What the parts promise each other *)

LEMMA EffectOfAccount ==
  ASSUME IInv, NEW j \in Job, Effect(j)
  PROVE  [Account!Next]_(Account!accountVars)
<1>0. j.sum \in Nat /\ amount \in Nat /\ refunded \in Nat
      /\ ledger \in [LedgerType -> Int] /\ "REFUND" \in LedgerType
  BY DEF IInv, TypeOK, Job, LedgerType
<1>1. CASE UNCHANGED accountVars
  BY <1>1 DEF accountVars, Account!accountVars
<1>2. CASE Account!Hold(j.sum)
  BY <1>2 DEF Account!Next, Account!Hold
<1>3. CASE Account!Capture(j.sum)
  BY <1>3 DEF Account!Next, Account!Capture
<1>4. CASE Account!Release(j.sum)
  <2>1. ledger'["REFUND"] - ledger["REFUND"] = j.sum
    BY <1>0, <1>4 DEF Account!Release, Account!Post
  <2>2. QED
    BY <1>4, <2>1 DEF Account!Next
<1>5. CASE Account!Refund(j.sum)
  <2>1. refunded' - refunded = j.sum
    BY <1>0, <1>5 DEF Account!Refund
  <2>2. QED
    BY <1>5, <2>1 DEF Account!Next
<1>6. QED
  BY <1>1, <1>2, <1>3, <1>4, <1>5 DEF Effect

LEMMA AccountStep ==
  ASSUME IInv, [Next]_vars
  PROVE  [Account!Next]_(Account!accountVars)
<1>0. /\ captured \in Nat /\ ledger \in [LedgerType -> Int]
      /\ "DISPUTE" \in LedgerType /\ "CHARGEBACK" \in LedgerType
  BY DEF IInv, TypeOK, LedgerType
<1>1. CASE UNCHANGED accountVars
  BY <1>1 DEF accountVars, Account!accountVars
<1>2. ASSUME NEW e \in Event, Return(e) PROVE [Account!Next]_(Account!accountVars)
  BY <1>2, EffectOfAccount DEF Return, IInv, TypeOK
<1>3. ASSUME NEW j \in late, LateLands(j) PROVE [Account!Next]_(Account!accountVars)
  BY <1>3, EffectOfAccount DEF LateLands, IInv, TypeOK
<1>4. CASE DisputeOpened
  <2>1. ledger'["DISPUTE"] - ledger["DISPUTE"] = captured
    BY <1>0, <1>4 DEF DisputeOpened, Account!Dispute, Account!Post
  <2>2. QED
    BY <1>4, <2>1 DEF DisputeOpened, Account!Next
<1>5. CASE DisputeClosed
  <2>1. CASE Account!LoseDispute(captured)
    <3>1. ledger'["CHARGEBACK"] - ledger["CHARGEBACK"] = captured
      BY <1>0, <2>1 DEF Account!LoseDispute, Account!Post
    <3>2. QED
      BY <2>1, <3>1 DEF Account!Next
  <2>2. QED
    BY <1>5, <2>1 DEF DisputeClosed, Account!Next
<1>6. CASE HoldExpires \/ Payouts
  BY <1>6 DEF HoldExpires, Payouts, Account!Next
<1>7. CASE Lifecycle \/ (\E e \in Event : Deliver(e) \/ Fail(e) \/ Crash(e))
           \/ (\E j \in late : LateIsLost(j)) \/ UNCHANGED vars
  BY <1>1, <1>7 DEF Lifecycle, StartDispatch, Accept, Complete, NoShow, Cancel, Deliver, Fail,
                    Crash, LateIsLost, vars
<1>8. QED
  BY <1>2, <1>3, <1>4, <1>5, <1>6, <1>7 DEF Next, Handle

\* The composition moves the money of a booking only as the payment service, which
\* implements the account, can: what deliveries decide is among its transitions.
THEOREM AccountRespected == Spec => Account!Spec
<1>1. Init => Account!Init
  BY DEF Init
<1>2. QED
  BY <1>1, AccountStep, Invariance, PTL DEF Spec, Account!Spec

LEMMA RowsStep ==
  ASSUME [Next]_vars
  PROVE  [Rows!Next]_(Rows!deliveryVars)
<1>1. CASE UNCHANGED <<event, attempts>>
  BY <1>1 DEF Rows!deliveryVars
<1>2. ASSUME NEW e \in Event, Emits(e) PROVE Rows!Next
  BY <1>2 DEF Emits, Rows!Next
<1>3. ASSUME NEW e \in Event, Deliver(e) \/ Return(e) \/ Crash(e) \/ Fail(e) PROVE Rows!Next
  <2>1. \/ Rows!Start(e) \/ Rows!Succeed(e) \/ Rows!GiveUp(e)
        \/ Rows!Requeue({e})
    BY <1>3 DEF Deliver, Return, Crash, Fail
  <2>2. {e} \in SUBSET Event
    OBVIOUS
  <2>3. QED
    BY <2>1, <2>2 DEF Rows!Next
<1>4. CASE Lifecycle
  BY <1>1, <1>2, <1>4 DEF Lifecycle, StartDispatch, Accept, Complete, NoShow, Cancel, outboxVars,
                          Event
<1>5. CASE (\E j \in late : LateLands(j) \/ LateIsLost(j)) \/ HoldExpires \/ DisputeOpened
           \/ DisputeClosed \/ Payouts \/ UNCHANGED vars
  BY <1>1, <1>5 DEF LateLands, LateIsLost, HoldExpires, DisputeOpened, DisputeClosed, Payouts,
                    outboxVars, vars
<1>6. QED
  BY <1>3, <1>4, <1>5 DEF Next, Handle

\* The events of a booking are delivered and retried only as the outbox, which
\* implements Delivery, does.
THEOREM DeliveryRespected == Spec => [][Rows!Next]_(Rows!deliveryVars)
BY RowsStep, PTL DEF Spec
=============================================================================
