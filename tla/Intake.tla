------------------------------- MODULE Intake -------------------------------
(***************************************************************************)
(* How a booking is made and paid down: POST /bookings behind the          *)
(* Idempotency-Key middleware, the promo code it redeems and the wallet    *)
(* credit it spends, and the credit that comes in from late arrivals and   *)
(* from the referral of a customer who completes a first booking.          *)
(*                                                                         *)
(* A request is a worker's job.  The middleware, the promo quote, the      *)
(* Redis lock and the statements of a Postgres transaction that read       *)
(* shared rows are separate steps; what a transaction writes is kept in    *)
(* its job until Commit, and its row and advisory locks until it ends.     *)
(* Subscriptions, surcharges and quotes only change the price: Price is    *)
(* what is due before the promo.                                           *)
(***************************************************************************)
EXTENDS Integers, Sequences, FiniteSets

CONSTANTS
  Workers,         \* concurrent requests
  Keys,            \* idempotency keys; a client sends one with every try of a booking
  Customers,
  Referred,        \* a customer who signed up with a referral code
  Referrer,        \* whose code it was
  Price,           \* amount due without a promo code
  Discount,        \* what the promo code takes off
  Credit,          \* LATE_COMPENSATION_JOD and REFERRAL_CREDIT_JOD
  MaxRedemptions,  \* promoCode.maxRedemptions
  PerUserLimit,    \* promoCode.perUserLimit
  MaxBookings,     \* bound on the bookings
  MaxFaults        \* bound on aborted transactions, lost answers and expired locks

ASSUME IntakeAssumption ==
  /\ {Referred, Referrer} \subseteq Customers /\ Referred # Referrer
  /\ Price \in Nat \ {0} /\ Discount \in 0..Price /\ Credit \in Nat \ {0}
  /\ MaxRedemptions \in Nat /\ PerUserLimit \in Nat
  /\ MaxBookings \in Nat /\ MaxFaults \in Nat

VARIABLES
  owner,     \* the customer who sends a key
  coded,     \* the keys whose booking carries the promo code
  cache,     \* Redis: idempotency entry of a key: "none", "processing", "done"
  promoLock, \* Redis: the holder of promo_lock, {} when it is free
  bookings,  \* the bookings rows, in commit order
  redeemed,  \* promoCode.timesRedeemed
  wallet,    \* SUM(serviceCredit.amountJod) of each customer
  granted,   \* how often the referral was credited
  work,      \* the job of each worker
  broken,    \* history: keys whose deduplication a fault has broken
  faults

redis == <<cache, promoLock>>
tables == <<bookings, redeemed, wallet, granted>>
vars == <<owner, coded, redis, tables, work, broken, faults>>

NoWorker == {}
Idle == [at |-> "idle", key |-> "none", wrapped |-> FALSE, booking |-> 0, spend |-> 0, ok |-> FALSE]

Init ==
  /\ owner \in [Keys -> Customers]
  /\ coded \in SUBSET Keys
  /\ cache = [k \in Keys |-> "none"]
  /\ promoLock = NoWorker
  /\ bookings = <<>> /\ redeemed = 0 /\ granted = 0
  /\ wallet = [c \in Customers |-> Credit]
  /\ work = [w \in Workers |-> Idle]
  /\ broken = {} /\ faults = 0

-----------------------------------------------------------------------------
At(w, point) == work[w].at = point
Goto(w, point) == work' = [work EXCEPT ![w].at = point]
Key(w) == work[w].key
Customer(w) == owner[Key(w)]
WithPromo(w) == Key(w) \in coded
Due(k) == IF k \in coded THEN Price - Discount ELSE Price

Of(c) == {b \in DOMAIN bookings : owner[bookings[b].key] = c}
Uses == {b \in DOMAIN bookings : bookings[b].key \in coded}
CapsLeft(c) == redeemed < MaxRedemptions /\ Cardinality(Uses \cap Of(c)) < PerUserLimit

\* SELECT ... FOR UPDATE on the promo row, pg_advisory_xact_lock of the customer
\* and the row lock of an UPDATE on the referral: held from the step that takes
\* them to the end of the transaction.
HoldsPromoRow(w) == work[w].at \in {"wallet", "commit"} /\ WithPromo(w)
HoldsWallet(w) == At(w, "commit")
HoldsReferral(w) == At(w, "complete_commit") /\ work[w].ok
Free(Holds(_), w) == \A v \in Workers \ {w} : ~Holds(v)

Fault == faults < MaxFaults /\ faults' = faults + 1
NoFault == UNCHANGED <<broken, faults>>

-----------------------------------------------------------------------------
(* idempotency() *)

\* `wrapped': the answer of the handler will be cached.
Run(w, k, wrapped) ==
  work' = [work EXCEPT ![w] = [Idle EXCEPT !.at = "quote", !.key = k, !.wrapped = wrapped]]

ArriveUnclaimed(w, k) ==
  /\ At(w, "idle")
  /\ cache[k] # "done"
  /\ cache' = [cache EXCEPT ![k] = "processing"]
  /\ Run(w, k, TRUE)
  /\ UNCHANGED <<owner, coded, promoLock, tables>> /\ NoFault

\* SET ... NX claims the key.
Arrive(w, k) ==
  /\ At(w, "idle")
  /\ cache[k] = "none"
  /\ cache' = [cache EXCEPT ![k] = "processing"]
  /\ Run(w, k, TRUE)
  /\ UNCHANGED <<owner, coded, promoLock, tables>> /\ NoFault

\* The key exists: 409, or the cached answer.  If it is gone by the GET (it expired,
\* or a 5xx deleted it) the handler runs without a placeholder of its own.
ArriveSecond(w, k) ==
  /\ At(w, "idle")
  /\ cache[k] # "none"
  /\ work' = [work EXCEPT ![w] = [Idle EXCEPT !.at = "get", !.key = k, !.wrapped = TRUE]]
  /\ UNCHANGED <<owner, coded, redis, tables>> /\ NoFault

Replay(w) ==
  /\ At(w, "get")
  /\ \/ cache[Key(w)] # "none" /\ work' = [work EXCEPT ![w] = Idle] /\ UNCHANGED broken
     \/ cache[Key(w)] = "none" /\ Goto(w, "quote") /\ broken' = broken \cup {Key(w)}
  /\ UNCHANGED <<owner, coded, redis, tables, faults>>

\* "fail open": Redis cannot be reached, nor is the answer cached later.
ArriveUncached(w, k) ==
  /\ At(w, "idle")
  /\ Fault /\ broken' = broken \cup {k}
  /\ Run(w, k, FALSE)
  /\ UNCHANGED <<owner, coded, redis, tables>>

\* The placeholder's 30 seconds, or the answer's day, are over.
Expire(k) ==
  /\ cache[k] # "none"
  /\ Fault /\ broken' = broken \cup {k}
  /\ cache' = [cache EXCEPT ![k] = "none"]
  /\ UNCHANGED <<owner, coded, promoLock, tables, work>>

\* A 2xx or 4xx replaces the placeholder; a 5xx deletes it.
Respond(w) ==
  /\ work[w].at \in {"respond", "respond_5xx"}
  /\ cache' = IF ~work[w].wrapped THEN cache
              ELSE [cache EXCEPT ![Key(w)] = IF At(w, "respond") THEN "done" ELSE "none"]
  /\ work' = [work EXCEPT ![w] = Idle]
  /\ UNCHANGED <<owner, coded, promoLock, tables>> /\ NoFault

-----------------------------------------------------------------------------
(* createBooking *)

\* promoService.quote: the caps are read before the transaction.
Quote(w) ==
  /\ At(w, "quote")
  /\ Goto(w, IF ~WithPromo(w) THEN "wallet_lock"
             ELSE IF CapsLeft(Customer(w)) THEN "promo_lock" ELSE "respond")
  /\ UNCHANGED <<owner, coded, redis, tables>> /\ NoFault

\* SETNX, or a 409 after 40 tries.
PromoLock(w) ==
  /\ At(w, "promo_lock")
  /\ \/ promoLock = NoWorker /\ promoLock' = {w} /\ Goto(w, "promo")
     \/ promoLock # NoWorker /\ UNCHANGED promoLock /\ Goto(w, "respond")
  /\ UNCHANGED <<owner, coded, cache, tables>> /\ NoFault

PromoLockExpires ==
  /\ promoLock # NoWorker
  /\ Fault
  /\ promoLock' = NoWorker
  /\ UNCHANGED <<owner, coded, cache, tables, work, broken>>

\* The `finally' deletes the lock, whoever holds it by then.
ReleasePromoLock(w) == promoLock' = IF WithPromo(w) THEN NoWorker ELSE promoLock

RedeemUnlocked(w) ==
  /\ At(w, "promo")
  /\ \/ CapsLeft(Customer(w)) /\ Goto(w, "wallet") /\ UNCHANGED promoLock
     \/ ~CapsLeft(Customer(w)) /\ Goto(w, "respond") /\ ReleasePromoLock(w)
  /\ UNCHANGED <<owner, coded, cache, tables>> /\ NoFault

\* promoService.redeem re-checks both caps under the row lock.
Redeem(w) ==
  /\ At(w, "promo")
  /\ Free(HoldsPromoRow, w)
  /\ \/ CapsLeft(Customer(w)) /\ Goto(w, "wallet") /\ UNCHANGED promoLock
     \/ ~CapsLeft(Customer(w)) /\ Goto(w, "respond") /\ ReleasePromoLock(w)
  /\ UNCHANGED <<owner, coded, cache, tables>> /\ NoFault

Lesser(a, b) == IF a < b THEN a ELSE b

SpendUnlocked(w) ==
  /\ work[w].at \in {"wallet", "wallet_lock"}
  /\ work' = [work EXCEPT ![w].at = "commit", ![w].spend = Lesser(wallet[Customer(w)], Due(Key(w)))]
  /\ UNCHANGED <<owner, coded, redis, tables>> /\ NoFault

\* creditService.redeem: the balance is read under the customer's lock.
Spend(w) ==
  /\ work[w].at \in {"wallet", "wallet_lock"}
  /\ \A v \in Workers \ {w} : HoldsWallet(v) => Customer(v) # Customer(w)
  /\ work' = [work EXCEPT ![w].at = "commit", ![w].spend = Lesser(wallet[Customer(w)], Due(Key(w)))]
  /\ UNCHANGED <<owner, coded, redis, tables>> /\ NoFault

Book(w) ==
  /\ At(w, "commit")
  /\ Len(bookings) < MaxBookings
  /\ bookings' = Append(bookings, [key |-> Key(w), total |-> Due(Key(w)) - work[w].spend,
                                   status |-> "open", late |-> FALSE])
  /\ redeemed' = IF WithPromo(w) THEN redeemed + 1 ELSE redeemed
  /\ wallet' = [wallet EXCEPT ![Customer(w)] = @ - work[w].spend]
  /\ ReleasePromoLock(w)
  /\ UNCHANGED <<owner, coded, cache, granted>>

Commit(w) == Book(w) /\ Goto(w, "respond") /\ NoFault

\* The commit went through but was answered by an error.
CommitAnswerLost(w) ==
  /\ Book(w)
  /\ Fault /\ broken' = broken \cup {Key(w)}
  /\ Goto(w, "respond_5xx")

InTransaction(w) == work[w].at \in {"promo", "wallet", "wallet_lock", "commit"}

\* A deadlock or a timeout: withDeadlockRetry runs the transaction again, or throws.
Abort(w) ==
  /\ InTransaction(w)
  /\ Fault /\ UNCHANGED broken
  /\ \/ Goto(w, IF WithPromo(w) THEN "promo" ELSE "wallet_lock") /\ UNCHANGED promoLock
     \/ Goto(w, "respond_5xx") /\ ReleasePromoLock(w)
  /\ UNCHANGED <<owner, coded, cache, tables>>

-----------------------------------------------------------------------------
(* complete, and the credit it may bring the referrer *)

\* The booking's row is locked by the version-guarded update until the end.
Completing(b) == \E w \in Workers : work[w].at \in {"count", "grant", "complete_commit"} /\ work[w].booking = b

StartComplete(w, b) ==
  /\ At(w, "idle")
  /\ bookings[b].status = "open" /\ ~Completing(b)
  /\ work' = [work EXCEPT ![w] = [Idle EXCEPT !.at = "count", !.key = bookings[b].key, !.booking = b]]
  /\ UNCHANGED <<owner, coded, redis, tables>> /\ NoFault

\* Committed completions; the transaction also counts its own.
Completed(c) == {b \in Of(c) : bookings[b].status = "completed"}

CountCompleted(w) ==
  /\ At(w, "count")
  /\ Goto(w, IF Customer(w) = Referred /\ granted = 0 /\ Completed(Referred) = {}
             THEN "grant" ELSE "complete_commit")
  /\ UNCHANGED <<owner, coded, redis, tables>> /\ NoFault

ClaimGrantUnguarded(w) ==
  /\ At(w, "grant")
  /\ work' = [work EXCEPT ![w].at = "complete_commit", ![w].ok = TRUE]
  /\ UNCHANGED <<owner, coded, redis, tables>> /\ NoFault

\* updateMany where creditGrantedAt is null waits for the row and looks again.
ClaimGrant(w) ==
  /\ At(w, "grant")
  /\ Free(HoldsReferral, w)
  /\ work' = [work EXCEPT ![w].at = "complete_commit", ![w].ok = (granted = 0)]
  /\ UNCHANGED <<owner, coded, redis, tables>> /\ NoFault

CommitComplete(w) ==
  /\ At(w, "complete_commit")
  /\ bookings' = [bookings EXCEPT ![work[w].booking].status = "completed"]
  /\ granted' = IF work[w].ok THEN granted + 1 ELSE granted
  /\ wallet' = IF work[w].ok THEN [wallet EXCEPT ![Referrer] = @ + Credit] ELSE wallet
  /\ work' = [work EXCEPT ![w] = Idle]
  /\ UNCHANGED <<owner, coded, redis, redeemed>> /\ NoFault

AbortComplete(w) ==
  /\ work[w].at \in {"count", "grant", "complete_commit"}
  /\ Fault /\ UNCHANGED broken
  /\ work' = [work EXCEPT ![w] = Idle]
  /\ UNCHANGED <<owner, coded, redis, tables>>

\* advanceStatus to ARRIVED past the SLA, once per booking by its refKey.
CompensateLate(b) ==
  /\ bookings[b].status = "open" /\ ~bookings[b].late /\ ~Completing(b)
  /\ bookings' = [bookings EXCEPT ![b].late = TRUE]
  /\ wallet' = [wallet EXCEPT ![owner[bookings[b].key]] = @ + Credit]
  /\ UNCHANGED <<owner, coded, redis, redeemed, granted, work>> /\ NoFault

-----------------------------------------------------------------------------
\* The process dies: its transaction is rolled back, its Redis entries stay.
Crash(w) ==
  /\ ~At(w, "idle")
  /\ Fault /\ UNCHANGED broken
  /\ work' = [work EXCEPT ![w] = Idle]
  /\ UNCHANGED <<owner, coded, redis, tables>>

Create(w) ==
  \/ Replay(w) \/ Quote(w) \/ PromoLock(w) \/ Redeem(w) \/ Spend(w) \/ Commit(w) \/ Respond(w)
Complete(w) == CountCompleted(w) \/ ClaimGrant(w) \/ CommitComplete(w)

Next ==
  \/ \E w \in Workers :
       \/ \E k \in Keys : Arrive(w, k) \/ ArriveSecond(w, k) \/ ArriveUncached(w, k)
       \/ Create(w) \/ Complete(w)
       \/ CommitAnswerLost(w) \/ Abort(w) \/ AbortComplete(w) \/ Crash(w)
       \/ \E b \in DOMAIN bookings : StartComplete(w, b)
  \/ \E k \in Keys : Expire(k)
  \/ PromoLockExpires
  \/ \E b \in DOMAIN bookings : CompensateLate(b)

Spec == Init /\ [][Next]_vars

-----------------------------------------------------------------------------
Point == {"idle", "get", "quote", "promo_lock", "promo", "wallet", "wallet_lock", "commit",
          "respond", "respond_5xx", "count", "grant", "complete_commit"}

\* Every variable keeps its type; no booking has a negative total.
TypeOK ==
  /\ owner \in [Keys -> Customers] /\ coded \subseteq Keys
  /\ cache \in [Keys -> {"none", "processing", "done"}]
  /\ promoLock \subseteq Workers
  /\ bookings \in Seq([key : Keys, total : 0..Price, status : {"open", "completed"}, late : BOOLEAN])
  /\ redeemed \in Nat /\ granted \in Nat
  /\ wallet \in [Customers -> Int]
  /\ \A w \in Workers : work[w].at \in Point
  /\ broken \subseteq Keys /\ faults \in 0..MaxFaults

\* Two bookings cannot spend the same credit: "two concurrent bookings can't both
\* read the same balance and over-redeem".
WalletNeverNegative == \A c \in Customers : wallet[c] >= 0

\* "the cap can't be raced", with the Redis lock expired or deleted by another
\* request, and a code's counter is the number of bookings it discounted.
PromoWithinCaps ==
  /\ redeemed = Cardinality(Uses)
  /\ redeemed <= MaxRedemptions
  /\ \A c \in Customers : Cardinality(Uses \cap Of(c)) <= PerUserLimit

\* The referrer is credited exactly once, by the completion that turns out first,
\* whichever of two concurrent ones that is.
ReferralSettled == granted = IF Completed(Referred) = {} THEN 0 ELSE 1

BookedWith(k) == {b \in DOMAIN bookings : bookings[b].key = k}

\* A client that retries with its key gets one booking, as long as no fault took
\* the key's entry away: Redis unreachable, an entry that expired under its request
\* or between the two looks of a second one, a commit that was answered by an error.
OneBookingPerKey == \A k \in Keys \ broken : Cardinality(BookedWith(k)) <= 1
=============================================================================
