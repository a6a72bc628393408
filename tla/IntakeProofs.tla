---------------------------- MODULE IntakeProofs ----------------------------
(***************************************************************************)
(* Theorems about Intake, for any number of requests, keys and customers,  *)
(* every price, cap and credit, and any number of faults.                  *)
(*                                                                         *)
(* JobOK says what a request knows at each point because of the lock it    *)
(* holds, Exclusive that the locks exclude each other, and KeyOK what the  *)
(* cache entry of an idempotency key stands for.  The theorems about       *)
(* Quote, whose accepted quotes become bookings here, are at the end.      *)
(***************************************************************************)
EXTENDS Intake, Quote, FiniteSetTheorems, SequenceTheorems, WellFoundedInduction, TLAPS

Booking == [key : Keys, total : 0..Price, status : {"open", "completed"}, late : BOOLEAN]

Job == [at : Point, key : Keys \cup {"none"}, wrapped : BOOLEAN, booking : Nat,
        spend : 0..Price, ok : BOOLEAN]

JobOK(w) ==
  /\ ~At(w, "idle") => Key(w) \in Keys
  /\ work[w].at \in {"promo_lock", "promo", "wallet"} => WithPromo(w)
  /\ At(w, "wallet_lock") => ~WithPromo(w)
  /\ At(w, "commit") => work[w].spend <= wallet[Customer(w)] /\ work[w].spend <= Due(Key(w))
  /\ HoldsPromoRow(w) => CapsLeft(Customer(w))
  /\ work[w].at \in {"count", "grant", "complete_commit"} =>
       work[w].booking \in DOMAIN bookings /\ bookings[work[w].booking].key = Key(w)
  /\ At(w, "count") => ~work[w].ok
  /\ At(w, "grant") => Customer(w) = Referred
  /\ HoldsReferral(w) => Customer(w) = Referred /\ granted = 0
  /\ At(w, "complete_commit") /\ ~work[w].ok /\ Customer(w) = Referred => granted = 1

Excludes(v, w) ==
  /\ ~(HoldsPromoRow(v) /\ HoldsPromoRow(w))
  /\ ~(HoldsReferral(v) /\ HoldsReferral(w))
  /\ HoldsWallet(v) /\ HoldsWallet(w) => Customer(v) # Customer(w)

Exclusive == \A v, w \in Workers : v # w => Excludes(v, w)

\* A request that is making, or has just made, the booking of its key.
Serving(w, k) ==
  /\ Key(w) = k
  /\ work[w].at \in {"quote", "promo_lock", "promo", "wallet", "wallet_lock", "commit",
                     "respond", "respond_5xx"}

KeyOK(k) ==
  /\ \A w \in Workers : Serving(w, k) =>
       cache[k] # "none" /\ (At(w, "respond") \/ BookedWith(k) = {})
  /\ \A v, w \in Workers : Serving(v, k) /\ Serving(w, k) => v = w
  /\ BookedWith(k) # {} => cache[k] # "none"
  /\ \A b, d \in BookedWith(k) : b = d

KeyInv == \A k \in Keys \ broken : KeyOK(k)

IInv ==
  /\ TypeOK /\ work \in [Workers -> Job]
  /\ \A w \in Workers : JobOK(w)
  /\ Exclusive
  /\ WalletNeverNegative /\ PromoWithinCaps /\ ReferralSettled
  /\ KeyInv

-----------------------------------------------------------------------------
LEMMA IdleOK == Idle \in Job
BY IntakeAssumption DEF Idle, Job, Point

LEMMA DueInRange == ASSUME NEW k \in Keys PROVE Due(k) \in 0..Price
BY IntakeAssumption DEF Due

LEMMA Initially == Init => IInv
<1> SUFFICES ASSUME Init PROVE IInv
  OBVIOUS
<1> USE DEF Init
<1>1. work \in [Workers -> Job]
  BY IdleOK
<1>2. bookings \in Seq(Booking) /\ DOMAIN bookings = {}
  OBVIOUS
<1>3. TypeOK
  BY <1>2, IntakeAssumption DEF TypeOK, NoWorker, Idle, Point, Booking
<1>4. (\A w \in Workers : JobOK(w)) /\ Exclusive
  BY DEF JobOK, Exclusive, Excludes, At, Idle, HoldsPromoRow, HoldsWallet, HoldsReferral
<1>5. WalletNeverNegative
  BY IntakeAssumption DEF WalletNeverNegative
<1>6. Uses = {} /\ \A c \in Customers : Of(c) = {} /\ Completed(c) = {}
  BY <1>2 DEF Uses, Of, Completed
<1>7. PromoWithinCaps
  <2>1. \A c \in Customers : Uses \cap Of(c) = {}
    BY <1>6
  <2>2. QED
    BY <1>6, <2>1, FS_EmptySet, IntakeAssumption DEF PromoWithinCaps
<1>8. ReferralSettled
  BY <1>6, IntakeAssumption DEF ReferralSettled
<1>9. KeyInv
  BY <1>2 DEF KeyInv, KeyOK, Serving, BookedWith, Idle
<1>10. QED
  BY <1>1, <1>3, <1>4, <1>5, <1>7, <1>8, <1>9 DEF IInv

\* What is computed from the tables changes only with them.
LEMMA SameTables ==
  ASSUME UNCHANGED <<owner, coded, tables>>
  PROVE  /\ Uses' = Uses
         /\ \A c : Of(c)' = Of(c) /\ Completed(c)' = Completed(c) /\ (CapsLeft(c)' <=> CapsLeft(c))
         /\ \A k : BookedWith(k)' = BookedWith(k) /\ Due(k)' = Due(k)
BY DEF tables, Uses, Of, Completed, CapsLeft, BookedWith, Due

\* The request w moves and no table changes.
LEMMA JobStep ==
  ASSUME IInv, NEW w \in Workers, TypeOK',
         work' \in [Workers -> Job], \A v \in Workers \ {w} : work'[v] = work[v],
         UNCHANGED <<owner, coded, tables>>,
         JobOK(w)', \A v \in Workers \ {w} : Excludes(v, w)',
         KeyInv'
  PROVE  IInv'
<1> USE DEF tables
<1>1. ASSUME NEW v \in Workers \ {w} PROVE JobOK(v)'
  <2>1. JobOK(v) /\ work'[v] = work[v]
    BY DEF IInv
  <2>2. QED
    BY <2>1, SameTables DEF JobOK, At, Key, Customer, WithPromo, HoldsPromoRow, HoldsReferral
<1>2. ASSUME NEW u \in Workers, NEW v \in Workers, u # v PROVE Excludes(u, v)'
  <2>1. CASE u # w /\ v # w
    <3>1. Excludes(u, v) /\ work'[u] = work[u] /\ work'[v] = work[v]
      BY <1>2, <2>1 DEF IInv, Exclusive
    <3>2. QED
      BY <3>1 DEF Excludes, HoldsPromoRow, HoldsReferral, HoldsWallet, At, Key, Customer, WithPromo
  <2>2. CASE v = w
    BY <1>2, <2>2
  <2>3. CASE u = w
    BY <1>2, <2>3 DEF Excludes
  <2>4. QED
    BY <2>1, <2>2, <2>3
<1>3. WalletNeverNegative' /\ PromoWithinCaps' /\ ReferralSettled'
  BY SameTables DEF IInv, WalletNeverNegative, PromoWithinCaps, ReferralSettled
<1>4. QED
  BY <1>1, <1>2, <1>3 DEF IInv, Exclusive

\* The key's state survives a step in which no request starts to serve it and no
\* booking is made.
LEMMA KeysKept ==
  ASSUME IInv, UNCHANGED <<owner, coded, tables>>, broken \subseteq broken',
         \A k \in Keys \ broken' : cache[k] # "none" => cache'[k] # "none",
         \A v \in Workers, k \in Keys \ broken' : Serving(v, k)' =>
           Serving(v, k) /\ (At(v, "respond") => At(v, "respond")')
  PROVE  KeyInv'
<1> SUFFICES ASSUME NEW k \in Keys, k \notin broken' PROVE KeyOK(k)'
  BY DEF KeyInv
<1>1. KeyOK(k)
  BY DEF IInv, KeyInv
<1>2. BookedWith(k)' = BookedWith(k)
  BY SameTables
<1>3. \A v \in Workers : Serving(v, k)' => Serving(v, k) /\ (At(v, "respond") => At(v, "respond")')
  OBVIOUS
<1>4. QED
  BY <1>1, <1>2, <1>3 DEF KeyOK

-----------------------------------------------------------------------------
(* The shapes of a step *)

LEMMA Moved ==
  ASSUME work \in [Workers -> Job], NEW w \in Workers, NEW p \in Point, Goto(w, p)
  PROVE  /\ work' \in [Workers -> Job] /\ \A v \in Workers \ {w} : work'[v] = work[v]
         /\ work'[w].at = p /\ work'[w].key = work[w].key /\ work'[w].booking = work[w].booking
         /\ work'[w].spend = work[w].spend /\ work'[w].ok = work[w].ok
BY DEF Goto, Job

LEMMA Replaced ==
  ASSUME work \in [Workers -> Job], NEW w \in Workers, NEW job \in Job,
         work' = [work EXCEPT ![w] = job]
  PROVE  work' \in [Workers -> Job] /\ work'[w] = job /\ \A v \in Workers \ {w} : work'[v] = work[v]
OBVIOUS

\* Redis and the bounds change, the tables and the work keep their type.
LEMMA TypeKept ==
  ASSUME IInv, work' \in [Workers -> Job], UNCHANGED <<owner, coded, tables>>,
         cache' \in [Keys -> {"none", "processing", "done"}], promoLock' \subseteq Workers,
         broken' \subseteq Keys, faults' \in 0..MaxFaults
  PROVE  TypeOK'
BY DEF IInv, TypeOK, tables, Job

\* The request w goes on to a point at which it holds no lock.
LEMMA CalmStep ==
  ASSUME IInv, NEW w \in Workers,
         work' \in [Workers -> Job], \A v \in Workers \ {w} : work'[v] = work[v],
         work'[w].at \notin {"wallet", "commit", "complete_commit"},
         UNCHANGED <<owner, coded, tables>>,
         cache' \in [Keys -> {"none", "processing", "done"}], promoLock' \subseteq Workers,
         broken' \subseteq Keys, faults' \in 0..MaxFaults,
         work'[w].at # "idle" => work'[w].key \in Keys,
         work'[w].at \in {"promo_lock", "promo"} => work'[w].key \in coded,
         work'[w].at = "wallet_lock" => work'[w].key \notin coded,
         work'[w].at \in {"count", "grant"} =>
           work'[w].booking \in DOMAIN bookings /\ bookings[work'[w].booking].key = work'[w].key,
         work'[w].at = "count" => ~work'[w].ok,
         work'[w].at = "grant" => owner[work'[w].key] = Referred,
         KeyInv'
  PROVE  IInv'
<1>1. TypeOK'
  BY TypeKept
<1>2. JobOK(w)'
  BY DEF JobOK, At, Key, WithPromo, Customer, HoldsPromoRow, HoldsReferral, tables
<1>3. \A v \in Workers \ {w} : Excludes(v, w)'
  BY DEF Excludes, HoldsPromoRow, HoldsReferral, HoldsWallet, At
<1>4. QED
  BY <1>1, <1>2, <1>3, JobStep

\* The types that most steps use.
LEMMA Types ==
  ASSUME IInv
  PROVE  /\ work \in [Workers -> Job]
         /\ cache \in [Keys -> {"none", "processing", "done"}] /\ promoLock \subseteq Workers
         /\ broken \subseteq Keys /\ faults \in 0..MaxFaults
         /\ Fault => faults' \in 0..MaxFaults
         /\ \A w \in Workers : ~At(w, "idle") => Key(w) \in Keys
BY IntakeAssumption DEF IInv, TypeOK, Fault, JobOK

\* The request ends, keeping its key's entry.
LEMMA EndStep ==
  ASSUME IInv, NEW w \in Workers, work' = [work EXCEPT ![w] = Idle],
         UNCHANGED <<owner, coded, redis, tables, broken>>, faults' \in 0..MaxFaults
  PROVE  IInv'
<1>1. work'[w] = Idle /\ work' \in [Workers -> Job] /\ \A v \in Workers \ {w} : work'[v] = work[v]
  BY Types, IdleOK
<1>2. KeyInv'
  <2>1. ASSUME NEW v \in Workers, NEW k \in Keys, Serving(v, k)'
        PROVE  Serving(v, k) /\ (At(v, "respond") => At(v, "respond")')
    BY <1>1, <2>1 DEF Serving, Key, At, Idle
  <2>2. QED
    BY <2>1, KeysKept DEF redis
<1>3. QED
  BY <1>1, <1>2, Types, CalmStep DEF Idle, redis

-----------------------------------------------------------------------------
(* The middleware *)

LEMMA ArriveStep ==
  ASSUME IInv, NEW w \in Workers, NEW k \in Keys, Arrive(w, k) PROVE IInv'
<1> DEFINE job == [Idle EXCEPT !.at = "quote", !.key = k, !.wrapped = TRUE]
<1> USE DEF Arrive, Run, NoFault
<1>1. job \in Job /\ job.at = "quote" /\ job.key = k
  BY IdleOK DEF Job, Point, Idle
<1>2. work' = [work EXCEPT ![w] = job]
  OBVIOUS
<1> HIDE DEF job
<1>3. work' \in [Workers -> Job] /\ work'[w] = job /\ \A v \in Workers \ {w} : work'[v] = work[v]
  BY <1>1, <1>2, Types
<1>4. /\ cache' \in [Keys -> {"none", "processing", "done"}] /\ cache'[k] # "none"
      /\ \A l \in Keys \ {k} : cache'[l] = cache[l]
  BY Types
<1>5. KeyInv'
  <2> SUFFICES ASSUME NEW l \in Keys, l \notin broken PROVE KeyOK(l)'
    BY DEF KeyInv
  <2>1. KeyOK(l) /\ BookedWith(l)' = BookedWith(l)
    BY SameTables DEF IInv, KeyInv
  <2>2. \A v \in Workers \ {w} : Serving(v, l)' <=> Serving(v, l)
    BY <1>3 DEF Serving, Key
  <2>3. \A v \in Workers \ {w} : At(v, "respond")' <=> At(v, "respond")
    BY <1>3 DEF At
  <2>4. CASE l = k
    <3>1. BookedWith(k) = {} /\ \A v \in Workers : ~Serving(v, k)
      BY <2>1, <2>4 DEF KeyOK
    <3>2. QED
      BY <1>4, <2>1, <2>2, <2>4, <3>1 DEF KeyOK
  <2>5. CASE l # k
    <3>1. ~Serving(w, l)'
      BY <1>1, <1>3, <2>5 DEF Serving, Key
    <3>2. QED
      BY <1>4, <2>1, <2>2, <2>3, <2>5, <3>1 DEF KeyOK
  <2>6. QED
    BY <2>4, <2>5
<1>6. QED
  BY <1>1, <1>3, <1>4, <1>5, Types, CalmStep

LEMMA ArriveSecondStep ==
  ASSUME IInv, NEW w \in Workers, NEW k \in Keys, ArriveSecond(w, k) \/ ArriveUncached(w, k)
  PROVE  IInv'
<1>1. PICK at \in {"get", "quote"}, wrapped \in BOOLEAN :
        work' = [work EXCEPT ![w] = [Idle EXCEPT !.at = at, !.key = k, !.wrapped = wrapped]]
  BY DEF ArriveSecond, ArriveUncached, Run
<1> DEFINE job == [Idle EXCEPT !.at = at, !.key = k, !.wrapped = wrapped]
<1>2. job \in Job /\ job.at = at /\ job.key = k
  BY IdleOK DEF Job, Point, Idle
<1>3. work' = [work EXCEPT ![w] = job]
  BY <1>1
<1> HIDE DEF job
<1>4. work' \in [Workers -> Job] /\ work'[w] = job /\ \A v \in Workers \ {w} : work'[v] = work[v]
  BY <1>2, <1>3, Types
<1>5. /\ UNCHANGED <<owner, coded, redis, tables>> /\ faults' \in 0..MaxFaults
      /\ broken \subseteq broken' /\ broken' \subseteq Keys
      /\ at = "get" \/ k \in broken'
  <2>1. CASE ArriveSecond(w, k)
    <3>1. [Idle EXCEPT !.at = "get", !.key = k, !.wrapped = TRUE].at = "get"
      BY DEF Idle
    <3>2. work'[w].at = "get"
      BY <2>1, <3>1, Types DEF ArriveSecond
    <3>3. QED
      BY <1>2, <1>4, <2>1, <3>2, Types DEF ArriveSecond, NoFault
  <2>2. CASE ArriveUncached(w, k)
    BY <2>2, Types DEF ArriveUncached
  <2>3. QED
    BY <2>1, <2>2
<1>6. KeyInv'
  <2>1. ASSUME NEW v \in Workers, NEW l \in Keys \ broken', Serving(v, l)'
        PROVE  Serving(v, l) /\ (At(v, "respond") => At(v, "respond")')
    BY <1>2, <1>4, <1>5, <2>1 DEF Serving, Key, At
  <2>2. QED
    BY <1>5, <2>1, KeysKept DEF redis
<1>7. QED
  BY <1>2, <1>4, <1>5, <1>6, Types, CalmStep DEF redis

LEMMA ReplayStep == ASSUME IInv, NEW w \in Workers, Replay(w) PROVE IInv'
<1>1. CASE work' = [work EXCEPT ![w] = Idle] /\ UNCHANGED broken
  BY <1>1, Types, EndStep DEF Replay
<1>2. CASE Goto(w, "quote") /\ broken' = broken \cup {Key(w)}
  <2> USE DEF Replay
  <2>1. Key(w) \in Keys
    BY Types DEF At
  <2>2. /\ work' \in [Workers -> Job] /\ \A v \in Workers \ {w} : work'[v] = work[v]
        /\ work'[w].at = "quote" /\ work'[w].key = Key(w)
    BY <1>2, Types, Moved DEF Point, Key
  <2>3. KeyInv'
    <3>1. ASSUME NEW v \in Workers, NEW l \in Keys \ broken', Serving(v, l)'
          PROVE  Serving(v, l) /\ (At(v, "respond") => At(v, "respond")')
      BY <1>2, <2>2, <3>1 DEF Serving, Key, At
    <3>2. QED
      BY <1>2, <3>1, KeysKept DEF redis
  <2>4. QED
    BY <1>2, <2>1, <2>2, <2>3, Types, CalmStep DEF redis
<1>3. QED
  BY <1>1, <1>2 DEF Replay

\* The entries in Redis expire, whoever relies on them.
LEMMA ExpireStep ==
  ASSUME IInv, (\E k \in Keys : Expire(k)) \/ PromoLockExpires PROVE IInv'
<1>1. /\ UNCHANGED <<owner, coded, tables, work>> /\ faults' \in 0..MaxFaults
      /\ broken \subseteq broken' /\ broken' \subseteq Keys
      /\ cache' \in [Keys -> {"none", "processing", "done"}] /\ promoLock' \subseteq Workers
      /\ \A k \in Keys \ broken' : cache'[k] = cache[k]
  BY Types DEF Expire, PromoLockExpires, NoWorker
<1>2. KeyInv'
  BY <1>1, KeysKept DEF Serving, Key, At
<1>3. TypeOK'
  BY <1>1, Types, TypeKept
<1>4. \A w \in Workers : JobOK(w)'
  BY <1>1, SameTables DEF IInv, JobOK, At, Key, Customer, WithPromo, HoldsPromoRow, HoldsReferral, tables
<1>5. Exclusive'
  BY <1>1 DEF IInv, Exclusive, Excludes, At, Key, Customer, WithPromo, HoldsPromoRow, HoldsReferral, HoldsWallet
<1>6. WalletNeverNegative' /\ PromoWithinCaps' /\ ReferralSettled'
  BY <1>1, SameTables DEF IInv, WalletNeverNegative, PromoWithinCaps, ReferralSettled, tables
<1>7. QED
  BY <1>1, <1>2, <1>3, <1>4, <1>5, <1>6 DEF IInv

\* A 5xx takes the entry away, but then its request made no booking.
LEMMA RespondStep == ASSUME IInv, NEW w \in Workers, Respond(w) PROVE IInv'
<1> USE DEF Respond, NoFault
<1>1. work'[w] = Idle /\ work' \in [Workers -> Job] /\ \A v \in Workers \ {w} : work'[v] = work[v]
  BY Types, IdleOK
<1>2. cache' \in [Keys -> {"none", "processing", "done"}]
  BY Types
<1>3. KeyInv'
  <2> SUFFICES ASSUME NEW l \in Keys, l \notin broken PROVE KeyOK(l)'
    BY DEF KeyInv
  <2>1. KeyOK(l) /\ BookedWith(l)' = BookedWith(l)
    BY SameTables DEF IInv, KeyInv
  <2>2. \A v \in Workers \ {w} : (Serving(v, l)' <=> Serving(v, l)) /\ (At(v, "respond")' <=> At(v, "respond"))
    BY <1>1 DEF Serving, Key, At
  <2>3. ~Serving(w, l)'
    BY <1>1 DEF Serving, Idle
  <2>4. CASE Key(w) = l
    <3>1. Serving(w, l)
      BY <2>4 DEF Serving
    <3>2. \A v \in Workers \ {w} : ~Serving(v, l)
      BY <2>1, <3>1 DEF KeyOK
    <3>3. BookedWith(l) # {} => cache'[l] # "none"
      <4>1. CASE At(w, "respond")
        BY <2>1, <2>4, <4>1, Types DEF KeyOK
      <4>2. CASE ~At(w, "respond")
        BY <2>1, <3>1, <4>2 DEF KeyOK
      <4>3. QED
        BY <4>1, <4>2
    <3>4. QED
      BY <2>1, <2>2, <2>3, <3>2, <3>3 DEF KeyOK
  <2>5. CASE Key(w) # l
    <3>1. cache'[l] = cache[l]
      BY <2>5, Types
    <3>2. QED
      BY <2>1, <2>2, <2>3, <3>1 DEF KeyOK
  <2>6. QED
    BY <2>4, <2>5
<1>4. QED
  BY <1>1, <1>2, <1>3, Types, CalmStep DEF Idle

-----------------------------------------------------------------------------
(* createBooking *)

\* A request goes on to p: no key loses or gains a request that serves it.
LEMMA GoOnKeeps ==
  ASSUME IInv, NEW w \in Workers, work[w].at \in Point \ {"idle", "respond"},
         \A v \in Workers \ {w} : work'[v] = work[v], work'[w].key = work[w].key,
         work[w].at \in {"get", "count", "grant", "complete_commit"} =>
           work'[w].at \in {"get", "count", "grant", "complete_commit", "idle"},
         UNCHANGED <<owner, coded, cache, tables>>, broken \subseteq broken'
  PROVE  KeyInv'
<1>1. ASSUME NEW v \in Workers, NEW k \in Keys, Serving(v, k)'
      PROVE  Serving(v, k) /\ (At(v, "respond") => At(v, "respond")')
  BY <1>1 DEF Serving, Key, At, Point
<1>2. QED
  BY <1>1, KeysKept

LEMMA QuoteStep == ASSUME IInv, NEW w \in Workers, Quote(w) PROVE IInv'
<1> USE DEF Quote, NoFault, At
<1>1. PICK p \in {"wallet_lock", "promo_lock", "respond"} :
        Goto(w, p) /\ (p = "promo_lock" => WithPromo(w)) /\ (p = "wallet_lock" => ~WithPromo(w))
  BY DEF Quote
<1>2. /\ work' \in [Workers -> Job] /\ \A v \in Workers \ {w} : work'[v] = work[v]
      /\ work'[w].at = p /\ work'[w].key = Key(w)
  BY <1>1, Types, Moved DEF Point, Key
<1>3. KeyInv'
  BY <1>2, GoOnKeeps DEF Point, redis, Key
<1>4. QED
  BY <1>1, <1>2, <1>3, Types, CalmStep DEF redis, WithPromo

LEMMA PromoLockStep == ASSUME IInv, NEW w \in Workers, PromoLock(w) PROVE IInv'
<1> USE DEF PromoLock, NoFault, At
<1>1. PICK p \in {"promo", "respond"} : Goto(w, p)
  BY DEF PromoLock
<1>2. /\ work' \in [Workers -> Job] /\ \A v \in Workers \ {w} : work'[v] = work[v]
      /\ work'[w].at = p /\ work'[w].key = Key(w)
  BY <1>1, Types, Moved DEF Point, Key
<1>3. KeyInv'
  BY <1>2, GoOnKeeps DEF Point, Key
<1>4. WithPromo(w)
  BY DEF IInv, JobOK
<1>5. promoLock' \subseteq Workers
  BY Types
<1>6. QED
  BY <1>2, <1>3, <1>4, <1>5, Types, CalmStep DEF WithPromo

\* Only the row lock lets a request past the caps, whoever holds the one in Redis.
LEMMA RedeemStep == ASSUME IInv, NEW w \in Workers, Redeem(w) PROVE IInv'
<1> USE DEF Redeem, NoFault, At
<1>1. PICK p \in {"wallet", "respond"} : Goto(w, p) /\ (p = "wallet" => CapsLeft(Customer(w)))
  BY DEF Redeem
<1>2. /\ work' \in [Workers -> Job] /\ \A v \in Workers \ {w} : work'[v] = work[v]
      /\ work'[w].at = p /\ work'[w].key = Key(w)
  BY <1>1, Types, Moved DEF Point, Key
<1>3. KeyInv'
  BY <1>2, GoOnKeeps DEF Point, Key
<1>4. promoLock' \subseteq Workers
  BY Types DEF ReleasePromoLock, NoWorker
<1>5. TypeOK'
  BY <1>2, <1>4, Types, TypeKept
<1>6. WithPromo(w) /\ Key(w) \in Keys
  BY Types DEF IInv, JobOK
<1>7. Key(w)' = Key(w) /\ Customer(w)' = Customer(w) /\ (WithPromo(w)' <=> WithPromo(w))
  BY <1>2 DEF Key, Customer, WithPromo
<1>8. JobOK(w)'
  <2>1. CapsLeft(Customer(w))' <=> CapsLeft(Customer(w))
    BY <1>7, SameTables
  <2>2. QED
    BY <1>1, <1>2, <1>6, <1>7, <2>1 DEF JobOK, HoldsPromoRow, HoldsReferral
<1>9. ASSUME NEW v \in Workers \ {w} PROVE Excludes(v, w)'
  <2>1. ~HoldsPromoRow(v)
    BY DEF Free
  <2>2. ~HoldsPromoRow(v)'
    BY <1>2, <2>1 DEF HoldsPromoRow, WithPromo, Key
  <2>3. QED
    BY <1>2, <2>2 DEF Excludes, HoldsReferral, HoldsWallet
<1>10. QED
  BY <1>2, <1>3, <1>5, <1>8, <1>9, JobStep

LEMMA LesserIs ==
  ASSUME NEW a \in Int, NEW b \in Nat, a >= 0
  PROVE  Lesser(a, b) \in 0..b /\ Lesser(a, b) <= a
BY DEF Lesser

\* The balance is read and spent under the customer's lock.
LEMMA SpendStep == ASSUME IInv, NEW w \in Workers, Spend(w) PROVE IInv'
<1> USE DEF Spend, NoFault, At
<1> DEFINE sum == Lesser(wallet[Customer(w)], Due(Key(w)))
<1>1. Key(w) \in Keys /\ work[w] \in Job /\ Customer(w) \in Customers
  BY Types DEF IInv, TypeOK, Customer
<1>2. sum \in 0..Price /\ sum <= wallet[Customer(w)] /\ sum <= Due(Key(w))
  <2>1. wallet[Customer(w)] \in Int /\ wallet[Customer(w)] >= 0 /\ Due(Key(w)) \in 0..Price
    BY <1>1, DueInRange DEF IInv, TypeOK, WalletNeverNegative
  <2>2. sum \in 0..Due(Key(w)) /\ sum <= wallet[Customer(w)]
    BY <2>1, LesserIs, IntakeAssumption
  <2>3. QED
    BY <2>1, <2>2, IntakeAssumption
<1> HIDE DEF sum
<1> DEFINE job == [work[w] EXCEPT !.at = "commit", !.spend = sum]
<1>3. work' = [work EXCEPT ![w] = job] /\ job \in Job /\ job.at = "commit" /\ job.key = Key(w) /\ job.spend = sum
  <2>1. work' = [work EXCEPT ![w] = job]
    BY Types DEF sum
  <2>2. job \in Job /\ job.at = "commit" /\ job.key = Key(w) /\ job.spend = sum
    BY <1>1, <1>2 DEF Job, Point, Key
  <2>3. QED
    BY <2>1, <2>2
<1> HIDE DEF job
<1>4. /\ work' \in [Workers -> Job] /\ \A v \in Workers \ {w} : work'[v] = work[v]
      /\ work'[w].at = "commit" /\ work'[w].key = Key(w) /\ work'[w].spend = sum
  BY <1>3, Types, Replaced
<1>5. KeyInv'
  BY <1>4, GoOnKeeps DEF Point, Key, redis
<1>6. TypeOK'
  BY <1>4, Types, TypeKept DEF redis
<1>7. /\ Key(w)' = Key(w) /\ Customer(w)' = Customer(w) /\ Due(Key(w))' = Due(Key(w))
      /\ WithPromo(w)' <=> WithPromo(w)
      /\ CapsLeft(Customer(w))' <=> CapsLeft(Customer(w))
  BY <1>4, SameTables DEF Key, Customer, WithPromo
<1>8. HoldsPromoRow(w)' <=> HoldsPromoRow(w)
  <2>1. work[w].at = "wallet_lock" => ~WithPromo(w)
    BY DEF IInv, JobOK
  <2>2. QED
    BY <1>4, <1>7, <2>1 DEF HoldsPromoRow
<1>9. JobOK(w)'
  <2>1. HoldsPromoRow(w) => CapsLeft(Customer(w))
    BY DEF IInv, JobOK
  <2>2. QED
    BY <1>1, <1>2, <1>4, <1>7, <1>8, <2>1 DEF JobOK, HoldsReferral, tables
<1>10. ASSUME NEW v \in Workers \ {w} PROVE Excludes(v, w)'
  <2>1. Excludes(v, w) /\ (HoldsWallet(v) => Customer(v) # Customer(w))
    BY DEF IInv, Exclusive
  <2>2. QED
    BY <1>4, <1>7, <1>8, <2>1 DEF Excludes, HoldsPromoRow, HoldsReferral, HoldsWallet, Customer, Key, WithPromo
<1>11. QED
  BY <1>4, <1>5, <1>6, <1>9, <1>10, JobStep

LEMMA AbortStep ==
  ASSUME IInv, NEW w \in Workers, Abort(w) \/ AbortComplete(w) \/ Crash(w) PROVE IInv'
<1>1. CASE AbortComplete(w) \/ Crash(w)
  BY <1>1, Types, EndStep DEF AbortComplete, Crash
<1>2. CASE Abort(w)
  <2> USE <1>2 DEF Abort, InTransaction
  <2>1. PICK p \in {"promo", "wallet_lock", "respond_5xx"} :
          Goto(w, p) /\ (p = "promo" => WithPromo(w)) /\ (p = "wallet_lock" => ~WithPromo(w))
    BY DEF Abort
  <2>2. /\ work' \in [Workers -> Job] /\ \A v \in Workers \ {w} : work'[v] = work[v]
        /\ work'[w].at = p /\ work'[w].key = Key(w)
    BY <2>1, Types, Moved DEF Point, Key
  <2>3. KeyInv'
    BY <2>2, GoOnKeeps DEF Point, Key
  <2>4. promoLock' \subseteq Workers
    BY Types DEF ReleasePromoLock, NoWorker
  <2>5. Key(w) \in Keys
    BY Types DEF At
  <2>6. QED
    BY <2>1, <2>2, <2>3, <2>4, <2>5, Types, CalmStep DEF WithPromo
<1>3. QED
  BY <1>1, <1>2

\* A booking is added: it may count among the uses of the code, and belongs to its key.
LEMMA Booked ==
  ASSUME IInv, NEW w \in Workers, Book(w), Key(w) \in Keys
  PROVE  LET n == Len(bookings) + 1  k == Key(w)  c == Customer(w) IN
         /\ DOMAIN bookings' = 1..n /\ DOMAIN bookings = 1..(n - 1) /\ n \in Nat /\ n \notin DOMAIN bookings
         /\ \A b \in DOMAIN bookings : bookings'[b] = bookings[b]
         /\ bookings'[n].key = k
         /\ bookings' \in Seq(Booking)
         /\ Uses' = IF WithPromo(w) THEN Uses \cup {n} ELSE Uses
         /\ \A d : Of(d)' = IF d = c THEN Of(d) \cup {n} ELSE Of(d)
         /\ \A d : Completed(d)' = Completed(d)
         /\ \A l : BookedWith(l)' = IF l = k THEN BookedWith(l) \cup {n} ELSE BookedWith(l)
<1> DEFINE n == Len(bookings) + 1
           row == [key |-> Key(w), total |-> Due(Key(w)) - work[w].spend, status |-> "open", late |-> FALSE]
<1> USE DEF Book, At
<1>1. bookings \in Seq(Booking) /\ Len(bookings) \in Nat /\ DOMAIN bookings = 1..Len(bookings)
  BY LenProperties DEF IInv, TypeOK, Booking
<1>2. row \in Booking
  <2>1. /\ Due(Key(w)) \in 0..Price /\ work[w].spend \in 0..Price /\ Price \in Nat
        /\ work[w].spend <= Due(Key(w))
    BY DueInRange, Types, IntakeAssumption DEF IInv, JobOK, Job
  <2>2. Due(Key(w)) - work[w].spend \in 0..Price
    BY <2>1
  <2>3. QED
    BY <2>2 DEF Booking
<1>3. /\ bookings' = Append(bookings, row) /\ bookings' \in Seq(Booking)
      /\ Len(bookings') = n /\ bookings'[n] = row
      /\ \A b \in 1..Len(bookings) : bookings'[b] = bookings[b]
  BY <1>1, <1>2, AppendProperties
<1>4. DOMAIN bookings' = 1..n /\ DOMAIN bookings = 1..(n - 1) /\ n \in Nat /\ n \notin DOMAIN bookings
  BY <1>1, <1>3, LenProperties
<1>5. DOMAIN bookings' = DOMAIN bookings \cup {n}
  BY <1>1, <1>4
<1>6. row.key = Key(w) /\ row.status = "open"
  OBVIOUS
<1> HIDE DEF n, row
<1>7. Uses' = IF WithPromo(w) THEN Uses \cup {n} ELSE Uses
  BY <1>1, <1>3, <1>5, <1>6 DEF Uses, WithPromo
<1>8. \A d : Of(d)' = IF d = Customer(w) THEN Of(d) \cup {n} ELSE Of(d)
  BY <1>1, <1>3, <1>5, <1>6 DEF Of, Customer
<1>9. \A d : Completed(d)' = Completed(d)
  BY <1>1, <1>3, <1>5, <1>6, <1>8 DEF Completed, Of
<1>10. \A l : BookedWith(l)' = IF l = Key(w) THEN BookedWith(l) \cup {n} ELSE BookedWith(l)
  BY <1>1, <1>3, <1>5, <1>6 DEF BookedWith
<1>11. QED
  BY <1>1, <1>3, <1>4, <1>6, <1>7, <1>8, <1>9, <1>10 DEF n

LEMMA UsesFinite ==
  ASSUME TypeOK, NEW S PROVE IsFiniteSet(Uses \cap S) /\ IsFiniteSet(Uses)
<1>1. DOMAIN bookings = 1..Len(bookings) /\ Len(bookings) \in Nat
  BY LenProperties DEF TypeOK
<1>2. IsFiniteSet(DOMAIN bookings)
  BY <1>1, FS_Interval
<1>3. Uses \subseteq DOMAIN bookings
  BY DEF Uses
<1>4. QED
  BY <1>2, <1>3, FS_Subset

\* The caps were left, so with one more use they are still kept.
LEMMA BookedWithinCaps ==
  ASSUME IInv, NEW w \in Workers, Book(w), Key(w) \in Keys
  PROVE  PromoWithinCaps'
<1> DEFINE n == Len(bookings) + 1  U(c) == Uses \cap Of(c)
<1>1. PromoWithinCaps /\ redeemed \in Nat
  BY DEF IInv, TypeOK
<1>2. n \notin Uses /\ \A c : n \notin U(c)
  BY Booked DEF Uses
<1>3. IsFiniteSet(Uses) /\ \A c \in Customers : IsFiniteSet(U(c))
  BY UsesFinite DEF IInv
<1>4. /\ Cardinality(Uses \cup {n}) = Cardinality(Uses) + 1
      /\ \A c \in Customers : /\ Cardinality(U(c) \cup {n}) = Cardinality(U(c)) + 1
                              /\ Cardinality(U(c)) \in Nat
  BY <1>2, <1>3, FS_AddElement, FS_CardinalityType
<1>5. CASE WithPromo(w)
  <2>1. CapsLeft(Customer(w)) /\ redeemed' = redeemed + 1
    BY <1>5 DEF Book, At, IInv, JobOK, HoldsPromoRow
  <2>2. Uses' = Uses \cup {n} /\ \A c : U(c)' = IF c = Customer(w) THEN U(c) \cup {n} ELSE U(c)
    <3>1. Uses' = Uses \cup {n} /\ \A c : Of(c)' = IF c = Customer(w) THEN Of(c) \cup {n} ELSE Of(c)
      BY <1>5, Booked
    <3>2. \A c : n \notin Of(c)
      BY Booked DEF Of
    <3>3. QED
      BY <3>1, <3>2
  <2>3. redeemed' = Cardinality(Uses') /\ redeemed' <= MaxRedemptions
    BY <1>1, <1>4, <2>1, <2>2, IntakeAssumption DEF PromoWithinCaps, CapsLeft
  <2>4. ASSUME NEW c \in Customers PROVE Cardinality(U(c)') <= PerUserLimit
    <3>1. CASE c = Customer(w)
      <4>1. U(c)' = U(c) \cup {n}
        BY <2>2, <3>1
      <4>2. Cardinality(U(c) \cup {n}) = Cardinality(U(c)) + 1 /\ Cardinality(U(c)) \in Nat
        BY <1>4
      <4>3. Cardinality(U(c)) < PerUserLimit
        BY <2>1, <3>1 DEF CapsLeft
      <4> HIDE DEF U
      <4>4. QED
        BY <4>1, <4>2, <4>3, IntakeAssumption
    <3>2. CASE c # Customer(w)
      BY <1>1, <2>2, <3>2 DEF PromoWithinCaps
    <3>3. QED
      BY <3>1, <3>2
  <2>5. QED
    BY <2>3, <2>4 DEF PromoWithinCaps
<1>6. CASE ~WithPromo(w)
  <2>1. Uses' = Uses /\ redeemed' = redeemed
    BY <1>6, Booked DEF Book
  <2>2. \A c : U(c)' = U(c)
    BY <1>2, <2>1, Booked
  <2>3. QED
    BY <1>1, <2>1, <2>2 DEF PromoWithinCaps
<1>7. QED
  BY <1>5, <1>6

LEMMA BookStep ==
  ASSUME IInv, NEW w \in Workers, Commit(w) \/ CommitAnswerLost(w) PROVE IInv'
<1> DEFINE n == Len(bookings) + 1
<1>1. Book(w) /\ At(w, "commit") /\ Key(w) \in Keys /\ Customer(w) \in Customers /\ work[w] \in Job
  BY Types DEF Commit, CommitAnswerLost, Book, At, IInv, TypeOK, Customer
<1>2. PICK p \in {"respond", "respond_5xx"} :
        /\ Goto(w, p) /\ broken \subseteq broken' /\ broken' \subseteq Keys /\ faults' \in 0..MaxFaults
        /\ p = "respond" \/ Key(w) \in broken'
  BY <1>1, Types DEF Commit, CommitAnswerLost, NoFault
<1>3. /\ work' \in [Workers -> Job] /\ \A v \in Workers \ {w} : work'[v] = work[v]
      /\ work'[w].at = p /\ work'[w].key = Key(w)
  BY <1>2, Types, Moved DEF Point, Key
<1>4. UNCHANGED <<owner, coded, cache, granted>>
  BY <1>1 DEF Book
<1>5. /\ wallet \in [Customers -> Int] /\ work[w].spend \in Nat /\ work[w].spend <= wallet[Customer(w)]
      /\ \A c \in Customers : wallet'[c] = IF c = Customer(w) THEN wallet[c] - work[w].spend ELSE wallet[c]
      /\ wallet' \in [Customers -> Int]
  <2>1. wallet \in [Customers -> Int] /\ work[w].spend \in Nat /\ work[w].spend <= wallet[Customer(w)]
    BY <1>1 DEF IInv, TypeOK, JobOK, Job
  <2>2. QED
    BY <1>1, <2>1 DEF Book
<1>6. TypeOK'
  <2>1. redeemed' \in Nat /\ promoLock' \subseteq Workers
    BY <1>1, Types DEF Book, ReleasePromoLock, NoWorker, IInv, TypeOK
  <2>2. bookings' \in Seq(Booking)
    BY <1>1, Booked
  <2>3. QED
    BY <1>2, <1>3, <1>4, <1>5, <2>1, <2>2 DEF IInv, TypeOK, Job, Booking
<1>7. WalletNeverNegative'
  BY <1>4, <1>5 DEF IInv, WalletNeverNegative
<1>8. PromoWithinCaps'
  BY <1>1, BookedWithinCaps
<1>9. ReferralSettled'
  BY <1>1, <1>4, Booked DEF IInv, ReferralSettled
<1>10. ASSUME NEW v \in Workers \ {w} PROVE JobOK(v)' /\ Excludes(v, w)'
  <2>1. JobOK(v) /\ Excludes(v, w) /\ work'[v] = work[v]
    BY <1>3 DEF IInv, Exclusive
  <2>2. /\ (At(v, "commit")' <=> At(v, "commit")) /\ Key(v)' = Key(v) /\ Customer(v)' = Customer(v)
        /\ (WithPromo(v)' <=> WithPromo(v)) /\ (HoldsPromoRow(v)' <=> HoldsPromoRow(v))
        /\ (HoldsReferral(v)' <=> HoldsReferral(v))
    BY <1>4, <2>1 DEF At, Key, Customer, WithPromo, HoldsPromoRow, HoldsReferral
  <2>3. HoldsPromoRow(v) => CapsLeft(Customer(v))'
    <3>1. HoldsPromoRow(v) => ~WithPromo(w)
      BY <1>1, <2>1 DEF Excludes, HoldsPromoRow, At
    <3>2. ~WithPromo(w) => Uses' = Uses /\ redeemed' = redeemed
      BY <1>1, Booked DEF Book
    <3>3. \A c : Uses \cap Of(c)' = Uses \cap Of(c)
      BY <1>1, Booked DEF Uses
    <3>4. HoldsPromoRow(v) => CapsLeft(Customer(v))
      BY <2>1 DEF JobOK
    <3>5. QED
      BY <2>2, <3>1, <3>2, <3>3, <3>4 DEF CapsLeft
  <2>4. At(v, "commit") => work[v].spend <= wallet'[Customer(v)] /\ Due(Key(v))' = Due(Key(v))
    <3>1. At(v, "commit") => Customer(v) # Customer(w) /\ Customer(v) \in Customers
      BY <1>1, <2>1, Types DEF Excludes, HoldsWallet, At, IInv, TypeOK, Customer
    <3>2. Due(Key(v))' = Due(Key(v))
      BY <1>4, <2>2 DEF Due
    <3>3. At(v, "commit") => wallet'[Customer(v)] = wallet[Customer(v)]
      BY <1>5, <3>1
    <3>4. QED
      BY <2>1, <3>2, <3>3 DEF JobOK
  <2>5. work[v].at \in {"count", "grant", "complete_commit"} =>
          /\ work[v].booking \in DOMAIN bookings' /\ bookings'[work[v].booking].key = Key(v)
    <3>1. DOMAIN bookings \subseteq DOMAIN bookings' /\ \A b \in DOMAIN bookings : bookings'[b] = bookings[b]
      BY <1>1, Booked
    <3>2. QED
      BY <2>1, <3>1 DEF JobOK
  <2>6. JobOK(v)'
    BY <1>4, <2>1, <2>2, <2>3, <2>4, <2>5 DEF JobOK, At
  <2>7. Excludes(v, w)'
    BY <1>3 DEF Excludes, HoldsPromoRow, HoldsReferral, HoldsWallet, At
  <2>8. QED
    BY <2>6, <2>7
<1>11. JobOK(w)'
  BY <1>1, <1>3 DEF JobOK, At, Key, HoldsPromoRow, HoldsReferral
<1>12. Exclusive'
  <2>1. ASSUME NEW u \in Workers \ {w}, NEW v \in Workers \ {w}, u # v PROVE Excludes(u, v)'
    <3>1. Excludes(u, v) /\ work'[u] = work[u] /\ work'[v] = work[v]
      BY <1>3, <2>1 DEF IInv, Exclusive
    <3>2. QED
      BY <1>4, <3>1 DEF Excludes, HoldsPromoRow, HoldsReferral, HoldsWallet, At, Key, Customer, WithPromo
  <2>2. \A v \in Workers \ {w} : Excludes(v, w)' /\ Excludes(w, v)'
    BY <1>10 DEF Excludes
  <2>3. QED
    BY <2>1, <2>2 DEF Exclusive
<1>13. KeyInv'
  <2> SUFFICES ASSUME NEW l \in Keys, l \notin broken' PROVE KeyOK(l)'
    BY DEF KeyInv
  <2>1. KeyOK(l)
    BY <1>2 DEF IInv, KeyInv
  <2>2. \A v \in Workers : Serving(v, l)' <=> Serving(v, l)
    BY <1>1, <1>3 DEF Serving, Key, At
  <2>3. \A v \in Workers \ {w} : At(v, "respond")' <=> At(v, "respond")
    BY <1>3 DEF At
  <2>4. CASE l = Key(w)
    <3>1. Serving(w, l) /\ ~At(w, "respond")
      BY <1>1, <2>4 DEF Serving, At
    <3>2. At(w, "respond")'
      BY <1>2, <1>3, <2>4 DEF At
    <3>3. BookedWith(l) = {} /\ cache[l] # "none" /\ \A v \in Workers \ {w} : ~Serving(v, l)
      BY <2>1, <3>1 DEF KeyOK
    <3>4. BookedWith(l)' = {n}
      BY <1>1, <2>4, <3>3, Booked
    <3>5. QED
      BY <1>4, <2>2, <3>2, <3>3, <3>4 DEF KeyOK
  <2>5. CASE l # Key(w)
    <3>1. BookedWith(l)' = BookedWith(l)
      BY <1>1, <2>5, Booked
    <3>2. ~Serving(w, l)
      BY <2>5 DEF Serving
    <3>3. QED
      BY <1>4, <2>1, <2>2, <2>3, <3>1, <3>2 DEF KeyOK
  <2>6. QED
    BY <2>4, <2>5
<1>14. QED
  BY <1>3, <1>6, <1>7, <1>8, <1>9, <1>10, <1>11, <1>12, <1>13 DEF IInv

-----------------------------------------------------------------------------
(* complete, and the credits *)

LEMMA StartCompleteStep ==
  ASSUME IInv, NEW w \in Workers, NEW b \in DOMAIN bookings, StartComplete(w, b) PROVE IInv'
<1> USE DEF StartComplete, NoFault
<1> DEFINE job == [Idle EXCEPT !.at = "count", !.key = bookings[b].key, !.booking = b]
<1>1. b \in Nat /\ bookings[b].key \in Keys
  <2>1. bookings \in Seq(Booking)
    BY DEF IInv, TypeOK, Booking
  <2>2. b \in 1..Len(bookings) /\ Len(bookings) \in Nat
    BY <2>1, LenProperties
  <2>3. bookings[b] \in Booking
    BY <2>1, <2>2, ElementOfSeq
  <2>4. QED
    BY <2>2, <2>3 DEF Booking
<1>2. job \in Job /\ job.at = "count" /\ job.key = bookings[b].key /\ job.booking = b /\ ~job.ok
  BY <1>1, IdleOK DEF Job, Point, Idle
<1>3. work' = [work EXCEPT ![w] = job]
  OBVIOUS
<1> HIDE DEF job
<1>4. work' \in [Workers -> Job] /\ work'[w] = job /\ \A v \in Workers \ {w} : work'[v] = work[v]
  BY <1>2, <1>3, Types, Replaced
<1>5. KeyInv'
  <2>1. ASSUME NEW v \in Workers, NEW l \in Keys, Serving(v, l)'
        PROVE  Serving(v, l) /\ (At(v, "respond") => At(v, "respond")')
    BY <1>2, <1>4, <2>1 DEF Serving, Key, At
  <2>2. QED
    BY <2>1, KeysKept DEF redis
<1>6. QED
  BY <1>1, <1>2, <1>4, <1>5, Types, CalmStep DEF redis

\* A completion of the referred customer that claims nothing finds the grant made.
LEMMA CountCompletedStep == ASSUME IInv, NEW w \in Workers, CountCompleted(w) PROVE IInv'
<1> USE DEF CountCompleted, NoFault, At
<1> DEFINE p == IF Customer(w) = Referred /\ granted = 0 /\ Completed(Referred) = {}
                THEN "grant" ELSE "complete_commit"
<1>1. /\ work' \in [Workers -> Job] /\ \A v \in Workers \ {w} : work'[v] = work[v]
      /\ work'[w].at = p /\ work'[w].key = Key(w) /\ work'[w].booking = work[w].booking
      /\ work'[w].ok = work[w].ok
  BY Types, Moved DEF Point, Key
<1>2. PICK q \in {"grant", "complete_commit"} :
        /\ q = p
        /\ q = "grant" => Customer(w) = Referred
        /\ q = "complete_commit" => Customer(w) # Referred \/ granted # 0 \/ Completed(Referred) # {}
  OBVIOUS
<1>3. KeyInv'
  BY <1>1, <1>2, GoOnKeeps DEF Point, Key, redis
<1>4. TypeOK'
  BY <1>1, Types, TypeKept DEF redis
<1>5. JobOK(w) /\ Key(w) \in Keys
  BY Types DEF IInv
<1>6. ~work[w].ok
  BY DEF IInv, JobOK
<1>7. JobOK(w)'
  <2>1. Customer(w)' = Customer(w) /\ Key(w)' = Key(w)
    BY <1>1 DEF Customer, Key
  <2>2. granted \in {0, 1} /\ (Completed(Referred) # {} => granted = 1)
    BY DEF IInv, ReferralSettled
  <2>3. QED
    BY <1>1, <1>2, <1>5, <1>6, <2>1, <2>2 DEF JobOK, HoldsPromoRow, HoldsReferral, tables
<1>8. \A v \in Workers \ {w} : Excludes(v, w)'
  BY <1>1, <1>2, <1>6 DEF Excludes, HoldsPromoRow, HoldsReferral, HoldsWallet
<1>9. QED
  BY <1>1, <1>3, <1>4, <1>7, <1>8, JobStep

LEMMA ClaimGrantStep == ASSUME IInv, NEW w \in Workers, ClaimGrant(w) PROVE IInv'
<1> USE DEF ClaimGrant, NoFault, At
<1> DEFINE job == [work[w] EXCEPT !.at = "complete_commit", !.ok = (granted = 0)]
<1>1. work[w] \in Job /\ JobOK(w) /\ Key(w) \in Keys
  BY Types DEF IInv
<1>2. job \in Job /\ job.at = "complete_commit" /\ job.key = Key(w) /\ job.booking = work[w].booking
  BY <1>1 DEF Job, Point, Key
<1>3. job.ok <=> granted = 0
  BY <1>1, Zenon DEF Job
<1>4. work' = [work EXCEPT ![w] = job]
  BY Types
<1> HIDE DEF job
<1>5. work' \in [Workers -> Job] /\ work'[w] = job /\ \A v \in Workers \ {w} : work'[v] = work[v]
  BY <1>2, <1>4, Types, Replaced
<1>6. KeyInv'
  BY <1>2, <1>5, GoOnKeeps DEF Point, Key, redis
<1>7. TypeOK'
  BY <1>5, Types, TypeKept DEF redis
<1>8. JobOK(w)'
  <2>1. Customer(w)' = Customer(w) /\ Key(w)' = Key(w)
    BY <1>2, <1>5 DEF Customer, Key
  <2>2. granted \in {0, 1}
    BY DEF IInv, ReferralSettled
  <2>3. QED
    BY <1>1, <1>2, <1>3, <1>5, <2>1, <2>2 DEF JobOK, HoldsPromoRow, HoldsReferral, tables
<1>9. ASSUME NEW v \in Workers \ {w} PROVE Excludes(v, w)'
  <2>1. ~HoldsReferral(v) /\ work'[v] = work[v]
    BY <1>5 DEF Free
  <2>2. QED
    BY <1>2, <1>5, <2>1 DEF Excludes, HoldsPromoRow, HoldsReferral, HoldsWallet
<1>10. QED
  BY <1>5, <1>6, <1>7, <1>8, <1>9, JobStep

\* A booking's row is rewritten, its key kept.
LEMMA Rewritten ==
  ASSUME IInv, NEW b \in DOMAIN bookings, NEW row \in Booking, row.key = bookings[b].key,
         bookings' = [bookings EXCEPT ![b] = row], UNCHANGED <<owner, coded>>
  PROVE  /\ bookings' \in Seq(Booking) /\ DOMAIN bookings' = DOMAIN bookings
         /\ \A d \in DOMAIN bookings : bookings'[d].key = bookings[d].key
         /\ \A d \in DOMAIN bookings \ {b} : bookings'[d] = bookings[d]
         /\ bookings'[b] = row
         /\ Uses' = Uses /\ \A c : Of(c)' = Of(c)
         /\ \A l : BookedWith(l)' = BookedWith(l)
<1>1. bookings \in Seq(Booking) /\ b \in 1..Len(bookings)
  BY LenProperties DEF IInv, TypeOK, Booking
<1>2. bookings' \in Seq(Booking)
  BY <1>1, ExceptSeq
<1>3. DOMAIN bookings' = DOMAIN bookings
  OBVIOUS
<1>4. bookings'[b] = row /\ \A d \in DOMAIN bookings \ {b} : bookings'[d] = bookings[d]
  OBVIOUS
<1>5. \A d \in DOMAIN bookings : bookings'[d].key = bookings[d].key
  BY <1>4
<1>6. Uses' = Uses /\ \A c : Of(c)' = Of(c)
  BY <1>3, <1>5 DEF Uses, Of
<1>7. \A l : BookedWith(l)' = BookedWith(l)
  BY <1>3, <1>5 DEF BookedWith
<1>8. QED
  BY <1>2, <1>3, <1>4, <1>5, <1>6, <1>7

LEMMA Grown ==
  ASSUME NEW old \in [Customers -> Int], NEW o \in Customers, NEW sum \in Nat, NEW new,
         new = old \/ new = [old EXCEPT ![o] = old[o] + sum]
  PROVE  new \in [Customers -> Int] /\ \A c \in Customers : old[c] \in Int /\ old[c] <= new[c]
OBVIOUS

\* The completion commits, and with it the referrer's credit if it claimed the grant.
LEMMA CommitCompleteStep == ASSUME IInv, NEW w \in Workers, CommitComplete(w) PROVE IInv'
<1> USE DEF CommitComplete, NoFault, At, redis
<1>1. JobOK(w) /\ Key(w) \in Keys /\ work[w] \in Job
  BY Types DEF IInv
<1>2. PICK b \in DOMAIN bookings : b = work[w].booking /\ bookings[b].key = Key(w)
  BY <1>1 DEF JobOK
<1> DEFINE row == [bookings[b] EXCEPT !.status = "completed"]
<1>3. row \in Booking /\ row.key = bookings[b].key /\ row.status = "completed"
  <2>1. bookings \in Seq(Booking) /\ b \in 1..Len(bookings)
    BY LenProperties DEF IInv, TypeOK, Booking
  <2>2. bookings[b] \in Booking
    BY <2>1, ElementOfSeq
  <2>3. QED
    BY <2>2 DEF Booking
<1>4. bookings' = [bookings EXCEPT ![b] = row]
  BY <1>2
<1> HIDE DEF row
<1>5. /\ bookings' \in Seq(Booking) /\ DOMAIN bookings' = DOMAIN bookings
      /\ \A d \in DOMAIN bookings : bookings'[d].key = bookings[d].key
      /\ \A d \in DOMAIN bookings \ {b} : bookings'[d] = bookings[d]
      /\ bookings'[b] = row
      /\ Uses' = Uses /\ \A c : Of(c)' = Of(c)
      /\ \A l : BookedWith(l)' = BookedWith(l)
  BY <1>3, <1>4, Rewritten
<1>6. work'[w] = Idle /\ work' \in [Workers -> Job] /\ \A v \in Workers \ {w} : work'[v] = work[v]
  BY Types, IdleOK, Replaced
<1>7. /\ wallet' \in [Customers -> Int] /\ granted' \in Nat
      /\ \A c \in Customers : wallet[c] \in Int /\ wallet[c] <= wallet'[c]
  <2>1. wallet \in [Customers -> Int] /\ granted \in Nat /\ Credit \in Nat
    BY IntakeAssumption DEF IInv, TypeOK
  <2>2. wallet' = wallet \/ wallet' = [wallet EXCEPT ![Referrer] = wallet[Referrer] + Credit]
    OBVIOUS
  <2>3. granted' \in Nat
    BY <2>1
  <2>4. QED
    BY <2>1, <2>2, <2>3, Grown, IntakeAssumption
<1>8. TypeOK'
  BY <1>5, <1>6, <1>7 DEF IInv, TypeOK, Job, Booking
<1>9. WalletNeverNegative'
  BY <1>7 DEF IInv, WalletNeverNegative
<1>10. PromoWithinCaps'
  BY <1>5 DEF IInv, PromoWithinCaps
<1>11. /\ Customer(w) = Referred => Completed(Referred)' # {}
       /\ Customer(w) # Referred => Completed(Referred)' = Completed(Referred)
  <2>1. b \in Of(Customer(w)) /\ (Customer(w) # Referred => b \notin Of(Referred))
    BY <1>2 DEF Of, Customer
  <2>2. \A d \in Of(Referred) : d \in DOMAIN bookings
    BY DEF Of
  <2>3. QED
    BY <1>3, <1>5, <2>1, <2>2 DEF Completed
<1>12. /\ Customer(w) = Referred => granted' = 1
       /\ Customer(w) # Referred => granted' = granted
  <2>1. CASE work[w].ok
    BY <1>1, <2>1 DEF JobOK, HoldsReferral
  <2>2. CASE ~work[w].ok
    BY <1>1, <2>2 DEF JobOK
  <2>3. QED
    BY <2>1, <2>2
<1>13. ReferralSettled'
  BY <1>11, <1>12 DEF IInv, ReferralSettled
<1>14. ASSUME NEW v \in Workers \ {w} PROVE JobOK(v)'
  <2>1. JobOK(v) /\ work'[v] = work[v] /\ Excludes(v, w)
    BY <1>6 DEF IInv, Exclusive
  <2>2. /\ Key(v)' = Key(v) /\ Customer(v)' = Customer(v) /\ (WithPromo(v)' <=> WithPromo(v))
        /\ (HoldsPromoRow(v)' <=> HoldsPromoRow(v)) /\ (HoldsReferral(v)' <=> HoldsReferral(v))
        /\ Due(Key(v))' = Due(Key(v))
    BY <2>1 DEF Key, Customer, WithPromo, HoldsPromoRow, HoldsReferral, Due
  <2>3. CapsLeft(Customer(v))' <=> CapsLeft(Customer(v))
    BY <1>5, <2>2 DEF CapsLeft
  <2>4. At(v, "commit") => work[v].spend <= wallet'[Customer(v)]
    <3>1. At(v, "commit") => Customer(v) \in Customers /\ work[v].spend \in Nat
      <4>1. work[v] \in Job /\ (At(v, "commit") => Key(v) \in Keys)
        BY Types DEF At
      <4>2. QED
        BY <4>1, IntakeAssumption DEF IInv, TypeOK, Customer, Job
    <3>2. QED
      BY <1>7, <2>1, <3>1 DEF JobOK
  <2>5. HoldsReferral(v) => granted' = 0
    <3>1. HoldsReferral(v) => ~work[w].ok /\ granted = 0
      BY <2>1 DEF Excludes, HoldsReferral, JobOK
    <3>2. QED
      BY <3>1
  <2>6. At(v, "complete_commit") /\ ~work[v].ok /\ Customer(v) = Referred => granted' = 1
    BY <1>1, <2>1 DEF JobOK, HoldsReferral
  <2>7. work[v].at \in {"count", "grant", "complete_commit"} =>
          /\ work[v].booking \in DOMAIN bookings' /\ bookings'[work[v].booking].key = Key(v)
    BY <1>5, <2>1 DEF JobOK
  <2>8. QED
    BY <2>1, <2>2, <2>3, <2>4, <2>5, <2>6, <2>7 DEF JobOK
<1>15. JobOK(w)'
  BY <1>6 DEF JobOK, Idle, HoldsPromoRow, HoldsReferral
<1>16. Exclusive'
  <2>1. ASSUME NEW u \in Workers, NEW v \in Workers, u # v PROVE Excludes(u, v)'
    <3>1. CASE u = w \/ v = w
      BY <1>6, <3>1 DEF Excludes, HoldsPromoRow, HoldsReferral, HoldsWallet, Idle
    <3>2. CASE u # w /\ v # w
      <4>1. Excludes(u, v) /\ work'[u] = work[u] /\ work'[v] = work[v]
        BY <1>6, <2>1, <3>2 DEF IInv, Exclusive
      <4>2. QED
        BY <4>1 DEF Excludes, HoldsPromoRow, HoldsReferral, HoldsWallet, Key, Customer, WithPromo
    <3>3. QED
      BY <3>1, <3>2
  <2>2. QED
    BY <2>1 DEF Exclusive
<1>17. KeyInv'
  <2> SUFFICES ASSUME NEW l \in Keys, l \notin broken PROVE KeyOK(l)'
    BY DEF KeyInv
  <2>1. KeyOK(l) /\ BookedWith(l)' = BookedWith(l)
    BY <1>5 DEF IInv, KeyInv
  <2>2. ~Serving(w, l)'
    BY <1>6 DEF Serving, Idle
  <2>3. \A v \in Workers \ {w} : (Serving(v, l)' <=> Serving(v, l)) /\ (At(v, "respond")' <=> At(v, "respond"))
    BY <1>6 DEF Serving, Key
  <2>4. QED
    BY <2>1, <2>2, <2>3 DEF KeyOK
<1>18. QED
  BY <1>6, <1>8, <1>9, <1>10, <1>13, <1>14, <1>15, <1>16, <1>17 DEF IInv

\* A credit for a late arrival can only make a wallet larger.
LEMMA CompensateLateStep ==
  ASSUME IInv, NEW b \in DOMAIN bookings, CompensateLate(b) PROVE IInv'
<1> USE DEF CompensateLate, NoFault, redis
<1> DEFINE row == [bookings[b] EXCEPT !.late = TRUE]
<1>1. row \in Booking /\ row.key = bookings[b].key /\ row.status = bookings[b].status
  <2>1. bookings \in Seq(Booking) /\ b \in 1..Len(bookings)
    BY LenProperties DEF IInv, TypeOK, Booking
  <2>2. bookings[b] \in Booking
    BY <2>1, ElementOfSeq
  <2>3. QED
    BY <2>2 DEF Booking
<1>2. bookings' = [bookings EXCEPT ![b] = row]
  OBVIOUS
<1> HIDE DEF row
<1>3. /\ bookings' \in Seq(Booking) /\ DOMAIN bookings' = DOMAIN bookings
      /\ \A d \in DOMAIN bookings : bookings'[d].key = bookings[d].key
      /\ \A d \in DOMAIN bookings \ {b} : bookings'[d] = bookings[d]
      /\ bookings'[b] = row
      /\ Uses' = Uses /\ \A c : Of(c)' = Of(c)
      /\ \A l : BookedWith(l)' = BookedWith(l)
  BY <1>1, <1>2, Rewritten
<1>4. /\ wallet' \in [Customers -> Int]
      /\ \A c \in Customers : wallet[c] \in Int /\ wallet[c] <= wallet'[c]
  <2>1. wallet \in [Customers -> Int] /\ Credit \in Nat
    BY IntakeAssumption DEF IInv, TypeOK
  <2>2. PICK o \in Customers : wallet' = [wallet EXCEPT ![o] = wallet[o] + Credit]
    <3>1. bookings \in Seq(Booking) /\ b \in 1..Len(bookings)
      BY LenProperties DEF IInv, TypeOK, Booking
    <3>2. bookings[b] \in Booking
      BY <3>1, ElementOfSeq
    <3>3. owner[bookings[b].key] \in Customers
      BY <3>2 DEF Booking, IInv, TypeOK
    <3>4. QED
      BY <3>3
  <2>3. QED
    BY <2>1, <2>2, Grown
<1>5. TypeOK' /\ work' \in [Workers -> Job]
  BY <1>3, <1>4 DEF IInv, TypeOK, Booking
<1>6. WalletNeverNegative' /\ PromoWithinCaps'
  <2>1. WalletNeverNegative'
    BY <1>4 DEF IInv, WalletNeverNegative
  <2>2. PromoWithinCaps'
    BY <1>3 DEF IInv, PromoWithinCaps
  <2>3. QED
    BY <2>1, <2>2
<1>7. \A c : Completed(c)' = Completed(c)
  BY <1>1, <1>3 DEF Completed, Of
<1>8. ReferralSettled'
  BY <1>7 DEF IInv, ReferralSettled
<1>9. ASSUME NEW v \in Workers PROVE JobOK(v)'
  <2>1. JobOK(v)
    BY DEF IInv
  <2>2. CapsLeft(Customer(v))' <=> CapsLeft(Customer(v))
    BY <1>3 DEF CapsLeft, Customer, Key
  <2>3. At(v, "commit") => work[v].spend <= wallet'[Customer(v)]
    <3>1. At(v, "commit") => Customer(v) \in Customers /\ work[v].spend \in Nat
      <4>1. work[v] \in Job /\ (At(v, "commit") => Key(v) \in Keys)
        BY Types DEF At
      <4>2. QED
        BY <4>1, IntakeAssumption DEF IInv, TypeOK, Customer, Job
    <3>2. QED
      BY <1>4, <2>1, <3>1 DEF JobOK
  <2>4. work[v].at \in {"count", "grant", "complete_commit"} =>
          /\ work[v].booking \in DOMAIN bookings' /\ bookings'[work[v].booking].key = Key(v)
    BY <1>3, <2>1 DEF JobOK
  <2>5. QED
    BY <2>1, <2>2, <2>3, <2>4 DEF JobOK, At, Key, Customer, WithPromo, HoldsPromoRow, HoldsReferral, Due
<1>10. Exclusive'
  BY DEF IInv, Exclusive, Excludes, HoldsPromoRow, HoldsReferral, HoldsWallet, At, Key, Customer, WithPromo
<1>11. KeyInv'
  BY <1>3 DEF IInv, KeyInv, KeyOK, Serving, At, Key
<1>12. QED
  BY <1>5, <1>6, <1>8, <1>9, <1>10, <1>11 DEF IInv

-----------------------------------------------------------------------------
LEMMA Preserved == IInv /\ [Next]_vars => IInv'
<1> SUFFICES ASSUME IInv, [Next]_vars PROVE IInv'
  OBVIOUS
<1>1. CASE UNCHANGED vars
  <2> USE <1>1 DEF vars, redis
  <2>1. TypeOK' /\ work' \in [Workers -> Job]
    BY DEF IInv, TypeOK, tables
  <2>2. KeyInv'
    BY KeysKept DEF Serving, Key, At
  <2>3. \A w \in Workers : JobOK(w)'
    BY SameTables DEF IInv, JobOK, At, Key, Customer, WithPromo, HoldsPromoRow, HoldsReferral, tables
  <2>4. Exclusive'
    BY DEF IInv, Exclusive, Excludes, At, Key, Customer, WithPromo, HoldsPromoRow, HoldsReferral, HoldsWallet
  <2>5. WalletNeverNegative' /\ PromoWithinCaps' /\ ReferralSettled'
    BY SameTables DEF IInv, WalletNeverNegative, PromoWithinCaps, ReferralSettled, tables
  <2>6. QED
    BY <2>1, <2>2, <2>3, <2>4, <2>5 DEF IInv
<1>2. ASSUME NEW w \in Workers,
             \/ \E k \in Keys : Arrive(w, k) \/ ArriveSecond(w, k) \/ ArriveUncached(w, k)
             \/ Create(w)
      PROVE  IInv'
  BY <1>2, ArriveStep, ArriveSecondStep, ReplayStep, QuoteStep, PromoLockStep, RedeemStep, SpendStep,
     BookStep, RespondStep DEF Create
<1>3. ASSUME NEW w \in Workers,
             \/ Complete(w) \/ CommitAnswerLost(w) \/ Abort(w) \/ AbortComplete(w) \/ Crash(w)
             \/ \E b \in DOMAIN bookings : StartComplete(w, b)
      PROVE  IInv'
  BY <1>3, CountCompletedStep, ClaimGrantStep, CommitCompleteStep, BookStep, AbortStep, StartCompleteStep
     DEF Complete
<1>4. QED
  BY <1>1, <1>2, <1>3, ExpireStep, CompensateLateStep DEF Next

LEMMA Invariance == Spec => []IInv
<1>1. Init => IInv
  BY Initially
<1>2. IInv /\ [Next]_vars => IInv'
  BY Preserved
<1>3. QED
  BY <1>1, <1>2, PTL DEF Spec

-----------------------------------------------------------------------------
\* Every variable keeps its type; no booking has a negative total.
THEOREM TypeCorrect == Spec => []TypeOK
<1>1. IInv => TypeOK
  BY DEF IInv
<1>2. QED
  BY <1>1, Invariance, PTL

\* No two bookings spend the same credit (ServiceCreditService.redeem).
THEOREM WalletIsCovered == Spec => []WalletNeverNegative
<1>1. IInv => WalletNeverNegative
  BY DEF IInv
<1>2. QED
  BY <1>1, Invariance, PTL

\* Neither cap of a promo code is exceeded, with or without its Redis lock
\* (PromoService.redeem).
THEOREM CapsAreKept == Spec => []PromoWithinCaps
<1>1. IInv => PromoWithinCaps
  BY DEF IInv
<1>2. QED
  BY <1>1, Invariance, PTL

\* The referrer is credited once, when a first booking is completed
\* (ReferralService.creditReferrerIfFirstBooking).
THEOREM ReferrerIsCreditedOnce == Spec => []ReferralSettled
<1>1. IInv => ReferralSettled
  BY DEF IInv
<1>2. QED
  BY <1>1, Invariance, PTL

\* A key whose entry no fault took away makes one booking (idempotency).
THEOREM KeysDeduplicate == Spec => []OneBookingPerKey
<1>1. IInv => OneBookingPerKey
  <2> SUFFICES ASSUME IInv, NEW k \in Keys \ broken PROVE Cardinality(BookedWith(k)) <= 1
    BY DEF OneBookingPerKey
  <2>1. \A b, d \in BookedWith(k) : b = d
    BY DEF IInv, KeyInv, KeyOK
  <2>2. CASE BookedWith(k) = {}
    BY <2>2, FS_EmptySet
  <2>3. CASE BookedWith(k) # {}
    <3>1. PICK b : BookedWith(k) = {b}
      BY <2>1, <2>3
    <3>2. Cardinality({b}) = 1
      BY FS_Singleton
    <3>3. QED
      BY <3>1, <3>2
  <2>4. QED
    BY <2>2, <2>3
<1>2. QED
  BY <1>1, Invariance, PTL

-----------------------------------------------------------------------------
(***************************************************************************)
(* Theorems about Quote, for any lines, prices, threshold and number of    *)
(* calls.  An accepted quote becomes a booking by the call that Intake     *)
(* models; its tables and calls are others, under other names.             *)
(***************************************************************************)
-----------------------------------------------------------------------------
(* The sum of the lines *)

\* The recursion behind Sum: take one line, add the sum of the others.
SumOf(f) == SumFunctionOnSet(f, Lines)
Pick(s) == CHOOSE l \in s : TRUE
SumStep(f, g, s) == IF s = {} THEN 0 ELSE f[Pick(s)] + g[s \ {Pick(s)}]
Adds(f, g, D) == g = [s \in D |-> SumStep(f, g, s)]

\* The sets of up to n lines, on which the recursion is defined one n at a time.
Small(n) == {s \in SUBSET Lines : Cardinality(s) <= n}

LEMMA SumIsRecursive ==
  ASSUME NEW f
  PROVE  SumOf(f) = (CHOOSE g : Adds(f, g, SUBSET Lines))[Lines]
BY DEF SumOf, SumFunctionOnSet, FoldFunctionOnSet, MapThenFoldSet, Adds,
       SumStep, Pick

\* Induction without a predicate: a set of numbers has a least one.
LEMMA LeastNumber ==
  ASSUME NEW T \in SUBSET Nat, T # {}
  PROVE  \E n \in T : \A m \in T : ~(m < n)
<1>1. PICK n \in T : \A m \in T : <<m, n>> \notin OpToRel(<, Nat)
  BY WFMin, NatLessThanWellFounded
<1>2. QED
  BY <1>1 DEF OpToRel

LEMMA WithoutOne ==
  ASSUME IsFiniteSet(Lines), NEW s \in SUBSET Lines, s # {}
  PROVE  /\ Pick(s) \in s
         /\ IsFiniteSet(s) /\ s \ {Pick(s)} \in SUBSET Lines
         /\ Cardinality(s) \in Nat /\ Cardinality(s \ {Pick(s)}) \in Nat
         /\ Cardinality(s \ {Pick(s)}) = Cardinality(s) - 1
<1>1. Pick(s) \in s
  BY DEF Pick
<1>2. IsFiniteSet(s)
  BY FS_Subset
<1>3. QED
  BY <1>1, <1>2, FS_RemoveElement, FS_CardinalityType

\* Such a function exists, because there are finitely many lines.
LEMMA SumExists ==
  ASSUME IsFiniteSet(Lines), NEW f
  PROVE  \E g : Adds(f, g, SUBSET Lines)
<1> DEFINE T == {n \in Nat : ~\E g : Adds(f, g, Small(n))}
<1>1. ASSUME T # {} PROVE FALSE
  <2>1. PICK n \in T : \A m \in T : ~(m < n)
    BY <1>1, LeastNumber
  <2>2. CASE n = 0
    <3>1. Small(0) = {{}}
      <4>1. ASSUME NEW s \in SUBSET Lines, Cardinality(s) <= 0 PROVE s = {}
        BY <4>1, FS_Subset, FS_EmptySet, FS_CardinalityType
      <4>2. Cardinality({}) = 0
        BY FS_EmptySet
      <4>3. QED
        BY <4>1, <4>2 DEF Small
    <3>2. Adds(f, [s \in {{}} |-> 0], {{}})
      BY DEF Adds, SumStep
    <3>3. QED
      BY <2>2, <3>1, <3>2
  <2>3. CASE n # 0
    <3>1. n - 1 \in Nat /\ n - 1 < n
      BY <2>3
    <3>2. PICK g : Adds(f, g, Small(n - 1))
      BY <2>1, <3>1
    <3> DEFINE h == [s \in Small(n) |-> SumStep(f, g, s)]
    <3>3. ASSUME NEW s \in Small(n), s # {} PROVE s \ {Pick(s)} \in Small(n - 1)
      BY <3>3, WithoutOne DEF Small
    <3>4. ASSUME NEW s \in Small(n - 1) PROVE h[s] = g[s]
      <4>1. s \in Small(n)
        BY <3>1, FS_Subset, FS_CardinalityType DEF Small
      <4>2. g[s] = SumStep(f, g, s)
        BY <3>2 DEF Adds
      <4>3. QED
        BY <4>1, <4>2
    <3>5. ASSUME NEW s \in Small(n) PROVE SumStep(f, g, s) = SumStep(f, h, s)
      BY <3>3, <3>4 DEF SumStep
    <3>6. Adds(f, h, Small(n))
      BY <3>5 DEF Adds
    <3>7. QED
      BY <3>6
  <2>4. QED
    BY <2>2, <2>3
<1>2. Cardinality(Lines) \in Nat
  BY FS_CardinalityType
<1>3. Small(Cardinality(Lines)) = SUBSET Lines
  BY FS_Subset DEF Small
<1>4. Cardinality(Lines) \notin T
  BY <1>1
<1>5. QED
  BY <1>2, <1>3, <1>4

\* What is true of the empty sum and kept by adding a line is true of the sum.
LEMMA SumInduction ==
  ASSUME IsFiniteSet(Lines), NEW f, NEW P, 0 \in P, \A l \in Lines, x \in P : f[l] + x \in P
  PROVE  SumOf(f) \in P
<1> DEFINE g == CHOOSE g : Adds(f, g, SUBSET Lines)
<1>1. Adds(f, g, SUBSET Lines)
  BY SumExists
<1> HIDE DEF g
<1>2. \A s \in SUBSET Lines : g[s] = SumStep(f, g, s)
  BY <1>1 DEF Adds
<1> DEFINE T == {n \in Nat : \E s \in SUBSET Lines : Cardinality(s) = n /\ g[s] \notin P}
<1>3. ASSUME T # {} PROVE FALSE
  <2>1. PICK n \in T : \A m \in T : ~(m < n)
    BY <1>3, LeastNumber
  <2>2. PICK s \in SUBSET Lines : Cardinality(s) = n /\ g[s] \notin P
    OBVIOUS
  <2>3. s # {}
    BY <1>2, <2>2 DEF SumStep
  <2>4. Cardinality(s \ {Pick(s)}) = n - 1 /\ n - 1 \in Nat /\ Pick(s) \in Lines
        /\ s \ {Pick(s)} \in SUBSET Lines
    BY <2>2, <2>3, WithoutOne
  <2>5. g[s \ {Pick(s)}] \in P
    BY <2>1, <2>4
  <2>6. QED
    BY <1>2, <2>2, <2>3, <2>4, <2>5 DEF SumStep
<1>4. Cardinality(Lines) \in Nat
  BY FS_CardinalityType
<1>5. g[Lines] \in P
  BY <1>3, <1>4
<1>6. QED
  BY <1>5, SumIsRecursive DEF g

LEMMA SumOfNothing ==
  ASSUME IsFiniteSet(Lines), NEW f, \A l \in Lines : f[l] = 0
  PROVE  SumOf(f) = 0
<1>1. 0 \in {0} /\ \A l \in Lines, x \in {0} : f[l] + x \in {0}
  OBVIOUS
<1>2. SumOf(f) \in {0}
  BY <1>1, SumInduction
<1>3. QED
  BY <1>2

LEMMA SumIsNat ==
  ASSUME IsFiniteSet(Lines), NEW f \in [Lines -> Nat]
  PROVE  SumOf(f) \in Nat
<1>1. 0 \in Nat /\ \A l \in Lines, x \in Nat : f[l] + x \in Nat
  OBVIOUS
<1>2. QED
  BY <1>1, SumInduction

-----------------------------------------------------------------------------
(* A quote while calls are under way *)

Starts(w) == \/ Draft(w) \/ OpsReview(w) \/ SendItemized(w)
             \/ SetQuote(w) \/ Accept(w)
GoesOn(w) == \/ WriteLine(w) \/ ReadLines(w) \/ WriteTotal(w)
             \/ WriteReview(w) \/ WriteQuoted(w) \/ WriteExpired(w)
             \/ CreateBooking(w) \/ LinkBooking(w)

Call == [at : {"idle", "line", "sum", "total", "review", "send", "firm", "expire", "create",
               "link"},
         line : Lines \cup {"none"}, amt : Nat]

QuoteTypes ==
  /\ status \in {"PENDING", "QUOTED", "EXPIRED", "ACCEPTED"}
  /\ lines \in [Lines -> Nat] /\ total \in Nat /\ quoted \in Nat /\ booking \in Nat
  /\ reviewed \in BOOLEAN /\ itemized \in BOOLEAN /\ lapsed \in BOOLEAN /\ disturbed \in BOOLEAN
  /\ created \in Seq([price : Nat, total : Nat])
  /\ calls \in [Callers -> Call]

\* The gate is passed when a send starts, and a review is never taken back.
GateInv ==
  /\ \A w \in Callers : CallAt(w, "send") /\ calls[w].amt >= Threshold => reviewed
  /\ itemized /\ quoted >= Threshold => reviewed

OffReviewed == Present \cap OffCatalogue # {} => reviewed

\* One booking was created, at that price and for no more than that.
ChargedAtMost(price) == \E due \in 0..price : created = <<[price |-> price, total |-> due]>>

\* What a call has read is still so, as long as it is the only one.
CallOK(c) ==
  /\ c.at \in {"line", "sum", "total", "review", "send", "firm"} => status = "PENDING"
  /\ c.at \in {"expire", "create", "link"} => status = "QUOTED"
  /\ c.at = "total" => c.amt = Sum
  /\ c.at = "send" => c.amt = total /\ OffReviewed
  /\ c.at = "create" => c.amt = quoted
  /\ c.at = "link" => ChargedAtMost(quoted) /\ c.amt = 1

AloneInv == \A v, w \in Callers : ~CallAt(v, "idle") /\ ~CallAt(w, "idle") => v = w
TotalInv == (\A w \in Callers : calls[w].at \notin {"sum", "total"}) => total = Sum
SentInv == Priced /\ itemized => quoted = Sum /\ OffReviewed
BookedInv ==
  (\A w \in Callers : ~CallAt(w, "link")) =>
    IF status = "ACCEPTED" THEN BookedAtQuote ELSE created = <<>> /\ booking = 0

SerialInv ==
  ~disturbed => /\ AloneInv /\ TotalInv /\ SentInv /\ BookedInv
                /\ \A w \in Callers : CallOK(calls[w])

-----------------------------------------------------------------------------
LEMMA SumOfLines == Sum = SumOf(lines) /\ Sum' = SumOf(lines')
BY DEF Sum, SumOf

LEMMA LinesAreFinite == IsFiniteSet(Lines)
BY QuoteAssumption

LEMMA QuoteInitially == QuoteInit => QuoteTypes /\ GateInv /\ SerialInv
<1> SUFFICES ASSUME QuoteInit PROVE QuoteTypes /\ GateInv /\ SerialInv
  OBVIOUS
<1>1. NoCall \in Call
  BY DEF NoCall, Call
<1>2. QuoteTypes
  <2>1. created \in Seq([price : Nat, total : Nat])
    BY DEF QuoteInit
  <2>2. QED
    BY <1>1, <2>1 DEF QuoteInit, QuoteTypes
<1>3. GateInv
  BY DEF QuoteInit, GateInv, CallAt, NoCall
<1>4. total = Sum
  BY SumOfLines, SumOfNothing, LinesAreFinite DEF QuoteInit
<1>5. SerialInv
  BY <1>4 DEF QuoteInit, SerialInv, AloneInv, TotalInv, SentInv, BookedInv, CallOK,
              Priced, CallAt, NoCall
<1>6. QED
  BY <1>2, <1>3, <1>5

-----------------------------------------------------------------------------
(* Types *)

LEMMA StartTypes ==
  ASSUME QuoteTypes, NEW w \in Callers, NEW c \in Call, Start(w, c)
  PROVE  QuoteTypes'
BY DEF QuoteTypes, Start, quote

LEMMA WriteTypes ==
  ASSUME QuoteTypes, NEW w \in Callers, NEW c \in Call, Write(w, c)
  PROVE  calls' \in [Callers -> Call] /\ disturbed' \in BOOLEAN
BY DEF QuoteTypes, Write

LEMMA QuoteStarts ==
  ASSUME QuoteTypes, NEW w \in Callers, Starts(w)
  PROVE  \E c \in Call :
           /\ Start(w, c)
           /\ c.at \in {"line", "review", "send", "firm"} => status = "PENDING"
           /\ c.at = "send" => c.amt = total /\ (NeedsReview => reviewed)
           /\ c.at \in {"expire", "create"} => status = "QUOTED" /\ c.amt = quoted
           /\ c.at \in {"line", "review", "send", "firm", "expire", "create"}
<1>1. CASE Draft(w)
  <2>1. PICK l \in Lines, p \in Prices \cup {0} :
          status = "PENDING" /\ Start(w, [at |-> "line", line |-> l, amt |-> p])
    BY <1>1 DEF Draft
  <2>2. [at |-> "line", line |-> l, amt |-> p] \in Call
    BY QuoteAssumption DEF Call
  <2>3. QED
    BY <2>1, <2>2
<1>2. CASE OpsReview(w)
  BY <1>2 DEF OpsReview, NoCall, Call
<1>3. CASE SendItemized(w)
  <2>1. [NoCall EXCEPT !.at = "send", !.amt = total] \in Call
    BY DEF Call, NoCall, QuoteTypes
  <2>2. QED
    BY <1>3, <2>1 DEF SendItemized, NoCall
<1>4. CASE SetQuote(w)
  <2>1. PICK p \in Firm :
          /\ status = "PENDING"
          /\ Start(w, [NoCall EXCEPT !.at = "firm", !.amt = p])
    BY <1>4 DEF SetQuote
  <2>2. [NoCall EXCEPT !.at = "firm", !.amt = p] \in Call
    BY QuoteAssumption DEF Call, NoCall
  <2>3. QED
    BY <2>1, <2>2 DEF NoCall
<1>5. CASE Accept(w)
  <2>1. [NoCall EXCEPT !.at = IF lapsed THEN "expire" ELSE "create", !.amt = quoted] \in Call
    BY DEF Call, NoCall, QuoteTypes
  <2>2. QED
    BY <1>5, <2>1 DEF Accept, NoCall
<1>6. QED
  BY <1>1, <1>2, <1>3, <1>4, <1>5 DEF Starts

\* The call that a step ends with, or goes on with.
LEMMA QuoteCalls ==
  ASSUME QuoteTypes
  PROVE  /\ NoCall \in Call /\ [NoCall EXCEPT !.at = "sum"] \in Call
         /\ [NoCall EXCEPT !.at = "total", !.amt = Sum] \in Call
         /\ \A n \in Nat : [NoCall EXCEPT !.at = "link", !.amt = n] \in Call
<1>1. Sum \in Nat
  BY SumOfLines, SumIsNat, LinesAreFinite DEF QuoteTypes
<1>2. QED
  BY <1>1 DEF NoCall, Call

\* A booking is created at the price that was read, and for that or less.
LEMMA CreatedOne ==
  ASSUME QuoteTypes, NEW w \in Callers, CreateBooking(w)
  PROVE  \E due \in 0..calls[w].amt, b \in [price : Nat, total : Nat] :
           /\ b = [price |-> calls[w].amt, total |-> due]
           /\ created' = Append(created, b)
<1>1. calls[w].amt \in Nat
  BY DEF QuoteTypes, Call
<1>2. PICK off \in Nat :
        /\ off <= calls[w].amt
        /\ created' = Append(created, [price |-> calls[w].amt, total |-> calls[w].amt - off])
  BY QuoteAssumption DEF CreateBooking
<1>3. calls[w].amt - off \in 0..calls[w].amt
  BY <1>1, <1>2
<1>4. QED
  BY <1>1, <1>2, <1>3

LEMMA QuoteWrites ==
  ASSUME QuoteTypes, NEW w \in Callers, GiveUp(w) \/ GoesOn(w)
  PROVE  \E c \in Call :
           /\ calls' = [calls EXCEPT ![w] = c]
           /\ ReadLines(w) => c.at = "total" /\ c.amt = Sum
           /\ WriteLine(w) => c.at = "sum"
           /\ CreateBooking(w) => c.at = "link" /\ c.amt = Len(created')
           /\ c.at \in {"idle", "sum", "total", "link"}
           /\ \/ ReadLines(w) \/ WriteLine(w) \/ CreateBooking(w)
              \/ c = NoCall
<1>1. CASE ReadLines(w)
  <2>1. [NoCall EXCEPT !.at = "total", !.amt = Sum].at = "total"
        /\ [NoCall EXCEPT !.at = "total", !.amt = Sum].amt = Sum
    BY DEF NoCall
  <2>2. ~WriteLine(w) /\ ~CreateBooking(w)
    BY <1>1 DEF ReadLines, WriteLine, CreateBooking, CallAt
  <2>3. QED
    BY <1>1, <2>1, <2>2, QuoteCalls DEF ReadLines, Write
<1>2. CASE WriteLine(w)
  <2>1. [NoCall EXCEPT !.at = "sum"].at = "sum"
    BY DEF NoCall
  <2>2. ~ReadLines(w) /\ ~CreateBooking(w)
    BY <1>2 DEF ReadLines, WriteLine, CreateBooking, CallAt
  <2>3. QED
    BY <1>2, <2>1, <2>2, QuoteCalls DEF WriteLine, Write
<1>3. CASE CreateBooking(w)
  <2>1. Len(created') \in Nat
    BY <1>3, CreatedOne DEF QuoteTypes
  <2>2. PICK n \in Nat : n = Len(created')
    BY <2>1
  <2>3. PICK c \in Call : c = [NoCall EXCEPT !.at = "link", !.amt = n]
    BY DEF NoCall, Call
  <2>4. c.at = "link" /\ c.amt = n
    BY <2>3 DEF NoCall
  <2>5. ~ReadLines(w) /\ ~WriteLine(w)
    BY <1>3 DEF ReadLines, WriteLine, CreateBooking, CallAt
  <2>6. calls' = [calls EXCEPT ![w] = c]
    BY <1>3, <2>2, <2>3 DEF CreateBooking, Write
  <2>7. QED
    BY <1>3, <2>2, <2>4, <2>5, <2>6
<1>4. CASE ~ReadLines(w) /\ ~WriteLine(w) /\ ~CreateBooking(w)
  <2>1. calls' = [calls EXCEPT ![w] = NoCall]
    BY <1>4 DEF GoesOn, GiveUp, WriteTotal, WriteReview, WriteQuoted,
                WriteExpired, LinkBooking, Write
  <2>2. NoCall.at = "idle"
    BY DEF NoCall
  <2>3. QED
    BY <1>4, <2>1, <2>2, QuoteCalls
<1>5. QED
  BY <1>1, <1>2, <1>3, <1>4

LEMMA TypesKept == QuoteTypes /\ [QuoteNext]_quoteVars => QuoteTypes'
<1> SUFFICES ASSUME QuoteTypes, [QuoteNext]_quoteVars PROVE QuoteTypes'
  OBVIOUS
<1>1. CASE UNCHANGED quoteVars \/ Lapse
  BY <1>1 DEF quoteVars, quote, Lapse, QuoteTypes
<1>2. ASSUME NEW w \in Callers, Starts(w)
      PROVE  QuoteTypes'
  BY <1>2, QuoteStarts, StartTypes
<1>3. ASSUME NEW w \in Callers, GiveUp(w) PROVE QuoteTypes'
  BY <1>3, QuoteCalls DEF GiveUp, QuoteTypes, quote
<1>4. ASSUME NEW w \in Callers, WriteLine(w) PROVE QuoteTypes'
  <2>1. lines' \in [Lines -> Nat]
    BY <1>4 DEF GoesOn, WriteLine, QuoteTypes, Call
  <2>2. QED
    BY <1>4, <2>1, QuoteCalls, WriteTypes DEF WriteLine, QuoteTypes
<1>5. ASSUME NEW w \in Callers, ReadLines(w) PROVE QuoteTypes'
  <2>1. PICK c \in Call : Write(w, c)
    BY <1>5, QuoteCalls DEF ReadLines
  <2>2. QED
    BY <1>5, <2>1, WriteTypes DEF ReadLines, QuoteTypes, quote
<1>6. ASSUME NEW w \in Callers, WriteTotal(w) PROVE QuoteTypes'
  BY <1>6, QuoteCalls, WriteTypes DEF WriteTotal, QuoteTypes, Call
<1>7. ASSUME NEW w \in Callers, WriteReview(w) PROVE QuoteTypes'
  BY <1>7, QuoteCalls, WriteTypes DEF WriteReview, QuoteTypes
<1>8. ASSUME NEW w \in Callers, WriteQuoted(w) PROVE QuoteTypes'
  BY <1>8, QuoteCalls, WriteTypes DEF WriteQuoted, QuoteTypes, Call, CallAt
<1>9. ASSUME NEW w \in Callers, WriteExpired(w) PROVE QuoteTypes'
  BY <1>9, QuoteCalls, WriteTypes DEF WriteExpired, QuoteTypes
<1>10. ASSUME NEW w \in Callers, CreateBooking(w) PROVE QuoteTypes'
  <2>1. created' \in Seq([price : Nat, total : Nat])
    <3>1. PICK b \in [price : Nat, total : Nat] : created' = Append(created, b)
      BY <1>10, CreatedOne
    <3>2. QED
      BY <3>1 DEF QuoteTypes
  <2>2. Len(created') \in Nat
    BY <2>1
  <2>3. PICK c \in Call : Write(w, c)
    BY <1>10, <2>2, QuoteCalls DEF CreateBooking
  <2>4. QED
    BY <1>10, <2>1, <2>3, WriteTypes DEF CreateBooking, QuoteTypes, quote
<1>11. ASSUME NEW w \in Callers, LinkBooking(w) PROVE QuoteTypes'
  BY <1>11, QuoteCalls, WriteTypes DEF LinkBooking, QuoteTypes, Call
<1>12. QED
  BY <1>1, <1>2, <1>3, <1>4, <1>5, <1>6, <1>7, <1>8, <1>9, <1>10, <1>11 DEF QuoteNext, Starts,
     GoesOn

-----------------------------------------------------------------------------
(* The review gate *)

LEMMA GateKept == QuoteTypes /\ GateInv /\ [QuoteNext]_quoteVars => GateInv'
<1> SUFFICES ASSUME QuoteTypes, GateInv, [QuoteNext]_quoteVars PROVE GateInv'
  OBVIOUS
<1>1. CASE UNCHANGED quoteVars \/ Lapse
  BY <1>1 DEF quoteVars, quote, Lapse, GateInv, CallAt
<1>2. ASSUME NEW w \in Callers, Starts(w)
      PROVE  GateInv'
  <2>1. PICK c \in Call :
           /\ Start(w, c)
           /\ c.at = "send" => c.amt = total /\ (NeedsReview => reviewed)
    BY <1>2, QuoteStarts
  <2>2. c.at = "send" /\ c.amt >= Threshold => reviewed
    BY <2>1 DEF NeedsReview
  <2>3. \A v \in Callers : calls'[v] = IF v = w THEN c ELSE calls[v]
    BY <2>1 DEF Start, QuoteTypes
  <2>4. UNCHANGED quote
    BY <2>1 DEF Start
  <2>5. QED
    BY <2>2, <2>3, <2>4 DEF GateInv, CallAt, quote
<1>3. ASSUME NEW w \in Callers, GiveUp(w) \/ GoesOn(w)
      PROVE  GateInv'
  <2>1. \A v \in Callers : calls'[v].at = "send" => v # w /\ calls'[v] = calls[v]
    <3>1. PICK c \in Call : calls' = [calls EXCEPT ![w] = c] /\ c.at # "send"
      BY <1>3, QuoteWrites
    <3>2. QED
      BY <3>1 DEF QuoteTypes
  <2>2. reviewed => reviewed'
    BY <1>3 DEF GoesOn, GiveUp, WriteLine, ReadLines, WriteTotal,
                WriteReview, WriteQuoted, WriteExpired, CreateBooking,
                LinkBooking, quote
  <2>3. CASE WriteQuoted(w)
    BY <2>1, <2>2, <2>3 DEF WriteQuoted, GateInv, CallAt
  <2>4. CASE ~WriteQuoted(w)
    <3>1. UNCHANGED <<itemized, quoted>>
      BY <1>3, <2>4 DEF GoesOn, GiveUp, WriteLine, ReadLines,
                        WriteTotal, WriteReview, WriteExpired,
                        CreateBooking, LinkBooking, quote
    <3>2. QED
      BY <2>1, <2>2, <3>1 DEF GateInv, CallAt
  <2>5. QED
    BY <2>3, <2>4
<1>4. QED
  BY <1>1, <1>2, <1>3 DEF QuoteNext, Starts, GoesOn

-----------------------------------------------------------------------------
(* Calls one at a time *)

BookedNow == IF status = "ACCEPTED" THEN BookedAtQuote ELSE created = <<>> /\ booking = 0

LEMMA OthersIdle ==
  ASSUME SerialInv, ~disturbed, NEW w \in Callers, ~CallAt(w, "idle")
  PROVE  /\ \A v \in Callers \ {w} : CallAt(v, "idle")
         /\ calls[w].at \notin {"sum", "total"} => total = Sum
         /\ calls[w].at # "link" => BookedNow
         /\ SentInv /\ CallOK(calls[w])
BY DEF SerialInv, AloneInv, TotalInv, BookedInv, BookedNow, CallAt

\* A call that starts alone has read a settled quote.
LEMMA SerialStart ==
  ASSUME QuoteTypes, SerialInv, NEW w \in Callers, NEW c \in Call, Start(w, c),
         total = Sum => CallOK(c)
  PROVE  SerialInv'
<1> SUFFICES ASSUME ~disturbed' PROVE SerialInv'
  BY DEF SerialInv
<1>1. ~disturbed /\ \A v \in Callers : CallAt(v, "idle")
  BY DEF Start, QuoteTypes
<1>2. total = Sum /\ SentInv /\ BookedNow
  BY <1>1 DEF SerialInv, TotalInv, BookedInv, BookedNow, CallAt
<1>3. \A v \in Callers : calls'[v] = IF v = w THEN c ELSE calls[v]
  BY DEF Start, QuoteTypes
<1>4. /\ UNCHANGED <<status, lines, total, reviewed, quoted, itemized, booking, created>>
      /\ Sum' = Sum
  BY SumOfLines DEF Start, quote
<1>5. total' = Sum' /\ SentInv' /\ BookedNow'
  BY <1>2, <1>4 DEF SentInv, Priced, OffReviewed, Present, BookedNow, BookedAtQuote
<1>6. CallOK(c)'
  BY <1>2, <1>4 DEF CallOK, ChargedAtMost, OffReviewed, Present
<1>7. \A v \in Callers : CallOK(calls[v])'
  BY <1>1, <1>3, <1>6 DEF CallOK, CallAt
<1>8. AloneInv'
  BY <1>1, <1>3 DEF AloneInv, CallAt
<1>9. QED
  BY <1>5, <1>7, <1>8 DEF SerialInv, TotalInv, BookedInv, BookedNow

\* A call that goes on alone, with c, keeps what the others would find.
LEMMA SerialWrite ==
  ASSUME QuoteTypes, SerialInv, ~disturbed, NEW w \in Callers, ~CallAt(w, "idle"),
         NEW c \in Call, calls' = [calls EXCEPT ![w] = c],
         c.at \notin {"sum", "total"} => total' = Sum',
         c.at # "link" => BookedNow',
         SentInv', CallOK(c)'
  PROVE  SerialInv'
<1>1. \A v \in Callers \ {w} : CallAt(v, "idle")
  BY OthersIdle
<1>2. \A v \in Callers : calls'[v] = IF v = w THEN c ELSE calls[v]
  BY DEF QuoteTypes
<1>3. \A v \in Callers : CallOK(calls[v])'
  BY <1>1, <1>2 DEF CallOK, CallAt
<1>4. AloneInv'
  BY <1>1, <1>2 DEF AloneInv, CallAt
<1>5. TotalInv' /\ BookedInv'
  BY <1>2 DEF TotalInv, BookedInv, BookedNow, CallAt
<1>6. QED
  BY <1>3, <1>4, <1>5 DEF SerialInv

LEMMA SerialKept == QuoteTypes /\ SerialInv /\ [QuoteNext]_quoteVars => SerialInv'
<1> SUFFICES ASSUME QuoteTypes, SerialInv, [QuoteNext]_quoteVars PROVE SerialInv'
  OBVIOUS
<1>1. CASE UNCHANGED quoteVars \/ Lapse
  <2>1. UNCHANGED <<status, lines, total, reviewed, quoted, itemized, booking, created, calls,
                    disturbed>>
    BY <1>1 DEF quoteVars, quote, Lapse
  <2>2. Sum' = Sum
    BY <2>1, SumOfLines
  <2>3. QED
    BY <2>1, <2>2 DEF SerialInv, AloneInv, TotalInv, SentInv, BookedInv, BookedAtQuote,
                      ChargedAtMost, CallOK, OffReviewed,
                      Present, Priced, CallAt
<1>2. ASSUME NEW w \in Callers, Starts(w)
      PROVE  SerialInv'
  <2>1. PICK c \in Call :
           /\ Start(w, c)
           /\ c.at \in {"line", "review", "send", "firm"} => status = "PENDING"
           /\ c.at = "send" => c.amt = total /\ (NeedsReview => reviewed)
           /\ c.at \in {"expire", "create"} => status = "QUOTED" /\ c.amt = quoted
           /\ c.at \in {"line", "review", "send", "firm", "expire", "create"}
    BY <1>2, QuoteStarts
  <2>2. CallOK(c)
    BY <2>1 DEF CallOK, OffReviewed, NeedsReview
  <2>3. QED
    BY <2>1, <2>2, SerialStart
<1>3. ASSUME NEW w \in Callers, GiveUp(w) PROVE SerialInv'
  BY <1>3 DEF GiveUp, SerialInv
<1>4. ASSUME NEW w \in Callers, GoesOn(w)
      PROVE  SerialInv'
  <2>1. PICK c \in Call :
           /\ calls' = [calls EXCEPT ![w] = c]
           /\ ReadLines(w) => c.at = "total" /\ c.amt = Sum
           /\ WriteLine(w) => c.at = "sum"
           /\ CreateBooking(w) => c.at = "link" /\ c.amt = Len(created')
           /\ c.at \in {"idle", "sum", "total", "link"}
           /\ \/ ReadLines(w) \/ WriteLine(w) \/ CreateBooking(w)
              \/ c = NoCall
    BY <1>4, QuoteWrites
  <2>2. disturbed' = disturbed /\ ~CallAt(w, "idle")
    BY <1>4 DEF GoesOn, WriteLine, ReadLines, WriteTotal, WriteReview,
                WriteQuoted, WriteExpired, CreateBooking, LinkBooking,
                Write, CallAt, quote
  <2> SUFFICES ASSUME ~disturbed PROVE SerialInv'
    BY <2>2 DEF SerialInv
  <2>3. /\ calls[w].at \notin {"sum", "total"} => total = Sum
        /\ calls[w].at # "link" => BookedNow
        /\ SentInv /\ CallOK(calls[w])
    BY <2>2, OthersIdle
  <2> SUFFICES /\ c.at \notin {"sum", "total"} => total' = Sum'
               /\ c.at # "link" => BookedNow'
               /\ SentInv' /\ CallOK(c)'
    BY <2>1, <2>2, SerialWrite
  <2>4. CASE WriteLine(w)
    <3>1. /\ status = "PENDING" /\ UNCHANGED <<status, quoted, booking, created>>
          /\ c.at = "sum" /\ calls[w].at = "line"
      BY <2>1, <2>3, <2>4 DEF WriteLine, CallAt, CallOK
    <3>2. QED
      BY <2>3, <3>1 DEF BookedNow, SentInv, Priced, CallOK
  <2>5. CASE ReadLines(w)
    <3>1. /\ status = "PENDING" /\ UNCHANGED <<status, lines, quoted, booking, created>>
          /\ c.at = "total" /\ c.amt = Sum /\ calls[w].at = "sum"
      BY <2>1, <2>3, <2>5 DEF ReadLines, CallAt, CallOK, quote
    <3>2. Sum' = Sum
      BY <3>1, SumOfLines
    <3>3. QED
      BY <2>3, <3>1, <3>2 DEF BookedNow, SentInv, Priced, CallOK
  <2>6. CASE WriteTotal(w)
    <3>1. /\ status = "PENDING" /\ UNCHANGED <<status, lines, quoted, booking, created>>
          /\ c = NoCall /\ total' = Sum /\ calls[w].at = "total"
      BY <2>1, <2>3, <2>6 DEF WriteTotal, WriteLine, ReadLines,
                              CreateBooking, CallAt, CallOK
    <3>2. Sum' = Sum
      BY <3>1, SumOfLines
    <3>3. QED
      BY <2>3, <3>1, <3>2 DEF BookedNow, SentInv, Priced, CallOK, NoCall
  <2>7. CASE WriteReview(w)
    <3>1. /\ status = "PENDING" /\ UNCHANGED <<status, lines, total, quoted, booking, created>>
          /\ c = NoCall /\ calls[w].at = "review"
      BY <2>1, <2>3, <2>7 DEF WriteReview, WriteLine, ReadLines,
                              CreateBooking, CallAt, CallOK
    <3>2. Sum' = Sum
      BY <3>1, SumOfLines
    <3>3. QED
      BY <2>3, <3>1, <3>2 DEF BookedNow, SentInv, Priced, CallOK, NoCall
  <2>8. CASE WriteQuoted(w)
    <3>1. /\ status = "PENDING" /\ UNCHANGED <<lines, total, reviewed, booking, created>>
          /\ status' = "QUOTED" /\ quoted' = calls[w].amt /\ itemized' = (calls[w].at = "send")
          /\ c = NoCall /\ calls[w].at \in {"send", "firm"}
      BY <2>1, <2>3, <2>8 DEF WriteQuoted, WriteLine, ReadLines,
                              CreateBooking, CallAt, CallOK
    <3>2. Sum' = Sum
      BY <3>1, SumOfLines
    <3>3. calls[w].at = "send" => calls[w].amt = Sum /\ OffReviewed
      BY <2>3, <3>1 DEF CallOK
    <3>4. OffReviewed' = OffReviewed
      BY <3>1 DEF OffReviewed, Present
    <3>5. SentInv'
      BY <3>1, <3>2, <3>3, <3>4 DEF SentInv
    <3>6. QED
      BY <2>3, <3>1, <3>2, <3>5 DEF BookedNow, CallOK, NoCall
  <2>9. CASE WriteExpired(w)
    <3>1. /\ status = "QUOTED" /\ UNCHANGED <<lines, total, quoted, booking, created>>
          /\ status' = "EXPIRED" /\ c = NoCall /\ calls[w].at = "expire"
      BY <2>1, <2>3, <2>9 DEF WriteExpired, WriteLine, ReadLines,
                              CreateBooking, CallAt, CallOK
    <3>2. Sum' = Sum
      BY <3>1, SumOfLines
    <3>3. QED
      BY <2>3, <3>1, <3>2 DEF BookedNow, SentInv, Priced, CallOK, NoCall
  <2>10. CASE CreateBooking(w)
    <3>1. /\ UNCHANGED <<status, lines, total, reviewed, quoted, itemized, booking>>
          /\ status = "QUOTED"
          /\ calls[w].amt = quoted
          /\ c.at = "link" /\ c.amt = Len(created') /\ calls[w].at = "create"
      BY <2>1, <2>3, <2>10 DEF CreateBooking, CallAt, CallOK, quote
    <3>2. created = <<>>
      BY <2>3, <3>1 DEF BookedNow
    <3>3. PICK due \in 0..quoted, b \in [price : Nat, total : Nat] :
            b = [price |-> quoted, total |-> due] /\ created' = Append(<<>>, b)
      BY <2>10, <3>1, <3>2, CreatedOne
    <3> Append(<<>>, b) = <<b>> /\ Len(<<b>>) = 1
      OBVIOUS
    <3> ChargedAtMost(quoted)' /\ Len(created') = 1
      BY <3>1, <3>3 DEF ChargedAtMost
    <3>4. Sum' = Sum
      BY <3>1, SumOfLines
    <3>5. SentInv'
      BY <2>3, <3>1, <3>4 DEF SentInv, Priced, OffReviewed, Present
    <3>6. QED
      BY <2>3, <3>1, <3>4, <3>5 DEF CallOK
  <2>11. CASE LinkBooking(w)
    <3>1. /\ status = "QUOTED" /\ UNCHANGED <<lines, total, reviewed, quoted, itemized, created>>
          /\ status' = "ACCEPTED" /\ booking' = calls[w].amt /\ calls[w].amt = 1
          /\ ChargedAtMost(quoted) /\ c = NoCall /\ calls[w].at = "link"
      BY <2>1, <2>3, <2>11 DEF LinkBooking, WriteLine, ReadLines,
                               CreateBooking, CallAt, CallOK
    <3>2. Sum' = Sum
      BY <3>1, SumOfLines
    <3>3. SentInv'
      BY <2>3, <3>1, <3>2 DEF SentInv, Priced, OffReviewed, Present
    <3>4. QED
      BY <2>3, <3>1, <3>2, <3>3 DEF BookedNow, BookedAtQuote, ChargedAtMost, CallOK, NoCall
  <2>12. QED
    BY <1>4, <2>4, <2>5, <2>6, <2>7, <2>8, <2>9, <2>10, <2>11 DEF GoesOn
<1>5. QED
  BY <1>1, <1>2, <1>3, <1>4 DEF QuoteNext, Starts, GoesOn

LEMMA QuoteInvariance == QuoteSpec => [](QuoteTypes /\ GateInv /\ SerialInv)
BY QuoteInitially, TypesKept, GateKept, SerialKept, PTL DEF QuoteSpec

\* What a quote and the calls on it hold is always well formed, its total and the
\* sums that calls carry among them.
THEOREM QuoteTypeCorrect == QuoteSpec => []QuoteTypes
BY QuoteInvariance, PTL

\* However calls overlap, a quote at or above the threshold that went out with the
\* sum of its lines was reviewed by ops.
THEOREM LargeQuotesAreReviewed == QuoteSpec => []ReviewGate
<1>1. GateInv => ReviewGate
  BY DEF GateInv, ReviewGate
<1>2. QED
  BY <1>1, QuoteInvariance, PTL

\* Calls that never overlap and are never cut off keep a quote's total the sum of
\* its lines, and give an accepted quote its one booking, listed at its price and
\* charged at most that.
THEOREM SerialQuoteKeepsPromise == QuoteSpec => []SerialQuote
<1>1. SerialInv => SerialQuote
  BY DEF SerialInv, SerialQuote, TotalInv, SentInv, BookedInv, OffReviewed, CallAt
<1>2. QED
  BY <1>1, QuoteInvariance, PTL
=============================================================================
