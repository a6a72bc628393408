------------------------- MODULE HostedCheckoutProofs -------------------------
(***************************************************************************)
(* Theorems about HostedCheckout, for any number of concurrent calls and   *)
(* any set of checkout sessions.                                           *)
(*                                                                         *)
(* That an authorised row has its hold rests on when a hold is voided at   *)
(* all: one of an authorised session only when the booking no longer       *)
(* awaits payment, so that no call that still carries the session can      *)
(* promote with it (SessionOK), and by a call that knows the row is        *)
(* another's, or no longer to be had (CallOK).                             *)
(***************************************************************************)
EXTENDS HostedCheckout, TLAPS

Awaiting == booking = "AWAITING_PAYMENT"

RowOK ==
  /\ PromotedOnce
  /\ providerRef # None => created = 1 /\ session[providerRef] = "authorized"
  /\ status = "PRE_AUTHORIZED" => providerRef # None /\ hold[providerRef] = "held"

SessionOK(s) ==
  /\ session[s] \in {"authorized", "mismatched"} => hold[s] # "none"
  /\ session[s] = "authorized" /\ hold[s] = "voided" => ~Awaiting

CallOK(job) ==
  /\ job.at \in {"prepare_db", "result_psp", "apply_db", "mismatch_psp", "stale_psp", "duplicate_psp"}
       => job.s \in Sessions
  /\ job.at = "apply_db" => session[job.s] = "authorized"
  /\ job.at = "mismatch_psp" => session[job.s] = "mismatched"
  /\ job.at = "stale_psp" => ~Awaiting /\ status # "PRE_AUTHORIZED"

IInv ==
  /\ TypeOK
  /\ RowOK
  /\ \A s \in Sessions : SessionOK(s)
  /\ \A w \in Workers : CallOK(work[w])

Call == [at : Point, s : Sessions \cup {None}]

-----------------------------------------------------------------------------
LEMMA IdleOK == Idle \in Call /\ CallOK(Idle)
BY DEF Idle, Call, Point, CallOK

LEMMA Initially == Init => IInv
<1> SUFFICES ASSUME Init PROVE IInv
  OBVIOUS
<1>1. TypeOK
  BY IdleOK DEF Init, TypeOK, Call
<1>2. RowOK
  BY DEF Init, RowOK, PromotedOnce
<1>3. \A s \in Sessions : SessionOK(s)
  BY DEF Init, SessionOK
<1>4. \A w \in Workers : CallOK(work[w])
  BY IdleOK DEF Init
<1>5. QED
  BY <1>1, <1>2, <1>3, <1>4 DEF IInv

\* The steps of one call, which leave every other call what it relies on: a session
\* once authorised or mismatched stays so, and a booking that no longer awaits
\* payment never does again.
LEMMA CallStep ==
  ASSUME IInv, NEW w \in Workers, NEW job \in Call, work' = [work EXCEPT ![w] = job],
         TypeOK', RowOK', \A s \in Sessions : SessionOK(s)', CallOK(job)',
         \A s \in Sessions : session[s] \in {"authorized", "mismatched"} => session'[s] = session[s],
         Awaiting' => Awaiting, status' = "PRE_AUTHORIZED" => status = "PRE_AUTHORIZED" \/ Awaiting
  PROVE  IInv'
<1>1. ASSUME NEW v \in Workers PROVE CallOK(work[v])'
  <2>1. PICK old \in Call : old = work[v] /\ CallOK(old)
    BY DEF IInv, TypeOK, Call
  <2>2. PICK new \in Call : new = work'[v]
    BY DEF TypeOK, Call
  <2>3. new = job \/ new = old
    BY <2>1, <2>2 DEF IInv, TypeOK
  <2>4. CallOK(old)'
    BY <2>1 DEF CallOK
  <2>5. QED
    BY <2>2, <2>3, <2>4
<1>2. QED
  BY <1>1 DEF IInv

-----------------------------------------------------------------------------
(* The steps of a call *)

\* A call that touches only its own memory.
LEMMA OwnStep ==
  ASSUME IInv, NEW w \in Workers, NEW job \in Call, work' = [work EXCEPT ![w] = job], CallOK(job),
         UNCHANGED <<booking, rowVars, created, pspVars>>
  PROVE  IInv'
<1> USE DEF rowVars, pspVars
<1>1. TypeOK'
  BY DEF IInv, TypeOK, Call
<1>2. RowOK' /\ (\A s \in Sessions : SessionOK(s)')
  BY DEF IInv, RowOK, PromotedOnce, SessionOK, Awaiting
<1>3. CallOK(job)'
  BY DEF CallOK, Awaiting
<1>4. QED
  BY <1>1, <1>2, <1>3, CallStep DEF Awaiting

LEMMA GiveUpOK == ASSUME IInv, NEW w \in Workers, GiveUp(w) PROVE IInv'
BY IdleOK, OwnStep DEF GiveUp, Finish

LEMMA PrepareReadOK == ASSUME IInv, NEW w \in Workers, PrepareRead(w) PROVE IInv'
<1>1. PICK job \in Call : job = [at |-> "prepare_psp", s |-> None]
  BY DEF Call, Point
<1>2. CallOK(job)
  BY <1>1 DEF CallOK
<1>3. QED
  BY <1>1, <1>2, OwnStep DEF PrepareRead, Start

LEMMA PreparePspOK == ASSUME IInv, NEW w \in Workers, PreparePsp(w) PROVE IInv'
<1>1. PICK s \in Sessions : /\ session[s] = "none" /\ session' = [session EXCEPT ![s] = "open"]
                            /\ work' = [work EXCEPT ![w] = [at |-> "prepare_db", s |-> s]]
  BY DEF PreparePsp
<1>2. PICK job \in Call : job = [at |-> "prepare_db", s |-> s]
  BY DEF Call, Point
<1>3. UNCHANGED <<booking, rowVars, created, hold>>
  BY DEF PreparePsp
<1>4. \A r \in Sessions : session'[r] = IF r = s THEN "open" ELSE session[r]
  BY <1>1 DEF IInv, TypeOK
<1>5. TypeOK'
  BY <1>1, <1>2, <1>3 DEF IInv, TypeOK, rowVars, Call
<1>6. RowOK'
  BY <1>1, <1>3, <1>4 DEF IInv, TypeOK, RowOK, PromotedOnce, rowVars
<1>7. \A r \in Sessions : SessionOK(r)'
  BY <1>3, <1>4 DEF IInv, SessionOK, Awaiting
<1>8. CallOK(job)'
  BY <1>2 DEF CallOK
<1>9. QED
  BY <1>1, <1>2, <1>3, <1>4, <1>5, <1>6, <1>7, <1>8, CallStep DEF Awaiting, rowVars

\* The row is no longer authorised, if it was; what it was paid with stays known.
LEMMA PrepareDbOK == ASSUME IInv, NEW w \in Workers, PrepareDb(w) PROVE IInv'
<1> USE DEF PrepareDb, At, Finish, pspVars
<1>1. work[w].s \in Sessions
  BY DEF IInv, CallOK
<1>2. TypeOK'
  BY <1>1, IdleOK DEF IInv, TypeOK, Call
<1>3. RowOK' /\ (\A s \in Sessions : SessionOK(s)')
  BY DEF IInv, RowOK, PromotedOnce, SessionOK, Awaiting
<1>4. CallOK(Idle)'
  BY DEF CallOK, Idle
<1>5. QED
  BY <1>2, <1>3, <1>4, IdleOK, CallStep DEF Awaiting

LEMMA FinalizeReadOK == ASSUME IInv, NEW w \in Workers, FinalizeRead(w) PROVE IInv'
<1>1. PICK job \in Call : job = [at |-> "result_psp", s |-> checkoutId] /\ CallOK(job)
  <2>1. checkoutId \in Sessions
    BY DEF IInv, TypeOK, FinalizeRead
  <2>2. PICK job \in Call : job = [at |-> "result_psp", s |-> checkoutId]
    BY <2>1 DEF Call, Point
  <2>3. QED
    BY <2>1, <2>2 DEF CallOK
<1>2. QED
  BY <1>1, OwnStep DEF FinalizeRead, Start

\* What the session's outcome calls for, the call may do.
LEMMA OutcomeOK ==
  ASSUME IInv, NEW s \in Sessions, NEW job \in Call, job = [at |-> Outcome(s), s |-> s]
  PROVE  CallOK(job)
BY DEF CallOK, Outcome

LEMMA OutcomeCall == ASSUME NEW s \in Sessions PROVE [at |-> Outcome(s), s |-> s] \in Call
BY DEF Call, Point, Outcome

LEMMA ResultPspOK == ASSUME IInv, NEW w \in Workers, ResultPsp(w) PROVE IInv'
<1> USE DEF ResultPsp, At
<1>1. PICK s \in Sessions : s = work[w].s
  BY DEF IInv, CallOK
<1>2. CASE Outcome(s) = "idle"
  BY <1>1, <1>2, IdleOK, OwnStep DEF Finish
<1>3. CASE Outcome(s) # "idle"
  <2>1. PICK job \in Call : job = [at |-> Outcome(s), s |-> s] /\ CallOK(job)
    BY OutcomeOK, OutcomeCall
  <2>2. work' = [work EXCEPT ![w] = job]
    BY <1>1, <1>3, <2>1 DEF Goto, IInv, TypeOK
  <2>3. QED
    BY <2>1, <2>2, OwnStep
<1>4. QED
  BY <1>2, <1>3

LEMMA WebhookAuthorizedOK == ASSUME IInv, NEW w \in Workers, WebhookAuthorized(w) PROVE IInv'
<1>1. PICK s \in Sessions : Start(w, Outcome(s), s)
  BY DEF WebhookAuthorized
<1>2. PICK job \in Call : job = [at |-> Outcome(s), s |-> s] /\ CallOK(job)
  BY OutcomeOK, OutcomeCall
<1>3. QED
  BY <1>1, <1>2, OwnStep DEF WebhookAuthorized, Start

LEMMA RejectDbOK == ASSUME IInv, NEW w \in Workers, RejectDb(w) PROVE IInv'
<1> USE DEF RejectDb, Finish, pspVars
<1>1. TypeOK'
  BY IdleOK DEF IInv, TypeOK, Call
<1>2. RowOK' /\ (\A s \in Sessions : SessionOK(s)')
  BY DEF IInv, RowOK, PromotedOnce, SessionOK, Awaiting
<1>3. CallOK(Idle)'
  BY DEF CallOK, Idle
<1>4. QED
  BY <1>1, <1>2, <1>3, IdleOK, CallStep DEF Awaiting

\* The booking awaits payment still, so the session's hold was not voided.
LEMMA PromoteOK == ASSUME IInv, NEW w \in Workers, Promote(w) PROVE IInv'
<1> USE DEF Promote, At, Finish, pspVars
<1>1. PICK s \in Sessions : s = work[w].s /\ session[s] = "authorized"
  BY DEF IInv, CallOK
<1>2. hold[s] = "held" /\ s # None
  BY <1>1, SessionAssumption DEF IInv, TypeOK, SessionOK, Awaiting
<1>3. created = 0
  BY DEF IInv, TypeOK, RowOK, PromotedOnce
<1>4. TypeOK'
  BY <1>1, IdleOK DEF IInv, TypeOK, Call
<1>5. RowOK'
  BY <1>1, <1>2, <1>3 DEF RowOK, PromotedOnce
<1>6. \A r \in Sessions : SessionOK(r)'
  BY DEF IInv, SessionOK, Awaiting
<1>7. CallOK(Idle)'
  BY DEF CallOK, Idle
<1>8. QED
  BY <1>4, <1>5, <1>6, <1>7, IdleOK, CallStep DEF Awaiting

LEMMA GotoCall ==
  ASSUME IInv, NEW w \in Workers, NEW p \in Point, Goto(w, p)
  PROVE  \E job \in Call : /\ job.at = p /\ job.s = work[w].s
                           /\ work' = [work EXCEPT ![w] = job]
<1>1. [work[w] EXCEPT !.at = p] \in Call
  BY DEF IInv, TypeOK, Call
<1>2. work' = [work EXCEPT ![w] = [work[w] EXCEPT !.at = p]]
  BY DEF Goto
<1>3. [work[w] EXCEPT !.at = p].at = p /\ [work[w] EXCEPT !.at = p].s = work[w].s
  BY DEF IInv, TypeOK
<1>4. QED
  BY <1>1, <1>2, <1>3

LEMMA PromotionFailsOK ==
  ASSUME IInv, NEW w \in Workers, PromotionStale(w) \/ PromotionLost(w)
  PROVE  IInv'
<1>1. work[w].s \in Sessions
  BY DEF PromotionStale, PromotionLost, At, IInv, CallOK
<1>2. CASE PromotionStale(w)
  <2>1. PICK job \in Call : job.at = "stale_psp" /\ job.s = work[w].s /\ work' = [work EXCEPT ![w] = job]
    BY <1>2, GotoCall DEF PromotionStale, Point
  <2>2. CallOK(job)
    BY <1>1, <1>2, <2>1 DEF CallOK, PromotionStale, Awaiting
  <2>3. QED
    BY <1>2, <2>1, <2>2, OwnStep DEF PromotionStale
<1>3. CASE PromotionLost(w)
  <2>1. PICK job \in Call : job.at = "duplicate_psp" /\ job.s = work[w].s /\ work' = [work EXCEPT ![w] = job]
    BY <1>3, GotoCall DEF PromotionLost, Point
  <2>2. CallOK(job)
    BY <1>1, <2>1 DEF CallOK
  <2>3. QED
    BY <1>3, <2>1, <2>2, OwnStep DEF PromotionLost
<1>4. QED
  BY <1>2, <1>3

\* A hold is voided where the row cannot rest on it, now or later.
LEMMA VoidOK ==
  ASSUME IInv, NEW w \in Workers, NEW s \in Sessions, Void(s),
         NEW job \in Call, work' = [work EXCEPT ![w] = job], job.at \in {"idle", "reject_db"},
         UNCHANGED <<booking, rowVars, created, session>>,
         session[s] = "authorized" => ~Awaiting,
         status = "PRE_AUTHORIZED" => providerRef # s
  PROVE  IInv'
<1> USE DEF rowVars
<1>1. \A r \in Sessions : hold'[r] = IF r = s /\ hold' # hold THEN "voided" ELSE hold[r]
  BY DEF Void, IInv, TypeOK
<1>2. TypeOK'
  BY DEF Void, IInv, TypeOK, Call
<1>3. RowOK'
  BY <1>1 DEF IInv, TypeOK, RowOK, PromotedOnce
<1>4. \A r \in Sessions : SessionOK(r)'
  BY <1>1 DEF IInv, SessionOK, Awaiting
<1>5. CallOK(job)'
  BY DEF CallOK
<1>6. QED
  BY <1>2, <1>3, <1>4, <1>5, CallStep DEF Awaiting

LEMMA VoidRejectedOK == ASSUME IInv, NEW w \in Workers, VoidRejected(w) PROVE IInv'
<1>1. PICK s \in Sessions : s = work[w].s
  BY DEF VoidRejected, IInv, CallOK
<1>2. PICK job \in Call : job.at = "reject_db" /\ work' = [work EXCEPT ![w] = job]
  BY GotoCall DEF VoidRejected, Point
<1>3. CASE work[w].at = "mismatch_psp"
  <2>1. session[s] = "mismatched"
    BY <1>1, <1>3 DEF IInv, CallOK
  <2>2. status = "PRE_AUTHORIZED" => providerRef # s
    BY <2>1 DEF IInv, RowOK
  <2>3. QED
    BY <1>1, <1>2, <2>1, <2>2, VoidOK DEF VoidRejected
<1>4. CASE work[w].at = "stale_psp"
  <2>1. ~Awaiting /\ status # "PRE_AUTHORIZED"
    BY <1>1, <1>4 DEF IInv, CallOK
  <2>2. QED
    BY <1>1, <1>2, <2>1, VoidOK DEF VoidRejected
<1>5. QED
  BY <1>3, <1>4 DEF VoidRejected

\* The row has another session's hold, and the booking was made live with it.
LEMMA VoidDuplicateOK == ASSUME IInv, NEW w \in Workers, VoidDuplicate(w) PROVE IInv'
<1> USE DEF VoidDuplicate, At, Finish
<1>1. PICK s \in Sessions : s = work[w].s
  BY DEF IInv, CallOK
<1>2. providerRef # s /\ ~Awaiting
  BY <1>1 DEF IInv, RowOK, PromotedOnce, Awaiting
<1>3. Idle.at = "idle"
  BY DEF Idle
<1>4. QED
  BY <1>1, <1>2, <1>3, IdleOK, VoidOK

-----------------------------------------------------------------------------
(* The customer, the PSP and the booking *)

\* No call is touched; a session once settled stays so.
LEMMA OutsideStep ==
  ASSUME IInv, TypeOK', RowOK', \A s \in Sessions : SessionOK(s)', UNCHANGED work,
         \A s \in Sessions : session[s] \in {"authorized", "mismatched"} => session'[s] = session[s],
         Awaiting' => Awaiting, status' = "PRE_AUTHORIZED" => status = "PRE_AUTHORIZED"
  PROVE  IInv'
<1>1. ASSUME NEW v \in Workers PROVE CallOK(work[v])'
  <2>1. PICK job \in Call : job = work[v] /\ CallOK(job)
    BY DEF IInv, TypeOK, Call
  <2>2. CallOK(job)'
    BY <2>1 DEF CallOK
  <2>3. QED
    BY <2>1, <2>2
<1>2. QED
  BY <1>1 DEF IInv

LEMMA CustomerAuthorizesOK == ASSUME IInv, CustomerAuthorizes PROVE IInv'
<1> USE DEF rowVars
<1>1. PICK s \in Sessions, outcome \in {"authorized", "mismatched"} :
        /\ session[s] = "open"
        /\ session' = [session EXCEPT ![s] = outcome] /\ hold' = [hold EXCEPT ![s] = "held"]
  BY DEF CustomerAuthorizes
<1>2. UNCHANGED <<booking, rowVars, created, work>>
  BY DEF CustomerAuthorizes
<1>3. \A r \in Sessions : /\ session'[r] = IF r = s THEN outcome ELSE session[r]
                          /\ hold'[r] = IF r = s THEN "held" ELSE hold[r]
  BY <1>1 DEF IInv, TypeOK
<1>4. TypeOK'
  BY <1>1, <1>2 DEF IInv, TypeOK
<1>5. RowOK'
  BY <1>1, <1>2, <1>3 DEF IInv, TypeOK, RowOK, PromotedOnce
<1>6. \A r \in Sessions : SessionOK(r)'
  BY <1>1, <1>2, <1>3 DEF IInv, SessionOK, Awaiting
<1>7. QED
  BY <1>1, <1>2, <1>3, <1>4, <1>5, <1>6, OutsideStep DEF Awaiting

LEMMA CustomerDeclinedOK == ASSUME IInv, CustomerDeclined PROVE IInv'
<1> USE DEF rowVars
<1>1. PICK s \in Sessions : session[s] = "open" /\ session' = [session EXCEPT ![s] = "declined"]
  BY DEF CustomerDeclined
<1>2. UNCHANGED <<booking, rowVars, created, hold, work>>
  BY DEF CustomerDeclined
<1>3. \A r \in Sessions : session'[r] = IF r = s THEN "declined" ELSE session[r]
  BY <1>1 DEF IInv, TypeOK
<1>4. TypeOK'
  BY <1>1, <1>2 DEF IInv, TypeOK
<1>5. RowOK' /\ (\A r \in Sessions : SessionOK(r)')
  BY <1>1, <1>2, <1>3 DEF IInv, TypeOK, RowOK, PromotedOnce, SessionOK, Awaiting
<1>6. QED
  BY <1>1, <1>2, <1>3, <1>4, <1>5, OutsideStep DEF Awaiting

LEMMA RowAndBookingOK == ASSUME IInv, WebhookDeclined \/ ExpireUnpaid \/ Cancel PROVE IInv'
<1> USE DEF WebhookDeclined, ExpireUnpaid, Cancel, rowVars, pspVars
<1>1. TypeOK'
  BY DEF IInv, TypeOK
<1>2. RowOK' /\ (\A s \in Sessions : SessionOK(s)')
  BY DEF IInv, RowOK, PromotedOnce, SessionOK, Awaiting
<1>3. QED
  BY <1>1, <1>2, OutsideStep DEF Awaiting

-----------------------------------------------------------------------------
LEMMA Inductive == IInv /\ [Next]_vars => IInv'
<1> SUFFICES ASSUME IInv, [Next]_vars PROVE IInv'
  OBVIOUS
<1>1. ASSUME NEW w \in Workers, Job(w) PROVE IInv'
  BY <1>1, GiveUpOK, PrepareReadOK, PreparePspOK, PrepareDbOK, FinalizeReadOK, ResultPspOK,
     WebhookAuthorizedOK, RejectDbOK, PromoteOK, PromotionFailsOK, VoidRejectedOK, VoidDuplicateOK
     DEF Job
<1>2. CASE CustomerAuthorizes \/ CustomerDeclined
  BY <1>2, CustomerAuthorizesOK, CustomerDeclinedOK
<1>3. CASE WebhookDeclined \/ ExpireUnpaid \/ Cancel
  BY <1>3, RowAndBookingOK
<1>4. CASE UNCHANGED vars
  <2> USE <1>4 DEF vars, rowVars, pspVars
  <2>1. TypeOK' /\ RowOK' /\ (\A s \in Sessions : SessionOK(s)')
    BY DEF IInv, TypeOK, RowOK, PromotedOnce, SessionOK, Awaiting
  <2>2. QED
    BY <2>1, OutsideStep DEF Awaiting
<1>5. QED
  BY <1>1, <1>2, <1>3, <1>4 DEF Next

LEMMA Invariance == Spec => []IInv
BY Initially, Inductive, PTL DEF Spec

\* Every variable keeps its type.
THEOREM TypeCorrect == Spec => []TypeOK
<1>1. IInv => TypeOK
  BY DEF IInv
<1>2. QED
  BY <1>1, Invariance, PTL

\* Query, webhooks and redeliveries promote a booking at most once, and never a row
\* without its booking (applyAuthorization).
THEOREM PromotesOnce == Spec => []PromotedOnce
<1>1. IInv => PromotedOnce
  BY DEF IInv, RowOK
<1>2. QED
  BY <1>1, Invariance, PTL

\* No void of a duplicate, mismatched or stale hold takes the one the job will be
\* paid from, in whatever order the calls go on.
THEOREM AuthorisedRowsAreHeld == Spec => []HoldBehindRow
<1>1. IInv => HoldBehindRow
  BY DEF IInv, RowOK, HoldBehindRow
<1>2. QED
  BY <1>1, Invariance, PTL
=============================================================================
