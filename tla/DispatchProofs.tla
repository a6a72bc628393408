---------------------------- MODULE DispatchProofs ----------------------------
(***************************************************************************)
(* Theorems about Dispatch, for any number of overlapping sweeps, accepts  *)
(* and rejections, any technicians and radii, and locks lost at any time:  *)
(* neither Redis lock is used by the proofs, which rest on the guards of   *)
(* the transactions alone.                                                 *)
(*                                                                         *)
(* WinnerInv says what a booking that is still PENDING owes to nobody      *)
(* having accepted; AcceptorKnown that an accept carries its technician.   *)
(***************************************************************************)
EXTENDS Dispatch, TLAPS

WinnerInv ==
  /\ OneWinner
  /\ ExhaustSparesAccepted
  /\ booking = "PENDING" => reason = "none"

AcceptorKnown == \A w \in Workers : At(w, "accept_db") => work[w].tech \in Techs

IInv == TypeOK /\ WinnerInv /\ AcceptorKnown

Job == [at : Point, tech : Techs \cup {None}, round : Nat, radius : 0..MaxRadius,
        found : SUBSET Techs]

OfferStatus == {"none", "OFFERED", "ACCEPTED", "REJECTED", "EXPIRED", "SUPERSEDED"}

-----------------------------------------------------------------------------
LEMMA IdleOK == Idle \in Job /\ Idle.at = "idle" /\ Idle.tech = None
BY DispatchAssumption DEF Idle, Job, Point

\* The ways a call's memory is written.
LEMMA Edited ==
  ASSUME NEW job \in Job, NEW p \in Point
  PROVE  [job EXCEPT !.at = p] \in Job /\ [job EXCEPT !.at = p].at = p
BY DEF Job

LEMMA EditedTech ==
  ASSUME NEW job \in Job, NEW p \in Point, NEW t \in Techs
  PROVE  [job EXCEPT !.at = p, !.tech = t] \in Job /\ [job EXCEPT !.at = p, !.tech = t].tech = t
BY DEF Job

LEMMA EditedRound ==
  ASSUME NEW job \in Job, NEW p \in Point, NEW n \in Nat, NEW km \in 0..MaxRadius
  PROVE  /\ [job EXCEPT !.at = p, !.round = n, !.radius = km] \in Job
         /\ [job EXCEPT !.at = p, !.round = n, !.radius = km].at = p
BY DEF Job

LEMMA EditedFound ==
  ASSUME NEW job \in Job, NEW p \in Point, NEW techs \in SUBSET Techs
  PROVE  /\ [job EXCEPT !.at = p, !.found = techs] \in Job
         /\ [job EXCEPT !.at = p, !.found = techs].at = p
BY DEF Job

LEMMA Initially == Init => IInv
<1> SUFFICES ASSUME Init PROVE IInv
  OBVIOUS
<1>1. TypeOK
  <2>1. work \in [Workers -> Job] /\ mishaps \in 0..MaxMishaps /\ radius \in 0..MaxRadius
    BY IdleOK, DispatchAssumption DEF Init
  <2>2. QED
    BY <2>1 DEF Init, TypeOK, Job
<1>2. WinnerInv
  BY DispatchAssumption DEF Init, WinnerInv, OneWinner, ExhaustSparesAccepted
<1>3. AcceptorKnown
  BY IdleOK DEF Init, AcceptorKnown, At
<1>4. QED
  BY <1>1, <1>2, <1>3 DEF IInv

\* The winner is a matter of the booking and of the offers that are ACCEPTED.
LEMMA WinnerKept ==
  ASSUME IInv, UNCHANGED bookingVars, \A t \in Techs : offer'[t] = "ACCEPTED" <=> offer[t] = "ACCEPTED"
  PROVE  WinnerInv'
BY DEF IInv, WinnerInv, OneWinner, ExhaustSparesAccepted, bookingVars

LEMMA WithdrawnOK ==
  ASSUME IInv, offer' = Withdrawn
  PROVE  /\ offer' \in [Techs -> OfferStatus]
         /\ \A t \in Techs : offer'[t] = "ACCEPTED" <=> offer[t] = "ACCEPTED"
BY DEF IInv, TypeOK, Withdrawn, OfferStatus

\* A call's own memory, when it is not an accept that begins.
LEMMA WorkOK ==
  ASSUME IInv, NEW w \in Workers, NEW job \in Job, work' = [work EXCEPT ![w] = job],
         job.at = "accept_db" => job.tech \in Techs
  PROVE  work' \in [Workers -> Job] /\ AcceptorKnown'
<1>1. \A v \in Workers : work'[v] = IF v = w THEN job ELSE work[v]
  BY DEF IInv, TypeOK
<1>2. QED
  BY <1>1 DEF IInv, TypeOK, Job, AcceptorKnown, At

LEMMA FinishOK ==
  ASSUME IInv, NEW w \in Workers, Finish(w)
  PROVE  work' \in [Workers -> Job] /\ AcceptorKnown'
BY IdleOK, WorkOK DEF Finish

LEMMA GotoOK ==
  ASSUME IInv, NEW w \in Workers, NEW p \in Point \ {"accept_db"}, Goto(w, p)
  PROVE  work' \in [Workers -> Job] /\ AcceptorKnown'
<1>1. PICK old \in Job : old = work[w]
  BY DEF IInv, TypeOK, Job
<1>2. [old EXCEPT !.at = p] \in Job /\ [old EXCEPT !.at = p].at = p
  BY Edited
<1>3. work' = [work EXCEPT ![w] = [old EXCEPT !.at = p]]
  BY <1>1 DEF Goto
<1>4. QED
  BY <1>2, <1>3, WorkOK

LEMMA StartOK ==
  ASSUME IInv, NEW w \in Workers, NEW job \in Job, job.at # "accept_db", Start(w, job)
  PROVE  work' \in [Workers -> Job] /\ AcceptorKnown'
BY WorkOK DEF Start

LEMMA NextRadiusOK == ASSUME IInv PROVE NextRadius \in 0..MaxRadius
<1>1. RadiusStep * round \in Nat
  BY DispatchAssumption DEF IInv, TypeOK
<1>2. QED
  BY <1>1, DispatchAssumption DEF NextRadius

-----------------------------------------------------------------------------
(* Opening and advancing rounds *)

LEMMA StartDispatchOK == ASSUME IInv, NEW w \in Workers, StartDispatch(w) PROVE IInv'
<1> USE DEF StartDispatch, bookingVars, roundVars, outside
<1>1. PICK job \in Job : /\ job = [Idle EXCEPT !.at = "open_query", !.round = 1, !.radius = InitialRadius]
                         /\ job.at # "accept_db"
  <2>1. "open_query" \in Point /\ InitialRadius \in 0..MaxRadius /\ 1 \in Nat
    BY DispatchAssumption DEF Point
  <2>2. /\ [Idle EXCEPT !.at = "open_query", !.round = 1, !.radius = InitialRadius] \in Job
        /\ [Idle EXCEPT !.at = "open_query", !.round = 1, !.radius = InitialRadius].at = "open_query"
    BY <2>1, IdleOK, EditedRound
  <2>3. QED
    BY <2>2
<1>2. work' \in [Workers -> Job] /\ AcceptorKnown'
  BY <1>1, StartOK
<1>3. WinnerInv'
  BY WinnerKept
<1>4. QED
  BY <1>2, <1>3 DEF IInv, TypeOK, Job

LEMMA OpenQueryOK == ASSUME IInv, NEW w \in Workers, OpenQuery(w) PROVE IInv'
<1> USE DEF OpenQuery, bookingVars, roundVars, outside
<1>1. Qualified(work[w].radius) \subseteq Techs
  BY DEF Qualified, IInv, TypeOK
<1>2. PICK job \in Job : /\ job = [work[w] EXCEPT !.at = "open_db", !.found = Qualified(work[w].radius)]
                         /\ job.at = "open_db"
  <2>1. PICK old \in Job : old = work[w]
    BY DEF IInv, TypeOK, Job
  <2>2. "open_db" \in Point
    BY DEF Point
  <2>3. /\ [old EXCEPT !.at = "open_db", !.found = Qualified(work[w].radius)] \in Job
        /\ [old EXCEPT !.at = "open_db", !.found = Qualified(work[w].radius)].at = "open_db"
    BY <1>1, <2>2, EditedFound
  <2>4. QED
    BY <2>1, <2>3
<1>3. work' = [work EXCEPT ![w] = job]
  BY <1>2 DEF IInv, TypeOK
<1>4. work' \in [Workers -> Job] /\ AcceptorKnown'
  BY <1>2, <1>3, WorkOK
<1>5. WinnerInv'
  BY WinnerKept
<1>6. QED
  BY <1>4, <1>5 DEF IInv, TypeOK, Job

\* Whatever the booking has become, only technicians without an offer get one.
LEMMA OpenDbOK == ASSUME IInv, NEW w \in Workers, OpenDb(w) PROVE IInv'
<1> USE DEF OpenDb, bookingVars, outside
<1>1. work' \in [Workers -> Job] /\ AcceptorKnown'
  BY FinishOK, GotoOK DEF Point
<1>2. /\ offer' \in [Techs -> OfferStatus]
      /\ \A t \in Techs : offer'[t] = "ACCEPTED" <=> offer[t] = "ACCEPTED"
  BY DEF IInv, TypeOK, OfferStatus, NotOffered
<1>3. WinnerInv'
  BY <1>2, WinnerKept
<1>4. round' \in Nat /\ radius' \in 0..MaxRadius
  BY DEF IInv, TypeOK
<1>5. QED
  BY <1>1, <1>2, <1>3, <1>4 DEF IInv, TypeOK, Job, OfferStatus

LEMMA SweepReadOK == ASSUME IInv, NEW w \in Workers, SweepRead(w) PROVE IInv'
<1> USE DEF SweepRead, bookingVars, roundVars, outside
<1>1. PICK job \in Job : job = [Idle EXCEPT !.at = "advance_lock"] /\ job.at # "accept_db"
  BY IdleOK DEF Idle, Job, Point
<1>2. work' \in [Workers -> Job] /\ AcceptorKnown'
  BY <1>1, StartOK
<1>3. WinnerInv'
  BY WinnerKept
<1>4. QED
  BY <1>2, <1>3 DEF IInv, TypeOK, Job

\* The steps that only move a call on, and may set or delete its lock.
LEMMA CallStepOK ==
  ASSUME IInv, NEW w \in Workers,
         AdvanceLock(w) \/ AdvanceUnlock(w) \/ RejectCount(w) \/ AcceptUnlock(w) \/ GiveUp(w)
  PROVE  IInv'
<1> USE DEF AdvanceLock, AdvanceUnlock, RejectCount, AcceptUnlock, GiveUp
<1>1. Finish(w) \/ \E p \in Point \ {"accept_db"} : Goto(w, p)
  BY DEF Point
<1>2. work' \in [Workers -> Job] /\ AcceptorKnown'
  BY <1>1, FinishOK, GotoOK
<1>3. locks' \subseteq {"dispatch", "booking"} /\ mishaps' \in 0..MaxMishaps
  <2>1. mishaps' = mishaps \/ (mishaps < MaxMishaps /\ mishaps' = mishaps + 1)
    OBVIOUS
  <2>2. mishaps' \in 0..MaxMishaps
    BY <2>1, DispatchAssumption DEF IInv, TypeOK
  <2>3. locks' \subseteq locks \cup {"dispatch"}
    BY DEF outside
  <2>4. QED
    BY <2>2, <2>3 DEF IInv, TypeOK
<1>4. WinnerInv'
  BY WinnerKept
<1>5. QED
  BY <1>2, <1>3, <1>4 DEF IInv, TypeOK, Job, bookingVars, roundVars, outside

LEMMA AdvanceReadOK == ASSUME IInv, NEW w \in Workers, AdvanceRead(w) PROVE IInv'
<1>1. PICK p : /\ p = CASE booking # "PENDING" -> "advance_unlock"
                         [] booking = "PENDING" /\ Exhausted -> "exhaust_db"
                         [] OTHER -> "expire_db"
               /\ p \in Point \ {"accept_db"}
  BY DEF Point
<1>2. PICK job \in Job : /\ job = [work[w] EXCEPT !.at = p, !.round = round + 1, !.radius = NextRadius]
                         /\ job.at # "accept_db"
  <2>1. PICK old \in Job : old = work[w]
    BY DEF IInv, TypeOK, Job
  <2>2. round + 1 \in Nat /\ NextRadius \in 0..MaxRadius
    BY NextRadiusOK DEF IInv, TypeOK
  <2>3. PICK n \in Nat, km \in 0..MaxRadius : n = round + 1 /\ km = NextRadius
    BY <2>2
  <2>4. p \in Point
    BY <1>1
  <2>5. /\ [old EXCEPT !.at = p, !.round = n, !.radius = km] \in Job
        /\ [old EXCEPT !.at = p, !.round = n, !.radius = km].at = p
    BY <2>4, <2>3 DEF Job
  <2>6. QED
    BY <1>1, <2>1, <2>3, <2>5
<1>3. work' = [work EXCEPT ![w] = job]
  BY <1>1, <1>2 DEF AdvanceRead, IInv, TypeOK
<1>4. work' \in [Workers -> Job] /\ AcceptorKnown'
  BY <1>2, <1>3, WorkOK
<1>5. WinnerInv'
  BY WinnerKept DEF AdvanceRead
<1>6. QED
  BY <1>4, <1>5 DEF AdvanceRead, bookingVars, roundVars, outside, IInv, TypeOK, Job

LEMMA ExpireDbOK == ASSUME IInv, NEW w \in Workers, ExpireDb(w) PROVE IInv'
<1> USE DEF ExpireDb, bookingVars, roundVars, outside
<1>1. work' \in [Workers -> Job] /\ AcceptorKnown'
  BY GotoOK DEF Point
<1>2. WinnerInv'
  BY WithdrawnOK, WinnerKept
<1>3. QED
  BY <1>1, <1>2, WithdrawnOK DEF IInv, TypeOK, Job, OfferStatus

\* The booking is PENDING in the transaction that gives the search up.
LEMMA ExhaustDbOK == ASSUME IInv, NEW w \in Workers, ExhaustDb(w) PROVE IInv'
<1> USE DEF ExhaustDb, bookingVars, outside
<1>1. work' \in [Workers -> Job] /\ AcceptorKnown'
  BY GotoOK DEF Point
<1>2. CASE booking = "PENDING"
  <2>1. offer' = Withdrawn /\ booking' = "CANCELLED" /\ reason' = "no_technician" /\ deadline' = "none"
    BY <1>2
  <2>2. WinnerInv'
    BY <1>2, <2>1, WithdrawnOK DEF IInv, WinnerInv, OneWinner, ExhaustSparesAccepted
  <2>3. QED
    BY <1>1, <2>1, <2>2, WithdrawnOK DEF IInv, TypeOK, Job, OfferStatus
<1>3. CASE booking # "PENDING"
  <2>1. UNCHANGED <<booking, reason, deadline, offer>>
    BY <1>3
  <2>2. WinnerInv'
    BY <2>1, WinnerKept
  <2>3. QED
    BY <1>1, <2>1, <2>2 DEF IInv, TypeOK, Job
<1>4. QED
  BY <1>2, <1>3

-----------------------------------------------------------------------------
(* The technicians *)

LEMMA RejectOK == ASSUME IInv, NEW w \in Workers, NEW t \in Techs, Reject(w, t) PROVE IInv'
<1> USE DEF Reject, bookingVars, roundVars, outside
<1>1. PICK job \in Job : job = [Idle EXCEPT !.at = "reject_count"] /\ job.at # "accept_db"
  BY IdleOK DEF Idle, Job, Point
<1>2. work' \in [Workers -> Job] /\ AcceptorKnown'
  BY <1>1, StartOK
<1>3. /\ offer' \in [Techs -> OfferStatus]
      /\ \A u \in Techs : offer'[u] = "ACCEPTED" <=> offer[u] = "ACCEPTED"
  BY DEF IInv, TypeOK, OfferStatus
<1>4. WinnerInv'
  BY <1>3, WinnerKept
<1>5. QED
  BY <1>2, <1>3, <1>4 DEF IInv, TypeOK, Job, OfferStatus

LEMMA AcceptReadOK == ASSUME IInv, NEW w \in Workers, NEW t \in Techs, AcceptRead(w, t) PROVE IInv'
<1> USE DEF AcceptRead, bookingVars, roundVars, outside
<1>1. PICK job \in Job : /\ job = [Idle EXCEPT !.at = "accept_db", !.tech = t]
                         /\ job.tech = t
  <2>1. "accept_db" \in Point
    BY DEF Point
  <2>2. /\ [Idle EXCEPT !.at = "accept_db", !.tech = t] \in Job
        /\ [Idle EXCEPT !.at = "accept_db", !.tech = t].tech = t
    BY <2>1, IdleOK, EditedTech
  <2>3. QED
    BY <2>2
<1>2. work' = [work EXCEPT ![w] = job]
  BY <1>1 DEF Start
<1>3. work' \in [Workers -> Job] /\ AcceptorKnown'
  BY <1>1, <1>2, WorkOK
<1>4. locks' \subseteq {"dispatch", "booking"}
  BY DEF IInv, TypeOK
<1>5. WinnerInv'
  BY WinnerKept
<1>6. QED
  BY <1>3, <1>4, <1>5 DEF IInv, TypeOK, Job

\* The first to commit finds the booking PENDING and no offer accepted; whoever
\* comes after finds it taken.
LEMMA AcceptDbOK == ASSUME IInv, NEW w \in Workers, AcceptDb(w) PROVE IInv'
<1> USE DEF AcceptDb, bookingVars, outside
<1>1. work' \in [Workers -> Job] /\ AcceptorKnown'
  BY GotoOK DEF Point
<1>2. CASE booking = "PENDING" /\ Accepted(w)
  <2>1. PICK t \in Techs : t = work[w].tech
    BY DEF IInv, AcceptorKnown
  <2>2. technician = None /\ t # None
    BY <1>2, DispatchAssumption DEF IInv, WinnerInv, OneWinner
  <2>3. booking' = "CONFIRMED" /\ technician' = t /\ deadline' = "none" /\ reason' = reason
    BY <1>2, <2>1 DEF Accepted
  <2>4. \A u \in Techs : offer[u] # "ACCEPTED"
    BY <2>2, DispatchAssumption DEF IInv, WinnerInv, OneWinner
  <2>5. /\ offer' \in [Techs -> OfferStatus]
        /\ \A u \in Techs : offer'[u] = "ACCEPTED" <=> u = t
    BY <1>2, <2>1, <2>4 DEF Accepted, IInv, TypeOK, OfferStatus
  <2>6. WinnerInv'
    BY <1>2, <2>2, <2>3, <2>5 DEF IInv, WinnerInv, OneWinner, ExhaustSparesAccepted
  <2>7. QED
    BY <1>1, <2>3, <2>5, <2>6 DEF IInv, TypeOK, Job, OfferStatus
<1>3. CASE UNCHANGED <<booking, technician, deadline, offer>>
  <2>1. WinnerInv'
    BY <1>3, WinnerKept
  <2>2. QED
    BY <1>1, <1>3, <2>1 DEF IInv, TypeOK, Job
<1>4. QED
  BY <1>2, <1>3

-----------------------------------------------------------------------------
(* The customer, the payment and time *)

LEMMA CancelOK == ASSUME IInv, Cancel PROVE IInv'
<1> USE DEF Cancel, roundVars, outside
<1>1. WinnerInv'
  BY WithdrawnOK DEF IInv, WinnerInv, OneWinner, ExhaustSparesAccepted
<1>2. AcceptorKnown'
  BY DEF IInv, AcceptorKnown, At
<1>3. QED
  BY <1>1, <1>2, WithdrawnOK DEF IInv, TypeOK, OfferStatus

LEMMA OutsideOK ==
  ASSUME IInv, LockExpires \/ DeadlinePasses \/ PaymentMoves \/ TechnicianMoves \/ UNCHANGED vars
  PROVE  IInv'
<1> USE DEF LockExpires, DeadlinePasses, PaymentMoves, TechnicianMoves, vars
<1>1. UNCHANGED <<bookingVars, round, radius, offer, work>>
  BY DEF roundVars
<1>2. WinnerInv' /\ AcceptorKnown'
  BY <1>1, WinnerKept DEF IInv, AcceptorKnown, At
<1>3. TypeOK'
  <2>1. mishaps' = mishaps \/ (mishaps < MaxMishaps /\ mishaps' = mishaps + 1)
    OBVIOUS
  <2>2. mishaps' \in 0..MaxMishaps
    BY <2>1, DispatchAssumption DEF IInv, TypeOK
  <2>3. locks' \subseteq locks /\ deadline' \in {deadline, "passed"}
    BY DEF roundVars
  <2>4. funded' \in BOOLEAN /\ available' \subseteq Techs
    BY DEF IInv, TypeOK, outside
  <2>5. QED
    BY <1>1, <2>2, <2>3, <2>4 DEF IInv, TypeOK, bookingVars
<1>4. QED
  BY <1>2, <1>3 DEF IInv

-----------------------------------------------------------------------------
LEMMA Inductive == IInv /\ [Next]_vars => IInv'
<1> SUFFICES ASSUME IInv, [Next]_vars PROVE IInv'
  OBVIOUS
<1>1. ASSUME NEW w \in Workers, Continue(w) \/ GiveUp(w) PROVE IInv'
  BY <1>1, OpenQueryOK, OpenDbOK, AdvanceReadOK, ExpireDbOK, ExhaustDbOK, AcceptDbOK, CallStepOK
     DEF Continue
<1>2. ASSUME NEW w \in Workers, NEW t \in Techs, Reject(w, t) \/ AcceptRead(w, t) PROVE IInv'
  BY <1>2, RejectOK, AcceptReadOK
<1>3. CASE Sweep
  BY <1>3, StartDispatchOK, SweepReadOK DEF Sweep
<1>4. CASE Cancel
  BY <1>4, CancelOK
<1>5. CASE LockExpires \/ DeadlinePasses \/ PaymentMoves \/ TechnicianMoves \/ UNCHANGED vars
  BY <1>5, OutsideOK
<1>6. QED
  BY <1>1, <1>2, <1>3, <1>4, <1>5 DEF Next

LEMMA Invariance == Spec => []IInv
BY Initially, Inductive, PTL DEF Spec

\* Every variable keeps its type.
THEOREM TypeCorrect == Spec => []TypeOK
<1>1. IInv => TypeOK
  BY DEF IInv
<1>2. QED
  BY <1>1, Invariance, PTL

\* However many technicians accept at once, and whatever becomes of the locks, the
\* one accepted offer is the assigned technician's (accept).
THEOREM AcceptHasOneWinner == Spec => []OneWinner
<1>1. IInv => OneWinner
  BY DEF IInv, WinnerInv
<1>2. QED
  BY <1>1, Invariance, PTL

\* A search that gives up never cancels a booking that was accepted (exhaust).
THEOREM ExhaustIsNoOpWhenTaken == Spec => []ExhaustSparesAccepted
<1>1. IInv => ExhaustSparesAccepted
  BY DEF IInv, WinnerInv
<1>2. QED
  BY <1>1, Invariance, PTL
=============================================================================
