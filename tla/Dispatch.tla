------------------------------ MODULE Dispatch ------------------------------
(***************************************************************************)
(* Broadcast-and-accept dispatch of ONE booking: rounds of offers to the   *)
(* technicians in a widening radius, until one accepts or none is left.    *)
(*                                                                         *)
(* A job is a call run by a worker: the sweep timer of a process (sweeps   *)
(* may overlap), a technician's accept or reject.  Each read, Redis call   *)
(* and transaction is a step.  Rounds are advanced under a Redis lock and  *)
(* accepts under another; both have a TTL and are deleted by whoever is    *)
(* done, whether or not the lock is still theirs.                          *)
(*                                                                         *)
(* Every way out of PENDING increments bookings.version, so the optimistic *)
(* version guards are the test that the booking is PENDING still.          *)
(***************************************************************************)
EXTENDS Naturals, FiniteSets

CONSTANTS
  Workers,        \* concurrent calls
  Techs,          \* technicians offering the service
  Near,           \* those within the initial radius; the others are MaxRadius away
  InitialRadius,  \* DISPATCH_INITIAL_RADIUS_KM
  RadiusStep,     \* DISPATCH_RADIUS_STEP_KM
  MaxRadius,      \* DISPATCH_MAX_RADIUS_KM
  MayStall,       \* a call may outlive the TTL of the lock it holds
  MaxMishaps      \* bound on failed calls and on technicians coming or going

None == "none"

ASSUME DispatchAssumption ==
  /\ Near \subseteq Techs /\ None \notin Techs
  /\ InitialRadius \in Nat \ {0} /\ RadiusStep \in Nat \ {0} /\ MaxRadius \in Nat
  /\ InitialRadius <= MaxRadius
  /\ MayStall \in BOOLEAN /\ MaxMishaps \in Nat

VARIABLES
  booking,     \* bookings.status
  technician,  \* bookings.technicianId
  reason,      \* bookings.cancelReason
  round, radius,  \* bookings.dispatchRound and dispatchRadiusKm
  deadline,    \* bookings.dispatchExpiresAt: "none" for null, "running" or "passed"
  offer,       \* dispatch_offers.status of each technician, "none" for no row
  funded,      \* the payment is PRE_AUTHORIZED
  available,   \* technicians approved, online and sending heartbeats
  locks,       \* Redis: the locks that are set
  work,        \* the job of each worker
  mishaps

bookingVars == <<booking, technician, reason>>
roundVars == <<round, radius, deadline>>
outside == <<funded, available>>
vars == <<bookingVars, roundVars, offer, outside, locks, work, mishaps>>

Point == {"idle", "advance_lock", "advance_read", "expire_db", "exhaust_db", "open_query",
          "open_db", "advance_unlock", "reject_count", "accept_db", "accept_unlock"}
Idle == [at |-> "idle", tech |-> None, round |-> 0, radius |-> 0, found |-> {}]

Init ==
  /\ booking = "PENDING" /\ technician = None /\ reason = "none"
  /\ round = 0 /\ radius = 0 /\ deadline = "none"
  /\ offer = [t \in Techs |-> "none"]
  /\ funded = FALSE
  /\ available = Techs
  /\ locks = {}
  /\ work = [w \in Workers |-> Idle]
  /\ mishaps = 0

-----------------------------------------------------------------------------
At(w, point) == work[w].at = point
Goto(w, point) == work' = [work EXCEPT ![w].at = point]
Finish(w) == work' = [work EXCEPT ![w] = Idle]
Start(w, job) == work[w] = Idle /\ work' = [work EXCEPT ![w] = job]

\* Only advanceRound opens a round after the first, and it holds the lock then.
Advancing(w) ==
  \/ work[w].at \in {"advance_read", "expire_db", "exhaust_db", "advance_unlock"}
  \/ work[w].at \in {"open_query", "open_db"} /\ work[w].round > 1
Accepting(w) == work[w].at \in {"accept_db", "accept_unlock"}

Held(w) == {l \in {"dispatch"} : Advancing(w)} \cup {l \in {"booking"} : Accepting(w)}

\* The call throws, and `finally' deletes its lock, or its process dies.
GiveUp(w) ==
  /\ ~At(w, "idle")
  /\ mishaps < MaxMishaps
  /\ mishaps' = mishaps + 1
  /\ locks' \in {locks, locks \ Held(w)}
  /\ Finish(w)
  /\ UNCHANGED <<bookingVars, roundVars, offer, outside>>

LockNeverExpires == FALSE /\ UNCHANGED vars

\* The TTL of a lock outlasts the call that took it, unless that stalls.
LockExpires ==
  /\ \E l \in locks :
       /\ MayStall \/ \A w \in Workers : l \notin Held(w)
       /\ locks' = locks \ {l}
  /\ UNCHANGED <<bookingVars, roundVars, offer, outside, work, mishaps>>

-----------------------------------------------------------------------------
\* qualifiedTechs.  Those offered the booking before are left out here or, all
\* the same, skipped as duplicates when the offers are created.
Distance(t) == IF t \in Near THEN InitialRadius ELSE MaxRadius
Qualified(km) == {t \in available : Distance(t) <= km}
NotOffered(techs) == {t \in techs : offer[t] = "none"}

Withdrawn == [t \in Techs |-> IF offer[t] = "OFFERED" THEN "EXPIRED" ELSE offer[t]]

\* expireRounds (b) and startDispatch.
StartDispatch(w) ==
  /\ booking = "PENDING" /\ round = 0
  /\ funded
  /\ Start(w, [Idle EXCEPT !.at = "open_query", !.round = 1, !.radius = InitialRadius])
  /\ UNCHANGED <<bookingVars, roundVars, offer, outside, locks, mishaps>>

OpenQuery(w) ==
  /\ At(w, "open_query")
  /\ work' = [work EXCEPT ![w].at = "open_db", ![w].found = Qualified(work[w].radius)]
  /\ UNCHANGED <<bookingVars, roundVars, offer, outside, locks, mishaps>>

\* openRound writes the booking whatever its status or round is by now.
OpenDb(w) ==
  /\ At(w, "open_db")
  /\ round' = work[w].round
  /\ radius' = work[w].radius
  /\ deadline' = "running"
  /\ offer' = [t \in Techs |-> IF t \in NotOffered(work[w].found) THEN "OFFERED" ELSE offer[t]]
  /\ IF Advancing(w) THEN Goto(w, "advance_unlock") ELSE Finish(w)
  /\ UNCHANGED <<bookingVars, outside, locks, mishaps>>

-----------------------------------------------------------------------------
(* advanceRound, called by the sweep (expireRounds) or by reject *)

\* The sweep lists the expired bookings before it advances them one by one.
SweepRead(w) ==
  /\ booking = "PENDING" /\ deadline = "passed"
  /\ Start(w, [Idle EXCEPT !.at = "advance_lock"])
  /\ UNCHANGED <<bookingVars, roundVars, offer, outside, locks, mishaps>>

\* SET NX: "another process is advancing".
AdvanceLock(w) ==
  /\ At(w, "advance_lock")
  /\ locks' = locks \cup {"dispatch"}
  /\ IF "dispatch" \in locks THEN Finish(w) ELSE Goto(w, "advance_read")
  /\ UNCHANGED <<bookingVars, roundVars, offer, outside, mishaps>>

NextRadius ==
  LET wider == InitialRadius + RadiusStep * round IN
  IF wider < MaxRadius THEN wider ELSE MaxRadius

\* Nobody new within reach, and the widest radius was searched already.
Exhausted == NotOffered(Qualified(NextRadius)) = {} /\ radius >= MaxRadius

AdvanceRead(w) ==
  /\ At(w, "advance_read")
  /\ work' = [work EXCEPT ![w].at = CASE booking # "PENDING" -> "advance_unlock"
                                      [] booking = "PENDING" /\ Exhausted -> "exhaust_db"
                                      [] OTHER -> "expire_db",
                          ![w].round = round + 1,
                          ![w].radius = NextRadius]
  /\ UNCHANGED <<bookingVars, roundVars, offer, outside, locks, mishaps>>

ExpireDb(w) ==
  /\ At(w, "expire_db")
  /\ offer' = Withdrawn
  /\ Goto(w, "open_query")
  /\ UNCHANGED <<bookingVars, roundVars, outside, locks, mishaps>>

ExhaustDecided(w) ==
  /\ At(w, "exhaust_db")
  /\ booking' = "CANCELLED" /\ reason' = "no_technician"
  /\ deadline' = "none"
  /\ offer' = Withdrawn
  /\ Goto(w, "advance_unlock")
  /\ UNCHANGED <<technician, round, radius, outside, locks, mishaps>>

\* exhaust reads the booking again, and writes under its version.
ExhaustDb(w) ==
  /\ At(w, "exhaust_db")
  /\ \/ /\ booking = "PENDING"
        /\ booking' = "CANCELLED" /\ reason' = "no_technician"
        /\ deadline' = "none"
        /\ offer' = Withdrawn
     \/ /\ booking # "PENDING"
        /\ UNCHANGED <<booking, reason, deadline, offer>>
  /\ Goto(w, "advance_unlock")
  /\ UNCHANGED <<technician, round, radius, outside, locks, mishaps>>

AdvanceUnlock(w) ==
  /\ At(w, "advance_unlock")
  /\ locks' = locks \ {"dispatch"}
  /\ Finish(w)
  /\ UNCHANGED <<bookingVars, roundVars, offer, outside, mishaps>>

-----------------------------------------------------------------------------
(* The technicians *)

Reject(w, t) ==
  /\ offer[t] = "OFFERED"
  /\ offer' = [offer EXCEPT ![t] = "REJECTED"]
  /\ Start(w, [Idle EXCEPT !.at = "reject_count"])
  /\ UNCHANGED <<bookingVars, roundVars, outside, locks, mishaps>>

RejectCount(w) ==
  /\ At(w, "reject_count")
  /\ IF \E t \in Techs : offer[t] = "OFFERED" THEN Finish(w) ELSE Goto(w, "advance_lock")
  /\ UNCHANGED <<bookingVars, roundVars, offer, outside, locks, mishaps>>

\* accept takes its own lock; booking and offer are read in its transaction.
AcceptRead(w, t) ==
  /\ "booking" \notin locks
  /\ booking = "PENDING"
  /\ offer[t] = "OFFERED"
  /\ locks' = locks \cup {"booking"}
  /\ Start(w, [Idle EXCEPT !.at = "accept_db", !.tech = t])
  /\ UNCHANGED <<bookingVars, roundVars, offer, outside, mishaps>>

\* The offer is written by its id, the booking under the version read.
Accepted(w) ==
  /\ booking' = "CONFIRMED"
  /\ technician' = work[w].tech
  /\ deadline' = "none"
  /\ offer' = [t \in Techs |-> CASE t = work[w].tech -> "ACCEPTED"
                                 [] t # work[w].tech /\ offer[t] = "OFFERED" -> "SUPERSEDED"
                                 [] OTHER -> offer[t]]

AcceptWithoutVersion(w) ==
  /\ At(w, "accept_db")
  /\ Accepted(w)
  /\ Goto(w, "accept_unlock")
  /\ UNCHANGED <<reason, round, radius, outside, locks, mishaps>>

AcceptDb(w) ==
  /\ At(w, "accept_db")
  /\ \/ booking = "PENDING" /\ Accepted(w)
     \/ booking # "PENDING" /\ UNCHANGED <<booking, technician, deadline, offer>>
  /\ Goto(w, "accept_unlock")
  /\ UNCHANGED <<reason, round, radius, outside, locks, mishaps>>

AcceptUnlock(w) ==
  /\ At(w, "accept_unlock")
  /\ locks' = locks \ {"booking"}
  /\ Finish(w)
  /\ UNCHANGED <<bookingVars, roundVars, offer, outside, mishaps>>

-----------------------------------------------------------------------------
(* The customer, the payment and time *)

Cancel ==
  /\ booking # "CANCELLED"
  /\ booking' = "CANCELLED" /\ reason' = "customer"
  /\ offer' = Withdrawn
  /\ UNCHANGED <<technician, roundVars, outside, locks, work, mishaps>>

\* The hold is placed; later it may lapse.
PaymentMoves ==
  /\ funded' = ~funded
  /\ UNCHANGED <<bookingVars, roundVars, offer, available, locks, work, mishaps>>

DeadlinePasses ==
  /\ deadline = "running"
  /\ deadline' = "passed"
  /\ UNCHANGED <<bookingVars, round, radius, offer, outside, locks, work, mishaps>>

TechnicianMoves ==
  /\ mishaps < MaxMishaps
  /\ mishaps' = mishaps + 1
  /\ \E t \in Techs : available' = (available \ {t}) \cup ({t} \ available)
  /\ UNCHANGED <<bookingVars, roundVars, offer, funded, locks, work>>

-----------------------------------------------------------------------------
Continue(w) ==
  \/ OpenQuery(w) \/ OpenDb(w)
  \/ AdvanceLock(w) \/ AdvanceRead(w) \/ ExpireDb(w) \/ ExhaustDb(w) \/ AdvanceUnlock(w)
  \/ RejectCount(w) \/ AcceptDb(w) \/ AcceptUnlock(w)

Sweep == \E w \in Workers : StartDispatch(w) \/ SweepRead(w)

Next ==
  \/ \E w \in Workers : Continue(w) \/ GiveUp(w) \/ \E t \in Techs : Reject(w, t) \/ AcceptRead(w, t)
  \/ Sweep \/ LockExpires \/ DeadlinePasses
  \/ Cancel \/ PaymentMoves \/ TechnicianMoves

\* The sweep timer runs for as long as the process does, a started call goes on,
\* a TTL and a deadline run out.  Nothing makes a technician answer.
Fairness ==
  /\ \A w \in Workers : WF_vars(Continue(w))
  /\ WF_vars(Sweep) /\ WF_vars(LockExpires) /\ WF_vars(DeadlinePasses)

Spec == Init /\ [][Next]_vars /\ Fairness

-----------------------------------------------------------------------------
\* Every variable keeps its type.
TypeOK ==
  /\ booking \in {"PENDING", "CONFIRMED", "CANCELLED"}
  /\ technician \in Techs \cup {None}
  /\ reason \in {"none", "customer", "no_technician"}
  /\ round \in Nat /\ radius \in 0..MaxRadius
  /\ deadline \in {"none", "running", "passed"}
  /\ offer \in [Techs -> {"none", "OFFERED", "ACCEPTED", "REJECTED", "EXPIRED", "SUPERSEDED"}]
  /\ funded \in BOOLEAN /\ available \subseteq Techs
  /\ locks \subseteq {"dispatch", "booking"}
  /\ work \in [Workers -> [at : Point, tech : Techs \cup {None}, round : Nat,
                           radius : 0..MaxRadius, found : SUBSET Techs]]
  /\ mishaps \in 0..MaxMishaps

\* "double-accept race yields exactly ONE winner (lock + version + offer guard)":
\* the accepted offer is the assigned technician's, with rounds being advanced,
\* cancels and locks lost meanwhile.
OneWinner ==
  /\ \A t \in Techs : offer[t] = "ACCEPTED" <=> technician = t
  /\ booking = "CONFIRMED" => technician # None
  /\ booking = "PENDING" => technician = None

\* "exhaust is a no-op if the booking was already taken": giving up the search
\* never cancels a booking a technician has accepted meanwhile.
ExhaustSparesAccepted == technician # None => reason # "no_technician"

\* A dispatched booking does not wait for ever: someone accepts it, it is
\* cancelled, or the search is exhausted, though calls fail and leave locks behind.
DispatchEnds == booking = "PENDING" /\ round > 0 ~> booking # "PENDING"
=============================================================================
