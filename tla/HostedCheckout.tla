--------------------------- MODULE HostedCheckout ---------------------------
(***************************************************************************)
(* The hosted checkout of ONE booking: the customer authorises at the PSP, *)
(* and the outcome reaches us twice, by the status query of the return     *)
(* page (finalizeCheckout) and by a webhook, in any order and any number   *)
(* of times.  Meanwhile the customer may open further sessions             *)
(* (prepareCheckout), cancel, or abandon the booking to the expiry timer.  *)
(*                                                                         *)
(* As in Payment, a job is a call of the service run by a worker, one step *)
(* per database transaction or PSP call, and may end at any point.         *)
(***************************************************************************)
EXTENDS Naturals

CONSTANTS
  Workers,    \* concurrent calls of the service
  Sessions    \* checkout sessions the PSP can open

None == "none"
ASSUME SessionAssumption == None \notin Sessions

VARIABLES
  booking,      \* bookings.status
  status,       \* payments.status, "NONE" while there is no row
  checkoutId,   \* payments.checkoutId
  providerRef,  \* payments.providerRef, the session whose hold the row has
  created,      \* booking.created events emitted
  session,      \* PSP: state of each session
  hold,         \* PSP: the hold a session placed
  work          \* the job of each worker

rowVars == <<status, checkoutId, providerRef>>
pspVars == <<session, hold>>
vars == <<booking, rowVars, created, pspVars, work>>

Point == {"idle", "prepare_psp", "prepare_db", "result_psp", "apply_db", "reject_db",
          "mismatch_psp", "stale_psp", "duplicate_psp"}
Idle == [at |-> "idle", s |-> None]

Init ==
  /\ booking = "AWAITING_PAYMENT"
  /\ status = "NONE" /\ checkoutId = None /\ providerRef = None
  /\ created = 0
  /\ session = [s \in Sessions |-> "none"]
  /\ hold = [s \in Sessions |-> "none"]
  /\ work = [w \in Workers |-> Idle]

-----------------------------------------------------------------------------
At(w, point) == work[w].at = point
Goto(w, point) == work' = [work EXCEPT ![w].at = point]
Finish(w) == work' = [work EXCEPT ![w] = Idle]

Start(w, at, s) ==
  /\ work[w] = Idle
  /\ work' = [work EXCEPT ![w] = [at |-> at, s |-> s]]

GiveUp(w) ==
  /\ ~At(w, "idle")
  /\ Finish(w)
  /\ UNCHANGED <<booking, rowVars, created, pspVars>>

-----------------------------------------------------------------------------
(* prepareCheckout *)

PrepareRead(w) ==
  /\ booking = "AWAITING_PAYMENT"
  /\ Start(w, "prepare_psp", None)
  /\ UNCHANGED <<booking, rowVars, created, pspVars>>

PreparePsp(w) ==
  /\ At(w, "prepare_psp")
  /\ \E s \in Sessions :
       /\ session[s] = "none"
       /\ session' = [session EXCEPT ![s] = "open"]
       /\ work' = [work EXCEPT ![w] = [at |-> "prepare_db", s |-> s]]
  /\ UNCHANGED <<booking, rowVars, created, hold>>

\* The upsert resets the status of whatever row is there by now.
PrepareDb(w) ==
  /\ At(w, "prepare_db")
  /\ status' = "PENDING"
  /\ checkoutId' = work[w].s
  /\ Finish(w)
  /\ UNCHANGED <<booking, providerRef, created, pspVars>>

-----------------------------------------------------------------------------
(* finalizeCheckout and the payment.authorized webhook *)

\* The authorised amount or currency may not be the booking's.
Outcome(s) == CASE session[s] = "authorized" -> "apply_db"
                [] session[s] = "mismatched" -> "mismatch_psp"
                [] session[s] = "declined"   -> "reject_db"
                [] OTHER                     -> "idle"

FinalizeRead(w) ==
  /\ status = "PENDING"
  /\ checkoutId # None
  /\ Start(w, "result_psp", checkoutId)
  /\ UNCHANGED <<booking, rowVars, created, pspVars>>

ResultPsp(w) ==
  /\ At(w, "result_psp")
  /\ IF Outcome(work[w].s) = "idle" THEN Finish(w) ELSE Goto(w, Outcome(work[w].s))
  /\ UNCHANGED <<booking, rowVars, created, pspVars>>

WebhookAuthorized(w) ==
  /\ status = "PENDING"
  /\ \E s \in Sessions :
       /\ session[s] \in {"authorized", "mismatched"}
       /\ Start(w, Outcome(s), s)
  /\ UNCHANGED <<booking, rowVars, created, pspVars>>

\* PENDING -> FAILED, guarded by the status alone.
RejectDb(w) ==
  /\ At(w, "reject_db")
  /\ status = "PENDING"
  /\ status' = "FAILED"
  /\ Finish(w)
  /\ UNCHANGED <<booking, checkoutId, providerRef, created, pspVars>>

-----------------------------------------------------------------------------
(* applyAuthorization: row and booking are promoted in one transaction. *)

PromoteAnyBooking(w) ==
  /\ At(w, "apply_db")
  /\ status = "PENDING"
  /\ status' = "PRE_AUTHORIZED"
  /\ providerRef' = work[w].s
  /\ booking' = IF booking = "AWAITING_PAYMENT" THEN "PENDING" ELSE booking
  /\ created' = created + 1
  /\ Finish(w)
  /\ UNCHANGED <<checkoutId, pspVars>>

Promote(w) ==
  /\ At(w, "apply_db")
  /\ status = "PENDING"
  /\ booking = "AWAITING_PAYMENT"
  /\ status' = "PRE_AUTHORIZED"
  /\ providerRef' = work[w].s
  /\ booking' = "PENDING"
  /\ created' = created + 1
  /\ Finish(w)
  /\ UNCHANGED <<checkoutId, pspVars>>

\* BookingNoLongerAwaitingError rolls the transaction back.
PromotionStale(w) ==
  /\ At(w, "apply_db")
  /\ status = "PENDING"
  /\ booking # "AWAITING_PAYMENT"
  /\ Goto(w, "stale_psp")
  /\ UNCHANGED <<booking, rowVars, created, pspVars>>

PromotionLost(w) ==
  /\ At(w, "apply_db")
  /\ status # "PENDING"
  /\ Goto(w, "duplicate_psp")
  /\ UNCHANGED <<booking, rowVars, created, pspVars>>

\* Voids are best effort: a failure is logged and the job goes on.
Void(s) == hold' \in {hold, [hold EXCEPT ![s] = "voided"]}

VoidRejected(w) ==
  /\ work[w].at \in {"mismatch_psp", "stale_psp"}
  /\ Void(work[w].s)
  /\ Goto(w, "reject_db")
  /\ UNCHANGED <<booking, rowVars, created, session>>

VoidAnyDuplicate(w) ==
  /\ At(w, "duplicate_psp")
  /\ Void(work[w].s)
  /\ Finish(w)
  /\ UNCHANGED <<booking, rowVars, created, session>>

\* Only a hold other than the one the row has is an extra.
VoidDuplicate(w) ==
  /\ At(w, "duplicate_psp")
  /\ providerRef \notin {None, work[w].s}
  /\ Void(work[w].s)
  /\ Finish(w)
  /\ UNCHANGED <<booking, rowVars, created, session>>

-----------------------------------------------------------------------------
(* The customer at the PSP's widget, and the PSP. *)

CustomerAuthorizes ==
  /\ \E s \in Sessions : \E outcome \in {"authorized", "mismatched"} :
       /\ session[s] = "open"
       /\ session' = [session EXCEPT ![s] = outcome]
       /\ hold' = [hold EXCEPT ![s] = "held"]
  /\ UNCHANGED <<booking, rowVars, created, work>>

CustomerDeclined ==
  /\ \E s \in Sessions :
       /\ session[s] = "open"
       /\ session' = [session EXCEPT ![s] = "declined"]
  /\ UNCHANGED <<booking, rowVars, created, hold, work>>

\* The adapter reports a declined authorization as payment.auth.expired, matched
\* by booking: it fails a row that another session has authorised.
WebhookDeclined ==
  /\ \E s \in Sessions : session[s] = "declined"
  /\ status = "PRE_AUTHORIZED"
  /\ status' = "FAILED"
  /\ UNCHANGED <<booking, checkoutId, providerRef, created, pspVars, work>>

-----------------------------------------------------------------------------
(* The booking *)

ExpireOnlyOpened ==
  /\ booking = "AWAITING_PAYMENT"
  /\ status = "PENDING"
  /\ booking' = "CANCELLED"
  /\ UNCHANGED <<rowVars, created, pspVars, work>>

\* expireUnpaidBookings: the guarded update of the checkout-expiry timer.
ExpireUnpaid ==
  /\ booking = "AWAITING_PAYMENT"
  /\ booking' = "CANCELLED"
  /\ UNCHANGED <<rowVars, created, pspVars, work>>

Cancel ==
  /\ booking # "CANCELLED"
  /\ booking' = "CANCELLED"
  /\ UNCHANGED <<rowVars, created, pspVars, work>>

-----------------------------------------------------------------------------
Job(w) ==
  \/ GiveUp(w)
  \/ PrepareRead(w) \/ PreparePsp(w) \/ PrepareDb(w)
  \/ FinalizeRead(w) \/ ResultPsp(w) \/ WebhookAuthorized(w) \/ RejectDb(w)
  \/ Promote(w) \/ PromotionStale(w) \/ PromotionLost(w)
  \/ VoidRejected(w) \/ VoidDuplicate(w)

Next ==
  \/ \E w \in Workers : Job(w)
  \/ CustomerAuthorizes \/ CustomerDeclined \/ WebhookDeclined
  \/ ExpireUnpaid \/ Cancel

\* The expiry timer of main.ts runs for as long as the process does.
Spec == Init /\ [][Next]_vars /\ WF_vars(ExpireUnpaid)

-----------------------------------------------------------------------------
\* Every variable keeps its type.
TypeOK ==
  /\ booking \in {"AWAITING_PAYMENT", "PENDING", "CANCELLED"}
  /\ status \in {"NONE", "PENDING", "PRE_AUTHORIZED", "FAILED"}
  /\ checkoutId \in Sessions \cup {None} /\ providerRef \in Sessions \cup {None}
  /\ created \in Nat
  /\ session \in [Sessions -> {"none", "open", "authorized", "mismatched", "declined"}]
  /\ hold \in [Sessions -> {"none", "held", "voided"}]
  /\ work \in [Workers -> [at : Point, s : Sessions \cup {None}]]

\* "Whichever wins promotes; the other no-ops": query, webhooks and redeliveries
\* make the booking live at most once, and a row is never authorised for a
\* booking that was not made live with it.
PromotedOnce ==
  /\ created <= 1
  /\ created = 0 => booking # "PENDING" /\ status # "PRE_AUTHORIZED"
  /\ created = 1 => booking # "AWAITING_PAYMENT"

\* An authorised row has its hold: releasing duplicate, mismatched and stale
\* holds never releases the one the job will be paid from.
HoldBehindRow == status = "PRE_AUTHORIZED" => hold[providerRef] = "held"

\* A booking nobody pays for does not wait for ever: it is promoted or expires,
\* whether or not a session was ever opened for it.
UnpaidResolved == booking = "AWAITING_PAYMENT" ~> booking # "AWAITING_PAYMENT"
=============================================================================
