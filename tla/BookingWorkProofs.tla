------------------------- MODULE BookingWorkProofs -------------------------
(***************************************************************************)
(* Theorems about BookingWork, for any number of requests, lines and items *)
(* and every price.                                                        *)
(*                                                                         *)
(* What a request read is still so when it commits, because a commit that  *)
(* would disturb it makes it fail (Bump): JobOK says, for each request,    *)
(* which of its reads that holds for.  StatusInv relates the booking's     *)
(* status to its history.                                                  *)
(***************************************************************************)
EXTENDS BookingWork, FiniteSetTheorems, TLAPS

Active == {"CONFIRMED", "EN_ROUTE", "ARRIVED", "IN_PROGRESS"}

\* No outcome is recorded.
Undecided == completions = 0 /\ "COMPLETED" \notin history /\ "NO_SHOW" \notin history

LockedInvoiced == \A l \in Lines : line[l].status = "LOCKED" => line[l].invoice

StatusInv ==
  /\ OneOutcome
  /\ status \in Active => Undecided
  /\ status = "IN_PROGRESS" => "IN_PROGRESS" \in history
  /\ "IN_PROGRESS" \in history => preStart
  /\ preClose => "IN_PROGRESS" \in history
  /\ "COMPLETED" \in history => preClose /\ LockedInvoiced

\* A change of status that is about to be committed.
ChangeOK(to) ==
  /\ to \in Status
  /\ status # "COMPLETED"
  /\ to # "CANCELLED" => Undecided
  /\ to = "IN_PROGRESS" => preStart
  /\ to = "COMPLETED" => preClose /\ LockedInvoiced

JobOK(job) ==
  /\ job.at \in {"status_db", "lock_db"} => ChangeOK(job.to)
  /\ job.at = "lock_db" => job.to = "IN_PROGRESS"
  /\ job.at = "checklist_db" /\ job.to = "pre_close" => "IN_PROGRESS" \in history
  /\ job.at \in {"create_db", "update_db", "substitute_db"} => job.to \in Kinds
  /\ job.at \in {"invoice_db", "justify_db"} => job.to \in Editable
  /\ job.at \in {"review_db", "respond_db"} => job.to \in {"APPROVED", "DECLINED"}

JobInv == \A w \in Workers : JobOK(work[w])

\* One transaction at a time holds the booking's row.
OneWriter == \A v, w \in Workers : At(v, "lock_db") /\ At(w, "lock_db") => v = w

IInv == TypeOK /\ StatusInv /\ JobInv /\ OneWriter

-----------------------------------------------------------------------------
\* The total stays a number: there are finitely many lines.
LEMMA ReadyIsFinite == LinePrice * Cardinality(Ready) \in Nat
<1>1. IsFiniteSet(Ready)
  BY FS_Subset, WorkAssumption DEF Ready
<1>2. QED
  BY <1>1, FS_CardinalityType, WorkAssumption

LEMMA Initially == Init => IInv
<1> SUFFICES ASSUME Init PROVE IInv
  OBVIOUS
<1>1. NoLine \in Line
  BY DEF NoLine, Line, LineStatus
<1>2. Idle \in Job
  BY DEF Idle, Job, Point, Status, LineStatus
<1>3. TypeOK
  BY <1>1, <1>2, WorkAssumption DEF Init, TypeOK, Status, Milestone
<1>4. StatusInv
  BY DEF Init, StatusInv, OneOutcome, Undecided
<1>5. JobInv
  BY DEF Init, JobInv, JobOK, Idle
<1>6. OneWriter
  BY DEF Init, OneWriter, At, Idle
<1>7. QED
  BY <1>3, <1>4, <1>5, <1>6 DEF IInv

\* A step that leaves the booking's history alone, takes no invoice from a locked
\* line, and goes on only with jobs whose reads it has just made.
LEMMA QuietStep ==
  ASSUME IInv, TypeOK', OneWriter',
         UNCHANGED <<status, preStart, preClose, completions, history>>,
         LockedInvoiced => LockedInvoiced',
         \A w \in Workers : work'[w] = work[w] \/ JobOK(work'[w])
  PROVE  IInv'
<1>1. StatusInv'
  BY DEF IInv, StatusInv, OneOutcome, Undecided
<1>2. ASSUME NEW w \in Workers PROVE JobOK(work[w])'
  <2>1. JobOK(work'[w])
    BY DEF IInv, JobInv
  <2>2. QED
    BY <2>1 DEF JobOK, ChangeOK, Undecided
<1>3. QED
  BY <1>1, <1>2 DEF IInv, JobInv

LEMMA IdleOK == JobOK(Idle) /\ Idle \in Job
BY DEF JobOK, Idle, Job, Point, Status, LineStatus

-----------------------------------------------------------------------------
(* The three shapes of a step *)

\* A request starts, remembering what it read.
LEMMA BeginStep ==
  ASSUME IInv, NEW w \in Workers, NEW at \in Point \ {"lock_db"},
         NEW on \in Lines \cup Items \cup {"none"},
         NEW to \in (Status \cup LineStatus) \cup (Kinds \cup {"pre_start", "pre_close"}),
         Begin(w, at, on, to), edits' \in Nat,
         JobOK([at |-> at, on |-> on, to |-> to, sum |-> 0])
  PROVE  IInv'
<1> DEFINE job == [at |-> at, on |-> on, to |-> to, sum |-> 0]
<1>1. job \in Job
  BY DEF Job
<1>2. work' = [work EXCEPT ![w] = job]
  BY DEF Begin
<1>3. UNCHANGED <<bookingVars, paymentVars, line, item>>
  BY DEF Begin
<1>4. TypeOK'
  BY <1>1, <1>2, <1>3 DEF IInv, TypeOK, bookingVars, paymentVars
<1>5. \A v \in Workers : work'[v] = work[v] \/ JobOK(work'[v])
  <2> SUFFICES ASSUME NEW v \in Workers PROVE work'[v] = work[v] \/ JobOK(work'[v])
    OBVIOUS
  <2> HIDE DEF job
  <2>1. work'[v] = IF v = w THEN job ELSE work[v]
    BY <1>2 DEF IInv, TypeOK
  <2>2. JobOK(job)
    BY DEF job
  <2>3. QED
    BY <2>1, <2>2
<1>6. LockedInvoiced => LockedInvoiced'
  BY <1>3 DEF LockedInvoiced
<1>7. OneWriter'
  BY <1>2 DEF IInv, TypeOK, OneWriter, At
<1>8. QED
  BY <1>3, <1>4, <1>5, <1>6, <1>7, QuietStep DEF bookingVars

\* A request ends without having touched the booking's history.
LEMMA EndStep ==
  ASSUME IInv, NEW w \in Workers,
         Finish(w) \/ Bump(w),
         UNCHANGED <<status, preStart, preClose, completions, history, payment, edits>>,
         total' \in Nat, authorized' \in Nat,
         line' \in [Lines -> Line], LockedInvoiced => LockedInvoiced',
         item' \in [Items -> {"none", "PROPOSED", "APPROVED", "DECLINED"}]
  PROVE  IInv'
<1>1. \A v \in Workers : work'[v] = work[v] \/ work'[v] = Idle
  BY DEF IInv, TypeOK, Finish, Bump
<1>2. work' \in [Workers -> Job]
  BY <1>1, IdleOK DEF IInv, TypeOK, Finish, Bump
<1>3. TypeOK'
  BY <1>2 DEF IInv, TypeOK
<1>4. \A v \in Workers : work'[v] = work[v] \/ JobOK(work'[v])
  BY <1>1, IdleOK
<1>5. OneWriter'
  BY <1>1 DEF IInv, OneWriter, At, Idle
<1>6. QED
  BY <1>3, <1>4, <1>5, QuietStep

\* Writing one line keeps the invoices of locked lines if it locks none.
LEMMA LineWritten ==
  ASSUME TypeOK, NEW l, NEW new,
         line' = [line EXCEPT ![l] = new],
         l \in Lines => /\ new \in Line
                        /\ new.status = "LOCKED" => line[l].status = "LOCKED"
                        /\ line[l].invoice => new.invoice
  PROVE  line' \in [Lines -> Line] /\ (LockedInvoiced => LockedInvoiced')
<1>1. \A k \in Lines : line'[k] = IF k = l THEN new ELSE line[k]
  BY DEF TypeOK
<1>2. line' \in [Lines -> Line]
  BY DEF TypeOK
<1>3. QED
  BY <1>1, <1>2 DEF LockedInvoiced

-----------------------------------------------------------------------------
(* The requests' reads *)

LEMMA BookingReads ==
  ASSUME IInv, NEW w \in Workers,
         \/ AdvanceRead(w) \/ CompleteRead(w) \/ NoShowRead(w) \/ CancelRead(w)
         \/ ChecklistRead(w) \/ RescheduleRead(w) \/ ProposeRead(w)
         \/ \E i \in Items : RespondRead(w, i)
  PROVE  IInv'
<1> USE DEF Start, Point, JobOK
<1>0. edits \in Nat /\ (edits' = edits => edits' \in Nat)
  BY DEF IInv, TypeOK
<1>1. CASE AdvanceRead(w)
  <2>1. PICK to \in {"EN_ROUTE", "ARRIVED", "IN_PROGRESS"} :
          /\ status \in Active
          /\ to = "IN_PROGRESS" => preStart
          /\ Start(w, "status_db", "none", to)
    BY <1>1 DEF AdvanceRead, Active
  <2>2. ChangeOK(to)
    BY <2>1 DEF IInv, StatusInv, ChangeOK, Status, Active
  <2>3. QED
    BY <1>0, <2>1, <2>2, BeginStep DEF Status
<1>2. CASE CompleteRead(w)
  <2>1. ChangeOK("COMPLETED")
    BY <1>2 DEF CompleteRead, IInv, StatusInv, ChangeOK, Status, Active, Invoiced, LockedInvoiced
  <2>2. QED
    BY <1>0, <1>2, <2>1, BeginStep DEF CompleteRead, Status
<1>3. CASE NoShowRead(w)
  <2>1. ChangeOK("NO_SHOW")
    BY <1>3 DEF NoShowRead, IInv, StatusInv, ChangeOK, Status, Active
  <2>2. QED
    BY <1>0, <1>3, <2>1, BeginStep DEF NoShowRead, Status
<1>4. CASE CancelRead(w)
  <2>1. ChangeOK("CANCELLED")
    BY <1>4 DEF CancelRead, ChangeOK, Status
  <2>2. QED
    BY <1>0, <1>4, <2>1, BeginStep DEF CancelRead, Status
<1>5. CASE ChecklistRead(w)
  BY <1>0, <1>5, BeginStep DEF ChecklistRead, IInv, StatusInv
<1>6. CASE RescheduleRead(w)
  BY <1>0, <1>6, BeginStep DEF RescheduleRead, LineStatus
<1>7. CASE ProposeRead(w)
  BY <1>0, <1>7, BeginStep DEF ProposeRead, LineStatus
<1>8. CASE \E i \in Items : RespondRead(w, i)
  BY <1>0, <1>8, BeginStep DEF RespondRead, LineStatus
<1>9. QED
  BY <1>1, <1>2, <1>3, <1>4, <1>5, <1>6, <1>7, <1>8

LEMMA LineReads ==
  ASSUME IInv, NEW w \in Workers,
         \/ CreateLineRead(w)
         \/ \E l \in Lines :
              \/ UpdateLineRead(w, l) \/ UploadInvoiceRead(w, l) \/ AckRead(w, l)
              \/ DeclineRead(w, l) \/ SubstituteRead(w, l) \/ AdminReviewRead(w, l)
  PROVE  IInv'
<1> USE DEF Edit, Point, JobOK
<1>0. edits + 1 \in Nat
  BY DEF IInv, TypeOK
<1>1. CASE CreateLineRead(w)
  BY <1>0, <1>1, BeginStep DEF CreateLineRead
<1>2. ASSUME NEW l \in Lines, UpdateLineRead(w, l) PROVE IInv'
  BY <1>0, <1>2, BeginStep DEF UpdateLineRead
<1>3. ASSUME NEW l \in Lines, UploadInvoiceRead(w, l) PROVE IInv'
  <2> DEFINE to == IF NeedsReason(line[l].kind) THEN "PENDING_REVIEW" ELSE line[l].status
  <2>1. PICK at \in {"invoice_db", "justify_db"} : Edit(w, at, l, to)
    BY <1>3 DEF UploadInvoiceRead
  <2>2. to \in Editable /\ to \in LineStatus
    BY <1>3 DEF UploadInvoiceRead, Editable, LineStatus
  <2> HIDE DEF to
  <2>3. QED
    BY <1>0, <2>1, <2>2, BeginStep
<1>4. ASSUME NEW l \in Lines, AckRead(w, l) PROVE IInv'
  BY <1>0, <1>4, BeginStep DEF AckRead, LineStatus
<1>5. ASSUME NEW l \in Lines, DeclineRead(w, l) PROVE IInv'
  BY <1>0, <1>5, BeginStep DEF DeclineRead, LineStatus
<1>6. ASSUME NEW l \in Lines, SubstituteRead(w, l) PROVE IInv'
  BY <1>0, <1>6, BeginStep DEF SubstituteRead
<1>7. ASSUME NEW l \in Lines, AdminReviewRead(w, l) PROVE IInv'
  BY <1>0, <1>7, BeginStep DEF AdminReviewRead, LineStatus
<1>8. QED
  BY <1>1, <1>2, <1>3, <1>4, <1>5, <1>6, <1>7

-----------------------------------------------------------------------------
(* The requests' commits *)

LEMMA LineCommits ==
  ASSUME IInv, NEW w \in Workers,
         \/ CreateLineDb(w) \/ UpdateLineDb(w) \/ UploadInvoiceDb(w) \/ AckDb(w)
         \/ DeclineDb(w) \/ SubstituteDb(w) \/ AdminReviewDb(w)
  PROVE  IInv'
<1> DEFINE j == work[w]
<1>1. SUFFICES line' \in [Lines -> Line] /\ (LockedInvoiced => LockedInvoiced')
  <2>1. /\ Finish(w)
        /\ UNCHANGED <<bookingVars, paymentVars, item, edits>>
    BY DEF CreateLineDb, UpdateLineDb, UploadInvoiceDb, AckDb, DeclineDb, SubstituteDb,
           AdminReviewDb
  <2>2. QED
    BY <1>1, <2>1, EndStep DEF IInv, TypeOK, bookingVars, paymentVars
<1>2. TypeOK /\ JobOK(j)
  BY DEF IInv, JobInv
<1>3. ASSUME NEW kind \in Kinds PROVE Fresh(kind) \in Line /\ Fresh(kind).status # "LOCKED"
  BY DEF Fresh, NoLine, Priced, Line, LineStatus
<1>4. j.on \in Lines => line[j.on] \in Line
  BY <1>2 DEF TypeOK
<1>5. CASE CreateLineDb(w)
  <2>1. j.to \in Kinds
    BY <1>2, <1>5 DEF CreateLineDb, At, JobOK
  <2>2. PICK l \in Unused : line' = [line EXCEPT ![l] = Fresh(j.to)]
    BY <1>5 DEF CreateLineDb
  <2>3. line[l].status = "none"
    BY <2>2 DEF Unused
  <2>4. \A k \in Lines : line'[k] = IF k = l THEN Fresh(j.to) ELSE line[k]
    BY <1>2, <2>2 DEF TypeOK
  <2>5. line' \in [Lines -> Line]
    BY <1>2, <1>3, <2>1, <2>2 DEF TypeOK
  <2>6. QED
    BY <1>3, <2>1, <2>4, <2>5 DEF LockedInvoiced
<1>6. CASE UpdateLineDb(w)
  <2> DEFINE new == [line[j.on] EXCEPT !.kind = j.to, !.status = Priced(j.to),
                                       !.reason = FALSE, !.ack = FALSE]
  <2>1. j.to \in Kinds
    BY <1>2, <1>6 DEF UpdateLineDb, At, JobOK
  <2>2. Priced(j.to) \in LineStatus /\ Priced(j.to) # "LOCKED"
    BY DEF Priced, LineStatus
  <2>3. line' = [line EXCEPT ![j.on] = new]
    BY <1>2, <1>6 DEF UpdateLineDb, TypeOK
  <2>4. j.on \in Lines => new \in Line /\ new.status # "LOCKED"
                          /\ new.invoice = line[j.on].invoice
    BY <1>4, <2>1, <2>2 DEF Line
  <2>5. QED
    BY <1>2, <2>3, <2>4, LineWritten
<1>7. CASE UploadInvoiceDb(w)
  <2> DEFINE new == [line[j.on] EXCEPT !.invoice = TRUE, !.status = j.to,
                                       !.reason = @ \/ At(w, "justify_db")]
  <2>1. j.to \in LineStatus /\ j.to # "LOCKED"
    BY <1>2, <1>7 DEF UploadInvoiceDb, JobOK, Editable, LineStatus
  <2>2. line' = [line EXCEPT ![j.on] = new]
    BY <1>2, <1>7 DEF UploadInvoiceDb, TypeOK
  <2>3. j.on \in Lines => new \in Line /\ new.status # "LOCKED" /\ new.invoice
    BY <1>4, <2>1 DEF Line, At
  <2>4. QED
    BY <1>2, <2>2, <2>3, LineWritten
<1>8. CASE AckDb(w)
  <2> DEFINE new == [line[j.on] EXCEPT !.ack = TRUE]
  <2>1. line' = [line EXCEPT ![j.on] = new]
    BY <1>2, <1>8 DEF AckDb, TypeOK
  <2>2. j.on \in Lines => new \in Line /\ new.status = line[j.on].status
                          /\ new.invoice = line[j.on].invoice
    BY <1>4 DEF Line
  <2>3. QED
    BY <1>2, <2>1, <2>2, LineWritten
<1>9. CASE DeclineDb(w)
  <2> DEFINE new == [line[j.on] EXCEPT !.status = "PENDING_REVIEW"]
  <2>1. line' = [line EXCEPT ![j.on] = new]
    BY <1>2, <1>9 DEF DeclineDb, TypeOK
  <2>2. j.on \in Lines => new \in Line /\ new.status # "LOCKED"
                          /\ new.invoice = line[j.on].invoice
    BY <1>4 DEF Line, LineStatus
  <2>3. QED
    BY <1>2, <2>1, <2>2, LineWritten
<1>10. CASE SubstituteDb(w)
  <2> DEFINE old == [line[j.on] EXCEPT !.status = "REPLACED"]
  <2>1. j.to \in Kinds
    BY <1>2, <1>10 DEF SubstituteDb, At, JobOK
  <2>2. PICK l \in Unused : line' = [line EXCEPT ![j.on].status = "REPLACED", ![l] = Fresh(j.to)]
    BY <1>10 DEF SubstituteDb
  <2>3. \A k \in Lines : line'[k] = IF k = l THEN Fresh(j.to)
                                   ELSE IF k = j.on THEN old ELSE line[k]
    BY <1>2, <2>2 DEF TypeOK, Unused
  <2>4. j.on \in Lines => old \in Line /\ old.status # "LOCKED"
    BY <1>4 DEF Line, LineStatus
  <2>5. DOMAIN line' = Lines /\ line' = [k \in Lines |-> line'[k]]
    BY <1>2, <2>2 DEF TypeOK
  <2>6. \A k \in Lines : line'[k] \in Line
    BY <1>2, <1>3, <2>1, <2>3, <2>4 DEF TypeOK
  <2>7. LockedInvoiced => LockedInvoiced'
    BY <1>3, <2>1, <2>3, <2>4 DEF LockedInvoiced
  <2>8. QED
    BY <2>5, <2>6, <2>7
<1>11. CASE AdminReviewDb(w)
  <2> DEFINE new == [line[j.on] EXCEPT !.status = j.to]
  <2>1. j.to \in LineStatus /\ j.to # "LOCKED"
    BY <1>2, <1>11 DEF AdminReviewDb, JobOK, At, LineStatus
  <2>2. line' = [line EXCEPT ![j.on] = new]
    BY <1>2, <1>11 DEF AdminReviewDb, TypeOK
  <2>3. j.on \in Lines => new \in Line /\ new.status # "LOCKED"
                          /\ new.invoice = line[j.on].invoice
    BY <1>4, <2>1 DEF Line
  <2>4. QED
    BY <1>2, <2>2, <2>3, LineWritten
<1>12. QED
  BY <1>5, <1>6, <1>7, <1>8, <1>9, <1>10, <1>11

LEMMA WorkCommits ==
  ASSUME IInv, NEW w \in Workers,
         GiveUp(w) \/ RescheduleDb(w) \/ ProposeDb(w) \/ RespondDb(w)
  PROVE  IInv'
<1> USE WorkAssumption
<1>1. CASE GiveUp(w) \/ RescheduleDb(w)
  BY <1>1, EndStep DEF GiveUp, RescheduleDb, bookingVars, paymentVars, IInv, TypeOK,
                       LockedInvoiced
<1>2. CASE ProposeDb(w)
  BY <1>2, EndStep DEF ProposeDb, bookingVars, paymentVars, IInv, TypeOK, LockedInvoiced
<1>3. CASE RespondDb(w)
  <2>1. work[w].to \in {"APPROVED", "DECLINED"}
    BY <1>3 DEF IInv, JobInv, JobOK, RespondDb, At
  <2>2. total' \in Nat /\ authorized' \in Nat
    BY <1>3 DEF IInv, TypeOK, RespondDb
  <2>3. item' \in [Items -> {"none", "PROPOSED", "APPROVED", "DECLINED"}]
    BY <1>3, <2>1 DEF IInv, TypeOK, RespondDb
  <2>4. QED
    BY <1>3, <2>2, <2>3, EndStep DEF RespondDb, IInv, TypeOK, LockedInvoiced
<1>4. QED
  BY <1>1, <1>2, <1>3

-----------------------------------------------------------------------------
(* The steps that write the booking's status *)

\* A commit leaves no request behind that has read the booking's row.
LEMMA BumpStep ==
  ASSUME IInv, NEW w \in Workers, Bump(w), \A v \in Workers \ {w} : ~At(v, "lock_db"),
         NEW v \in Workers
  PROVE  /\ work'[v] \in Job
         /\ JobOK(work[v])'
<1>1. work'[v] = Idle \/ (work'[v] = work[v] /\ v # w
                          /\ work[v].at \notin {"status_db", "checklist_db", "lock_db"})
  BY DEF Bump, At
<1>2. JobOK(work[v]) /\ work[v] \in Job
  BY DEF IInv, TypeOK, JobInv
<1>3. QED
  BY <1>1, <1>2, IdleOK DEF JobOK, Idle

LEMMA BumpTypes ==
  ASSUME IInv, NEW w \in Workers, Bump(w), \A v \in Workers \ {w} : ~At(v, "lock_db")
  PROVE  work' \in [Workers -> Job] /\ JobInv' /\ OneWriter'
<1>1. work' \in [Workers -> Job] /\ JobInv'
  BY BumpStep DEF JobInv, Bump
<1>2. OneWriter'
  BY DEF Bump, OneWriter, At, Idle, IInv, TypeOK
<1>3. QED
  BY <1>1, <1>2

LEMMA ChecklistCommit ==
  ASSUME IInv, NEW w \in Workers, ChecklistDb(w)
  PROVE  IInv'
<1>1. work' \in [Workers -> Job] /\ JobInv' /\ OneWriter'
  BY BumpTypes DEF ChecklistDb, RowFree
<1>2. TypeOK'
  BY <1>1 DEF ChecklistDb, IInv, TypeOK, paymentVars
<1>3. JobOK(work[w])
  BY DEF IInv, JobInv
<1>4. StatusInv'
  BY <1>3 DEF ChecklistDb, At, JobOK, paymentVars, IInv, StatusInv, TypeOK, OneOutcome, Undecided,
              LockedInvoiced
<1>5. QED
  BY <1>1, <1>2, <1>4 DEF IInv

LEMMA StatusCommit ==
  ASSUME IInv, NEW w \in Workers, StatusDb(w)
  PROVE  IInv'
<1> DEFINE to == work[w].to
<1>1. work' \in [Workers -> Job] /\ JobInv' /\ OneWriter'
  BY BumpTypes DEF StatusDb, RowFree
<1>2. ChangeOK(to) /\ to # "IN_PROGRESS"
  BY DEF IInv, JobInv, JobOK, StatusDb, At
<1>3. completions' = completions + (IF to = "COMPLETED" THEN 1 ELSE 0)
  <2>1. Cardinality({to} \cap {"COMPLETED"}) = IF to = "COMPLETED" THEN 1 ELSE 0
    <3>1. CASE to = "COMPLETED"
      <4>1. {to} \cap {"COMPLETED"} = {"COMPLETED"}
        BY <3>1
      <4>2. QED
        BY <3>1, <4>1, FS_Singleton
    <3>2. CASE to # "COMPLETED"
      <4>1. {to} \cap {"COMPLETED"} = {}
        BY <3>2
      <4>2. QED
        BY <3>2, <4>1, FS_EmptySet
    <3>3. QED
      BY <3>1, <3>2
  <2>2. QED
    BY <2>1 DEF StatusDb
<1>4. history' = history \cup ({to} \cap Milestone) /\ status' = to
  BY DEF StatusDb
<1>5. UNCHANGED <<preStart, preClose, total, paymentVars, line, item, edits>>
  BY DEF StatusDb
<1> HIDE DEF to
<1>6. TypeOK'
  BY <1>1, <1>2, <1>3, <1>4, <1>5 DEF IInv, TypeOK, ChangeOK, paymentVars
<1>7. LockedInvoiced' = LockedInvoiced
  BY <1>5 DEF LockedInvoiced
<1>8. OneOutcome'
  BY <1>2, <1>3, <1>4 DEF IInv, TypeOK, StatusInv, OneOutcome, ChangeOK, Undecided
<1>9. StatusInv'
  BY <1>2, <1>3, <1>4, <1>5, <1>7, <1>8
     DEF IInv, TypeOK, StatusInv, ChangeOK, Undecided, Active, Milestone
<1>10. QED
  BY <1>1, <1>6, <1>9 DEF IInv

LEMMA WorkStarts ==
  ASSUME IInv, NEW w \in Workers, StartWork(w)
  PROVE  IInv'
<1>1. work[w] \in Job /\ work[w].at = "status_db" /\ work[w].to = "IN_PROGRESS"
      /\ JobOK(work[w])
  BY DEF IInv, TypeOK, JobInv, StartWork, At
<1>2. \A v \in Workers : work'[v] = IF v = w THEN [work[w] EXCEPT !.at = "lock_db",
                                                    !.sum = LinePrice * Cardinality(Ready)]
                                             ELSE work[v]
  BY DEF IInv, TypeOK, StartWork
<1>3. work'[w] \in Job /\ JobOK(work'[w])
  BY <1>1, <1>2, ReadyIsFinite DEF Job, Point, JobOK
<1>4. work' \in [Workers -> Job]
  BY <1>2, <1>3 DEF IInv, TypeOK, StartWork
<1>5. UNCHANGED <<bookingVars, paymentVars, line, item, edits>>
  BY DEF StartWork
<1>6. TypeOK'
  BY <1>4, <1>5 DEF IInv, TypeOK, bookingVars, paymentVars
<1>7. LockedInvoiced => LockedInvoiced'
  BY <1>5 DEF LockedInvoiced
<1>8. OneWriter'
  BY <1>1, <1>2 DEF StartWork, RowFree, OneWriter, At
<1>9. QED
  BY <1>2, <1>3, <1>5, <1>6, <1>7, <1>8, QuietStep DEF bookingVars

LEMMA LockCommit ==
  ASSUME IInv, NEW w \in Workers, LockDb(w)
  PROVE  IInv'
<1>1. ChangeOK("IN_PROGRESS") /\ work[w].sum \in Nat
  BY DEF IInv, TypeOK, JobInv, JobOK, LockDb, At, Job
<1>2. \A v \in Workers \ {w} : ~At(v, "lock_db")
  BY DEF IInv, OneWriter, LockDb
<1>3. work' \in [Workers -> Job] /\ JobInv' /\ OneWriter'
  BY <1>2, BumpTypes DEF LockDb
<1>4. line' \in [Lines -> Line]
  <2>1. \A l \in Lines : line[l] \in Line /\ [line[l] EXCEPT !.status = "LOCKED"] \in Line
    BY DEF IInv, TypeOK, Line, LineStatus
  <2>2. QED
    BY <2>1 DEF LockDb
<1>5. TypeOK'
  BY <1>1, <1>3, <1>4 DEF LockDb, IInv, TypeOK, Status, Milestone, paymentVars
<1>6. StatusInv'
  <2>1. Undecided /\ preStart
    BY <1>1 DEF ChangeOK
  <2>2. Undecided' /\ OneOutcome'
    BY <2>1 DEF LockDb, Undecided, OneOutcome
  <2>3. QED
    BY <2>1, <2>2 DEF LockDb, StatusInv, IInv, Undecided
<1>7. QED
  BY <1>3, <1>5, <1>6 DEF IInv

LEMMA OutsideSteps ==
  ASSUME IInv, SettleReviews \/ PaymentMoves \/ WebhookDispute
  PROVE  IInv'
<1>1. CASE SettleReviews
  <2>1. PICK late \in SUBSET {l \in Lines : line[l].status = "PENDING_REVIEW"} :
          line' = [l \in Lines |-> IF l \in late THEN [line[l] EXCEPT !.status = "APPROVED"]
                                                ELSE line[l]]
    BY <1>1 DEF SettleReviews
  <2>2. \A l \in Lines : line[l] \in Line /\ [line[l] EXCEPT !.status = "APPROVED"] \in Line
    BY DEF IInv, TypeOK, Line, LineStatus
  <2>3. line' \in [Lines -> Line]
    BY <2>1, <2>2
  <2>4. UNCHANGED <<bookingVars, paymentVars, item, work, edits>>
    BY <1>1 DEF SettleReviews
  <2>5. TypeOK'
    BY <2>3, <2>4 DEF IInv, TypeOK, bookingVars, paymentVars
  <2>6. LockedInvoiced => LockedInvoiced'
    BY <2>1, <2>2 DEF LockedInvoiced, Line
  <2>7. OneWriter'
    BY <2>4 DEF IInv, OneWriter, At
  <2>8. QED
    BY <2>4, <2>5, <2>6, <2>7, QuietStep DEF bookingVars
<1>2. CASE PaymentMoves
  <2>1. TypeOK' /\ UNCHANGED <<bookingVars, line, work>>
    BY <1>2 DEF PaymentMoves, IInv, TypeOK, bookingVars
  <2>2. OneWriter'
    BY <2>1 DEF IInv, OneWriter, At
  <2>3. QED
    BY <2>1, <2>2, QuietStep DEF bookingVars, LockedInvoiced
<1>3. CASE WebhookDispute
  <2>1. TypeOK' /\ status' = "DISPUTED"
    BY <1>3 DEF WebhookDispute, IInv, TypeOK, Status
  <2>2. UNCHANGED <<preStart, preClose, completions, history, line, work>>
    BY <1>3 DEF WebhookDispute
  <2>3. StatusInv'
    BY <2>1, <2>2 DEF IInv, StatusInv, OneOutcome, Undecided, Active, LockedInvoiced
  <2>4. JobInv' /\ OneWriter'
    BY <2>1, <2>2 DEF IInv, JobInv, JobOK, ChangeOK, OneWriter, At, Undecided, LockedInvoiced
  <2>5. QED
    BY <2>1, <2>3, <2>4 DEF IInv
<1>4. QED
  BY <1>1, <1>2, <1>3

LEMMA Inductive == IInv /\ [Next]_vars => IInv'
<1> SUFFICES ASSUME IInv, [Next]_vars PROVE IInv'
  OBVIOUS
<1>1. CASE UNCHANGED vars
  <2>1. UNCHANGED <<status, preStart, preClose, total, completions, history, payment, authorized,
                    line, item, work, edits>>
    BY <1>1 DEF vars, bookingVars, paymentVars
  <2>2. TypeOK' /\ OneWriter'
    BY <2>1 DEF IInv, TypeOK, OneWriter, At
  <2>3. QED
    BY <2>1, <2>2, QuietStep DEF LockedInvoiced
<1>2. ASSUME NEW w \in Workers, BookingStep(w) PROVE IInv'
  BY <1>2, BookingReads, WorkCommits, ChecklistCommit, StatusCommit, WorkStarts, LockCommit
     DEF BookingStep
<1>3. ASSUME NEW w \in Workers, LineStep(w) PROVE IInv'
  BY <1>3, LineReads, LineCommits DEF LineStep
<1>4. QED
  BY <1>1, <1>2, <1>3, OutsideSteps DEF Next

LEMMA Invariance == Spec => []IInv
BY Initially, Inductive, PTL DEF Spec

-----------------------------------------------------------------------------
\* What a booking's rows and requests hold is always well formed.
THEOREM TypeCorrect == Spec => []TypeOK
<1>1. IInv => TypeOK
  BY DEF IInv
<1>2. QED
  BY <1>1, Invariance, PTL

\* However requests interleave, a booking is completed at most once, and never
\* both completed and a no-show.
THEOREM OutcomeIsOne == Spec => []OneOutcome
<1>1. IInv => OneOutcome
  BY DEF IInv, StatusInv
<1>2. QED
  BY <1>1, Invariance, PTL

\* A completed job was started, with both checklists submitted.
THEOREM CompletionIsEarned == Spec => []CompletedJobWasDone
<1>1. IInv => CompletedJobWasDone
  BY DEF IInv, StatusInv, CompletedJobWasDone
<1>2. QED
  BY <1>1, Invariance, PTL

\* Every locked material of a completed job has its invoice.
THEOREM InvoicesAreComplete == Spec => []CompletedIsInvoiced
<1>1. IInv => CompletedIsInvoiced
  BY DEF IInv, StatusInv, CompletedIsInvoiced, LockedInvoiced, Locked
<1>2. QED
  BY <1>1, Invariance, PTL

\* A completed job stays completed, but for a dispute.
THEOREM CompletionIsFinal == Spec => CompletedStands
<1>1. IInv /\ [Next]_vars => [status = "COMPLETED" => status' \in {"COMPLETED", "DISPUTED"}]_vars
  <2> SUFFICES ASSUME IInv, [Next]_vars, status = "COMPLETED"
               PROVE  status' \in {"COMPLETED", "DISPUTED"}
    OBVIOUS
  <2>1. \A w \in Workers : ~StatusDb(w) /\ ~LockDb(w)
    BY DEF IInv, JobInv, JobOK, ChangeOK, StatusDb, LockDb, At
  <2>2. CASE UNCHANGED vars \/ SettleReviews \/ PaymentMoves \/ WebhookDispute
    BY <2>2 DEF vars, bookingVars, SettleReviews, PaymentMoves, WebhookDispute
  <2>3. ASSUME NEW w \in Workers, BookingStep(w) PROVE status' = status
    BY <2>1, <2>3 DEF BookingStep, GiveUp, AdvanceRead, CompleteRead, NoShowRead, CancelRead,
       StartWork, ChecklistRead, ChecklistDb, RescheduleRead, RescheduleDb, ProposeRead, ProposeDb,
       RespondRead, RespondDb, Start, Begin, bookingVars
  <2>4. ASSUME NEW w \in Workers, LineStep(w) PROVE status' = status
    BY <2>4 DEF LineStep, CreateLineRead, CreateLineDb, UpdateLineRead, UpdateLineDb,
       UploadInvoiceRead, UploadInvoiceDb, AckRead, AckDb, DeclineRead, DeclineDb, SubstituteRead,
       SubstituteDb, AdminReviewRead, AdminReviewDb, Edit, Begin, bookingVars
  <2>5. QED
    BY <2>2, <2>3, <2>4 DEF Next
<1>2. QED
  BY <1>1, Invariance, PTL DEF Spec, CompletedStands

-----------------------------------------------------------------------------
(* The bill and the hold *)

\* What is approved stays countable, whatever the set of items: a request approves one.
BillInv == IsFiniteSet(Approved) /\ HoldWithinBill

LEMMA PriceGrows ==
  ASSUME NEW p \in Nat, NEW n \in Nat, NEW m \in Nat, m <= n
  PROVE  p * m \in Nat /\ p * n \in Nat /\ p * m <= p * n
<1>1. \A a, b \in Nat : p * a \in Nat /\ p * (a + b) = p * a + p * b
  OBVIOUS
<1>2. n - m \in Nat /\ n = m + (n - m)
  OBVIOUS
<1>3. p * n = p * m + p * (n - m)
  BY <1>1, <1>2
<1>4. QED
  BY <1>1, <1>2, <1>3

LEMMA PriceOfOneMore ==
  ASSUME NEW p \in Nat, NEW n \in Nat, NEW m \in Nat, m <= n + 1
  PROVE  p * m \in Nat /\ p * n \in Nat /\ p * m <= p * n + p
<1>1. p * (n + 1) = p * n + p
  OBVIOUS
<1>2. QED
  BY <1>1, PriceGrows, n + 1 \in Nat

\* Items that are not among the approved may vanish from them and the bill only grow.
LEMMA BillKept ==
  ASSUME TypeOK, BillInv, Approved' \subseteq Approved, total' \in Nat, total' >= total,
         authorized' = authorized
  PROVE  BillInv'
<1>1. IsFiniteSet(Approved)' /\ Cardinality(Approved') <= Cardinality(Approved)
  BY FS_Subset DEF BillInv
<1>2. Cardinality(Approved) \in Nat /\ Cardinality(Approved') \in Nat
  BY <1>1, FS_CardinalityType DEF BillInv
<1> DEFINE n == Cardinality(Approved)
           m == Cardinality(Approved')
<1>3. ItemPrice * m \in Nat /\ ItemPrice * n \in Nat /\ ItemPrice * m <= ItemPrice * n
  BY <1>1, <1>2, PriceGrows, WorkAssumption
<1>4. total >= Base + ItemPrice * n /\ authorized <= total
  BY DEF BillInv, HoldWithinBill
<1> HIDE DEF n, m
<1>5. total' >= Base + ItemPrice * m /\ authorized' <= total'
  BY <1>3, <1>4, WorkAssumption DEF TypeOK
<1>6. QED
  BY <1>1, <1>5 DEF BillInv, HoldWithinBill, m

\* An approval adds one item to those approved, its price to the bill, and no
\* more than that to the hold.
LEMMA BillWidened ==
  ASSUME IInv, BillInv, NEW w \in Workers, RespondDb(w)
  PROVE  BillInv'
<1> DEFINE j == work[w]
<1>1. \A i \in Items : item'[i] = IF i = j.on THEN j.to ELSE item[i]
  BY DEF IInv, TypeOK, RespondDb
<1>2. CASE j.to = "DECLINED"
  <2>1. Approved' \subseteq Approved
    BY <1>1, <1>2 DEF Approved
  <2>2. total' = total /\ authorized' = authorized /\ total \in Nat
    BY <1>2 DEF RespondDb, IInv, TypeOK
  <2>3. QED
    BY <2>1, <2>2, BillKept DEF IInv
<1>3. CASE j.to = "APPROVED"
  <2>1. Approved' \subseteq Approved \cup {j.on}
    BY <1>1, <1>3 DEF Approved
  <2>2. /\ IsFiniteSet(Approved \cup {j.on})
        /\ Cardinality(Approved \cup {j.on}) <= Cardinality(Approved) + 1
        /\ Cardinality(Approved) \in Nat
    <3>1. Cardinality(Approved) \in Nat
      BY FS_CardinalityType DEF BillInv
    <3>2. QED
      BY <3>1, FS_AddElement DEF BillInv
  <2>3. /\ IsFiniteSet(Approved')
        /\ Cardinality(Approved') <= Cardinality(Approved \cup {j.on})
    BY <2>1, <2>2, FS_Subset
  <2>4. Cardinality(Approved') \in Nat /\ Cardinality(Approved \cup {j.on}) \in Nat
    BY <2>2, <2>3, FS_CardinalityType
  <2> DEFINE n == Cardinality(Approved)
             m == Cardinality(Approved')
  <2>5. n \in Nat /\ m \in Nat /\ m <= n + 1
    BY <2>2, <2>3, <2>4
  <2>6. total >= Base + ItemPrice * n /\ authorized <= total
    BY DEF BillInv, HoldWithinBill
  <2> HIDE DEF n, m
  <2>7. ItemPrice * m \in Nat /\ ItemPrice * n \in Nat /\ ItemPrice * m <= ItemPrice * n + ItemPrice
    BY <2>5, PriceOfOneMore, WorkAssumption
  <2>8. total' = total + ItemPrice /\ authorized' \in {authorized, authorized + ItemPrice}
    BY <1>3 DEF RespondDb
  <2>9. total' >= Base + ItemPrice * m /\ authorized' <= total'
    BY <2>6, <2>7, <2>8, WorkAssumption DEF IInv, TypeOK
  <2>10. QED
    BY <2>3, <2>9 DEF BillInv, HoldWithinBill, m
<1>4. QED
  BY <1>2, <1>3 DEF RespondDb

LEMMA BillInductive == IInv /\ BillInv /\ [Next]_vars => BillInv'
<1> SUFFICES ASSUME IInv, BillInv, [Next]_vars PROVE BillInv'
  OBVIOUS
<1>0. TypeOK /\ total \in Nat
  BY DEF IInv, TypeOK
<1>1. CASE UNCHANGED <<total, authorized, item>>
  BY <1>0, <1>1, BillKept DEF Approved
<1>2. CASE UNCHANGED vars \/ SettleReviews \/ PaymentMoves \/ WebhookDispute
  BY <1>1, <1>2 DEF vars, bookingVars, paymentVars, SettleReviews, PaymentMoves, WebhookDispute
<1>3. ASSUME NEW w \in Workers, LineStep(w) PROVE BillInv'
  BY <1>1, <1>3 DEF LineStep, CreateLineRead, CreateLineDb, UpdateLineRead, UpdateLineDb,
     UploadInvoiceRead, UploadInvoiceDb, AckRead, AckDb, DeclineRead, DeclineDb, SubstituteRead,
     SubstituteDb, AdminReviewRead, AdminReviewDb, Edit, Begin, bookingVars, paymentVars
<1>4. ASSUME NEW w \in Workers, BookingStep(w) PROVE BillInv'
  <2>1. CASE LockDb(w)
    <3>1. work[w].sum \in Nat
      BY DEF IInv, TypeOK, Job
    <3>2. total' \in Nat /\ total' >= total /\ authorized' = authorized /\ item' = item
      BY <1>0, <2>1, <3>1 DEF LockDb, paymentVars
    <3>3. QED
      BY <1>0, <3>2, BillKept DEF Approved
  <2>2. CASE ProposeDb(w)
    <3>1. Approved' \subseteq Approved
      BY <2>2 DEF ProposeDb, Approved, IInv, TypeOK
    <3>2. total' = total /\ authorized' = authorized
      BY <2>2 DEF ProposeDb, bookingVars, paymentVars
    <3>3. QED
      BY <1>0, <3>1, <3>2, BillKept
  <2>3. CASE RespondDb(w)
    BY <2>3, BillWidened
  <2>4. CASE ~LockDb(w) /\ ~ProposeDb(w) /\ ~RespondDb(w)
    BY <1>1, <1>4, <2>4 DEF BookingStep, GiveUp, AdvanceRead, CompleteRead, NoShowRead,
       CancelRead, StatusDb, StartWork, ChecklistRead, ChecklistDb, RescheduleRead, RescheduleDb,
       ProposeRead, RespondRead, Start, Begin, bookingVars, paymentVars
  <2>5. QED
    BY <2>1, <2>2, <2>3, <2>4
<1>5. QED
  BY <1>2, <1>3, <1>4 DEF Next

LEMMA BillInitially == Init => BillInv
<1> SUFFICES ASSUME Init PROVE BillInv
  OBVIOUS
<1>1. Approved = {}
  BY DEF Init, Approved
<1>2. IsFiniteSet(Approved) /\ Cardinality(Approved) = 0
  BY <1>1, FS_EmptySet
<1>3. QED
  BY <1>2, WorkAssumption DEF Init, BillInv, HoldWithinBill

\* However requests interleave, what was approved is on the bill, and the hold is
\* never wider than the bill.
THEOREM HoldIsWithinBill == Spec => []HoldWithinBill
<1>1. BillInv => HoldWithinBill
  BY DEF BillInv
<1>2. QED
  BY <1>1, BillInitially, BillInductive, Invariance, PTL DEF Spec
=============================================================================
