---------------------------- MODULE PayoutProofs ----------------------------
(***************************************************************************)
(* Theorems about Payout, for any number of admins, payouts and requests,  *)
(* every amount and any number of faults.                                  *)
(*                                                                         *)
(* A payout's row and the provider's transfers agree at each status        *)
(* (RowOK); a call in flight knows what its next step relies on (JobOK):   *)
(* above all, at most one call is about to transfer a payout's money, and  *)
(* that payout is claimed, unsent and not yet answered for; and a          *)
(* deduction about to be posted is of something owed.  Together with the   *)
(* dues (DueInv), a sum over the requests whose laws are proved first,     *)
(* they are inductive; the properties of Payout follow from them.          *)
(***************************************************************************)
EXTENDS Payout, FiniteSetTheorems, WellFoundedInduction, TLAPS

Single(s) == \E a \in Nat : s = <<a>>

Unclaimed(p) == status[p] \in {"NONE", "PENDING"}

RowOK(p) ==
  /\ Unclaimed(p) => sent[p] = <<>> /\ p \notin rejected /\ p \notin lost /\ p \notin stale
  /\ sent[p] # <<>> => Single(sent[p]) /\ (p \notin stale => sent[p] = <<amount[p]>>)
  /\ status[p] # "COMPLETED" => entries[p] = <<>>
  /\ status[p] = "COMPLETED" =>
       /\ sent[p] # <<>>
       /\ Single(entries[p])
       /\ p \notin stale => entries[p] = <<amount[p]>>
  /\ p \in rejected => sent[p] = <<>>
  /\ status[p] = "FAILED" /\ p \notin lost => sent[p] = <<>>

Owed(job) == job.payout \notin stale => job.amt = amount[job.payout]

JobOK(job) ==
  /\ job.at \in {"claim", "disburse", "finalize", "fail", "post"} => job.payout \in Payouts
  /\ job.at \in {"deduct", "post", "INVOICE_PROVIDED", "UPHELD", "WITHDRAWN"} => job.request \in Requests
  /\ job.at = "disburse" =>
       /\ status[job.payout] = "PROCESSING" /\ sent[job.payout] = <<>>
       /\ job.payout \notin rejected /\ job.payout \notin lost
       /\ Owed(job)
  /\ job.at = "finalize" => sent[job.payout] # <<>> /\ ~Unclaimed(job.payout) /\ Owed(job)
  /\ job.at = "post" => delta[job.request] > 0
  /\ job.at = "fail" =>
       (job.payout \in rejected \/ job.payout \in lost) /\ ~Unclaimed(job.payout)

\* At most one call is about to transfer the money of a payout.
OneDisburser ==
  \A v, w \in Workers :
    At(v, "disburse") /\ At(w, "disburse") /\ work[v].payout = work[w].payout => v = w

\* The dues, and no deduction before the payout exists.
DueInv ==
  /\ \A p \in Payouts : status[p] = "NONE" => \A r \in Requests : adjusted[r] # p
  /\ DuesBooked

IInv ==
  /\ TypeOK
  /\ \A p \in Payouts : RowOK(p)
  /\ \A w \in Workers : JobOK(work[w])
  /\ OneDisburser
  /\ DueInv

Job == [at : Point, payout : Payouts \cup {0}, request : Requests \cup {0}, amt : Nat]

-----------------------------------------------------------------------------
LEMMA One ==
  ASSUME NEW a \in Nat
  PROVE  Append(<<>>, a) = <<a>> /\ <<a>> # <<>> /\ <<a>> \in Seq(Nat) /\ Single(<<a>>)
BY DEF Single

-----------------------------------------------------------------------------
(* What was deducted from a payout, as a sum over the requests *)

\* The recursion behind Deducted: take one request, add the sum of the others.
SumOf(f) == SumFunctionOnSet(f, Requests)
AnyOf(s) == CHOOSE r \in s : TRUE
SumStep(f, g, s) == IF s = {} THEN 0 ELSE f[AnyOf(s)] + g[s \ {AnyOf(s)}]
Adds(f, g, D) == g = [s \in D |-> SumStep(f, g, s)]

\* The sets of up to n requests, on which the recursion is defined one n at a time.
Small(n) == {s \in SUBSET Requests : Cardinality(s) <= n}

LEMMA SumIsRecursive ==
  ASSUME NEW f
  PROVE  SumOf(f) = (CHOOSE g : Adds(f, g, SUBSET Requests))[Requests]
BY DEF SumOf, SumFunctionOnSet, FoldFunctionOnSet, MapThenFoldSet, Adds,
       SumStep, AnyOf

\* Induction without a predicate: a set of numbers has a least one.
LEMMA LeastNumber ==
  ASSUME NEW T \in SUBSET Nat, T # {}
  PROVE  \E n \in T : \A m \in T : ~(m < n)
<1>1. PICK n \in T : \A m \in T : <<m, n>> \notin OpToRel(<, Nat)
  BY WFMin, NatLessThanWellFounded
<1>2. QED
  BY <1>1 DEF OpToRel

LEMMA WithoutOne ==
  ASSUME IsFiniteSet(Requests), NEW s \in SUBSET Requests, s # {}
  PROVE  /\ AnyOf(s) \in s
         /\ IsFiniteSet(s) /\ s \ {AnyOf(s)} \in SUBSET Requests
         /\ Cardinality(s) \in Nat /\ Cardinality(s \ {AnyOf(s)}) \in Nat
         /\ Cardinality(s \ {AnyOf(s)}) = Cardinality(s) - 1
<1>1. AnyOf(s) \in s
  BY DEF AnyOf
<1>2. IsFiniteSet(s)
  BY FS_Subset
<1>3. QED
  BY <1>1, <1>2, FS_RemoveElement, FS_CardinalityType

\* Such a function exists, because there are finitely many requests.
LEMMA SumExists ==
  ASSUME IsFiniteSet(Requests), NEW f
  PROVE  \E g : Adds(f, g, SUBSET Requests)
<1> DEFINE T == {n \in Nat : ~\E g : Adds(f, g, Small(n))}
<1>1. ASSUME T # {} PROVE FALSE
  <2>1. PICK n \in T : \A m \in T : ~(m < n)
    BY <1>1, LeastNumber
  <2>2. CASE n = 0
    <3>1. Small(0) = {{}}
      <4>1. ASSUME NEW s \in SUBSET Requests, Cardinality(s) <= 0 PROVE s = {}
        BY <4>1, FS_Subset, FS_EmptySet, FS_CardinalityType
      <4>2. Cardinality({}) = 0
        BY FS_EmptySet
      <4>3. QED
        BY <4>1, <4>2 DEF Small
    <3>2. Adds(f, [s \in {{}} |-> 0], {{}})
      BY DEF Adds, SumStep
    <3>3. QED
      BY <2>2, <3>1, <3>2
  <2>3. CASE n # 0
    <3>1. n - 1 \in Nat /\ n - 1 < n
      BY <2>3
    <3>2. PICK g : Adds(f, g, Small(n - 1))
      BY <2>1, <3>1
    <3> DEFINE h == [s \in Small(n) |-> SumStep(f, g, s)]
    <3>3. ASSUME NEW s \in Small(n), s # {} PROVE s \ {AnyOf(s)} \in Small(n - 1)
      BY <3>3, WithoutOne DEF Small
    <3>4. ASSUME NEW s \in Small(n - 1) PROVE h[s] = g[s]
      <4>1. s \in Small(n)
        BY <3>1, FS_Subset, FS_CardinalityType DEF Small
      <4>2. g[s] = SumStep(f, g, s)
        BY <3>2 DEF Adds
      <4>3. QED
        BY <4>1, <4>2
    <3>5. ASSUME NEW s \in Small(n) PROVE SumStep(f, g, s) = SumStep(f, h, s)
      BY <3>3, <3>4 DEF SumStep
    <3>6. Adds(f, h, Small(n))
      BY <3>5 DEF Adds
    <3>7. QED
      BY <3>6
  <2>4. QED
    BY <2>2, <2>3
<1>2. Cardinality(Requests) \in Nat
  BY FS_CardinalityType
<1>3. Small(Cardinality(Requests)) = SUBSET Requests
  BY FS_Subset DEF Small
<1>4. Cardinality(Requests) \notin T
  BY <1>1
<1>5. QED
  BY <1>2, <1>3, <1>4

\* Two sums of which one has d more at r differ by d.
LEMMA SumOfOneMore ==
  ASSUME IsFiniteSet(Requests), NEW f \in [Requests -> Int], NEW h \in [Requests -> Int],
         NEW r \in Requests, NEW d \in Int,
         \A q \in Requests : h[q] = IF q = r THEN f[q] + d ELSE f[q]
  PROVE  SumOf(f) \in Int /\ SumOf(h) = SumOf(f) + d
<1> DEFINE F == CHOOSE g : Adds(f, g, SUBSET Requests)
           H == CHOOSE g : Adds(h, g, SUBSET Requests)
<1>1. Adds(f, F, SUBSET Requests) /\ Adds(h, H, SUBSET Requests)
  BY SumExists
<1> HIDE DEF F, H
<1>2. \A s \in SUBSET Requests : F[s] = SumStep(f, F, s) /\ H[s] = SumStep(h, H, s)
  BY <1>1 DEF Adds
<1> DEFINE Differ(s) == F[s] \in Int /\ H[s] = F[s] + (IF r \in s THEN d ELSE 0)
           T == {n \in Nat : \E s \in SUBSET Requests : Cardinality(s) = n /\ ~Differ(s)}
<1>3. ASSUME T # {} PROVE FALSE
  <2>1. PICK n \in T : \A m \in T : ~(m < n)
    BY <1>3, LeastNumber
  <2>2. PICK s \in SUBSET Requests : Cardinality(s) = n /\ ~Differ(s)
    OBVIOUS
  <2>3. s # {}
    <3>1. F[{}] = 0 /\ H[{}] = 0
      BY <1>2 DEF SumStep
    <3>2. Differ({})
      BY <3>1
    <3>3. QED
      BY <2>2, <3>2
  <2> DEFINE x == AnyOf(s)
             u == s \ {x}
  <2>4. Cardinality(u) = n - 1 /\ n - 1 \in Nat /\ x \in s /\ x \in Requests /\ u \in SUBSET Requests
    BY <2>2, <2>3, WithoutOne
  <2>5. Differ(u)
    BY <2>1, <2>4
  <2>6. F[s] = f[x] + F[u] /\ H[s] = h[x] + H[u]
    BY <1>2, <2>3 DEF SumStep
  <2> HIDE DEF x, u
  <2>7. f[x] \in Int /\ h[x] = IF x = r THEN f[x] + d ELSE f[x]
    BY <2>4
  <2>8. r \in s <=> r \in u \/ x = r
    BY <2>4 DEF u
  <2>9. x = r => r \notin u
    BY DEF u
  <2>10. Differ(s)
    BY <2>5, <2>6, <2>7, <2>8, <2>9
  <2>11. QED
    BY <2>2, <2>10
<1>4. Cardinality(Requests) \in Nat
  BY FS_CardinalityType
<1>5. Differ(Requests)
  BY <1>3, <1>4
<1>6. QED
  BY <1>5, SumIsRecursive DEF F, H

\* Nothing was taken from a payout that no request names.
LEMMA SumOfNothing ==
  ASSUME IsFiniteSet(Requests), NEW f, \A r \in Requests : f[r] = 0
  PROVE  SumOf(f) = 0
<1> DEFINE F == CHOOSE g : Adds(f, g, SUBSET Requests)
<1>1. Adds(f, F, SUBSET Requests)
  BY SumExists
<1> HIDE DEF F
<1>2. \A s \in SUBSET Requests : F[s] = SumStep(f, F, s)
  BY <1>1 DEF Adds
<1> DEFINE T == {n \in Nat : \E s \in SUBSET Requests : Cardinality(s) = n /\ F[s] # 0}
<1>3. ASSUME T # {} PROVE FALSE
  <2>1. PICK n \in T : \A m \in T : ~(m < n)
    BY <1>3, LeastNumber
  <2>2. PICK s \in SUBSET Requests : Cardinality(s) = n /\ F[s] # 0
    OBVIOUS
  <2>3. s # {}
    BY <1>2, <2>2 DEF SumStep
  <2>4. Cardinality(s \ {AnyOf(s)}) = n - 1 /\ n - 1 \in Nat /\ AnyOf(s) \in Requests
        /\ s \ {AnyOf(s)} \in SUBSET Requests
    BY <2>2, <2>3, WithoutOne
  <2>5. F[s \ {AnyOf(s)}] = 0
    BY <2>1, <2>4
  <2>6. QED
    BY <1>2, <2>2, <2>3, <2>4, <2>5 DEF SumStep
<1>4. Cardinality(Requests) \in Nat
  BY FS_CardinalityType
<1>5. F[Requests] = 0
  BY <1>3, <1>4
<1>6. QED
  BY <1>5, SumIsRecursive DEF F

LEMMA DeductedIsSum ==
  ASSUME NEW p
  PROVE  /\ Deducted(p) = SumOf(Share(p))
         /\ Deducted(p)' = SumOf(Share(p)')
         /\ UNCHANGED <<adjusted, delta>> => Deducted(p)' = Deducted(p)
BY DEF Deducted, SumOf, Share

LEMMA RequestsAreFinite == IsFiniteSet(Requests)
BY PayoutAssumption

-----------------------------------------------------------------------------
LEMMA IdleOK == Idle \in Job /\ JobOK(Idle)
BY DEF Idle, Job, Point, JobOK

LEMMA Initially == Init => IInv
<1> SUFFICES ASSUME Init PROVE IInv
  OBVIOUS
<1>1. TypeOK
  <2>1. delta \in [Requests -> Int]
    BY PayoutAssumption DEF Init
  <2>2. QED
    BY <2>1, IdleOK, PayoutAssumption DEF Init, TypeOK, Job, RequestStatus
<1>2. \A p \in Payouts : RowOK(p)
  BY DEF Init, RowOK, Unclaimed
<1>3. \A w \in Workers : JobOK(work[w])
  BY IdleOK DEF Init
<1>4. OneDisburser
  BY DEF Init, OneDisburser, At, Idle
<1>5. DueInv
  BY PayoutAssumption DEF Init, DueInv, DuesBooked
<1>6. QED
  BY <1>1, <1>2, <1>3, <1>4, <1>5 DEF IInv

\* The dues of a step that takes nothing from a payout and claws none back to NONE.
LEMMA DuesKept ==
  ASSUME DueInv, UNCHANGED <<amount, adjusted, delta>>,
         \A p \in Payouts : status'[p] = "NONE" <=> status[p] = "NONE",
         \A r \in Requests :
           request'[r] = "DEDUCTED" => request[r] = "DEDUCTED" \/ ~(delta[r] > 0)
  PROVE  DueInv'
<1>1. \A p \in Payouts : Deducted(p)' = Deducted(p)
  BY DeductedIsSum
<1>2. QED
  BY <1>1 DEF DueInv, DuesBooked

-----------------------------------------------------------------------------
(* The shapes of a step *)

\* Only the call's own memory changes, and not into the call that transfers.
LEMMA CallStep ==
  ASSUME IInv, NEW w \in Workers, NEW job \in Job, job.at # "disburse", JobOK(job),
         work' = [work EXCEPT ![w] = job], faults' \in Nat,
         UNCHANGED <<payoutVars, requestVars, providerVars, stale, lost>>
  PROVE  IInv'
<1> USE DEF payoutVars, requestVars, providerVars
<1>1. TypeOK'
  BY DEF IInv, TypeOK, Job
<1>2. \A p \in Payouts : RowOK(p)'
  BY DEF IInv, RowOK, Unclaimed
<1>3. \A v \in Workers : work'[v] = IF v = w THEN job ELSE work[v]
  BY DEF IInv, TypeOK
<1>4. \A v \in Workers : JobOK(work'[v])
  BY <1>3 DEF IInv
<1>5. \A v \in Workers : JobOK(work[v])'
  BY <1>4 DEF JobOK, Owed, Unclaimed
<1>6. OneDisburser'
  BY <1>3 DEF IInv, OneDisburser, At
<1>7. DueInv'
  BY DuesKept DEF IInv
<1>8. QED
  BY <1>1, <1>2, <1>5, <1>6, <1>7 DEF IInv

\* The call ends, or gives up.
LEMMA EndCall ==
  ASSUME IInv, NEW w \in Workers, Finish(w), faults' \in Nat,
         UNCHANGED <<payoutVars, requestVars, providerVars, stale, lost>>
  PROVE  IInv'
BY IdleOK, CallStep DEF Finish, Idle

\* Nothing changes of any payout but p: every call on another payout is as it was.
LEMMA PayoutStep ==
  ASSUME IInv, TypeOK', OneDisburser', DueInv', NEW p \in Payouts, RowOK(p)', UNCHANGED delta,
         \A q \in Payouts \ {p} :
           /\ status'[q] = status[q] /\ amount'[q] = amount[q]
           /\ entries'[q] = entries[q] /\ sent'[q] = sent[q]
           /\ q \in rejected' <=> q \in rejected
           /\ q \in lost' <=> q \in lost
           /\ q \in stale' <=> q \in stale,
         \A v \in Workers :
           (work'[v] = work[v] /\ work[v].payout # p) \/ JobOK(work[v])'
  PROVE  IInv'
<1>1. ASSUME NEW q \in Payouts PROVE RowOK(q)'
  <2>1. CASE q = p
    BY <2>1
  <2>2. CASE q # p
    BY <2>2 DEF IInv, RowOK, Unclaimed
  <2>3. QED
    BY <2>1, <2>2
<1>2. ASSUME NEW v \in Workers, work'[v] = work[v], work[v].payout # p PROVE JobOK(work[v])'
  <2>1. JobOK(work[v])
    BY DEF IInv
  <2>2. QED
    BY <2>1, <1>2 DEF JobOK, Owed, Unclaimed
<1>3. \A v \in Workers : JobOK(work[v])'
  BY <1>2
<1>4. QED
  BY <1>1, <1>3 DEF IInv

-----------------------------------------------------------------------------
(* The payout's own transitions *)

LEMMA DeactivateStep == ASSUME IInv, Deactivate PROVE IInv'
<1> USE DEF Deactivate, requestVars, providerVars, history
<1>1. TypeOK'
  BY DEF IInv, TypeOK
<1>2. \A p \in Payouts : RowOK(p)'
  BY DEF IInv, RowOK, Unclaimed
<1>3. \A v \in Workers : JobOK(work[v])'
  BY DEF IInv, JobOK, Owed, Unclaimed
<1>4. OneDisburser'
  BY DEF IInv, OneDisburser, At
<1>5. DueInv'
  BY DuesKept DEF IInv
<1>6. QED
  BY <1>1, <1>2, <1>3, <1>4, <1>5 DEF IInv

LEMMA AccrueStep == ASSUME IInv, NEW p \in Payouts, Accrue(p) PROVE IInv'
<1> USE DEF Accrue, requestVars, providerVars, history
<1>1. TypeOK'
  BY PayoutAssumption DEF IInv, TypeOK
<1>2. status'[p] = "PENDING" /\ amount'[p] = Net
  BY DEF IInv, TypeOK
<1>3. \A q \in Payouts \ {p} : status'[q] = status[q] /\ amount'[q] = amount[q]
  BY DEF IInv, TypeOK
<1>4. RowOK(p)'
  BY <1>2 DEF IInv, RowOK, Unclaimed
<1>5. ASSUME NEW v \in Workers, work[v].payout = p PROVE JobOK(work[v])'
  <2>1. JobOK(work[v])
    BY DEF IInv
  <2>2. QED
    BY <1>5, <2>1 DEF JobOK, Unclaimed
<1>6. OneDisburser'
  BY DEF IInv, OneDisburser, At
<1>7. DueInv'
  <2>1. \A q \in Payouts : Deducted(q)' = Deducted(q)
    BY DeductedIsSum
  <2>2. \A r \in Requests : Share(p)[r] = 0
    BY DEF IInv, DueInv, Share
  <2>3. Deducted(p) = 0
    BY <2>2, SumOfNothing, RequestsAreFinite, DeductedIsSum
  <2>4. amount'[p] + Deducted(p)' = Net
    BY <1>2, <2>1, <2>3, PayoutAssumption
  <2>5. QED
    BY <1>2, <1>3, <2>1, <2>4 DEF IInv, DueInv, DuesBooked
<1>8. QED
  BY <1>1, <1>3, <1>4, <1>5, <1>6, <1>7, PayoutStep

LEMMA ClawBackStep == ASSUME IInv, NEW p \in Payouts, ClawBack(p) PROVE IInv'
<1> USE DEF ClawBack, requestVars, providerVars, history
<1>1. TypeOK'
  BY DEF IInv, TypeOK
<1>2. \A q \in Payouts : status'[q] = IF q = p THEN "FAILED" ELSE status[q]
  BY DEF IInv, TypeOK
<1>3. RowOK(p)'
  BY <1>2 DEF IInv, RowOK, Unclaimed
<1>4. ASSUME NEW v \in Workers, work[v].payout = p PROVE JobOK(work[v])'
  <2>1. JobOK(work[v])
    BY DEF IInv
  <2>2. QED
    BY <1>4, <2>1 DEF JobOK, Unclaimed
<1>5. OneDisburser'
  BY DEF IInv, OneDisburser, At
<1>6. DueInv'
  BY <1>2, DuesKept DEF IInv
<1>7. QED
  BY <1>1, <1>2, <1>3, <1>4, <1>5, <1>6, PayoutStep

-----------------------------------------------------------------------------
(* The steps of a disbursement *)

\* The claim finds the payout PENDING, so no other call can be about to transfer.
LEMMA ClaimStep == ASSUME IInv, NEW w \in Workers, Claim(w) PROVE IInv'
<1> DEFINE p == work[w].payout
<1> USE DEF Claim, Goto, At, requestVars, providerVars
<1>1. p \in Payouts /\ work[w] \in Job /\ JobOK(work[w]) /\ RowOK(p)
  BY DEF IInv, TypeOK, Job, JobOK
<1>2. /\ status'[p] = "PROCESSING" /\ \A q \in Payouts \ {p} : status'[q] = status[q]
      /\ work'[w] = [work[w] EXCEPT !.at = "disburse"]
      /\ \A v \in Workers \ {w} : work'[v] = work[v]
  BY <1>1 DEF IInv, TypeOK
<1>3. TypeOK'
  BY <1>1, <1>2 DEF IInv, TypeOK, Job, Point
<1>4. sent[p] = <<>> /\ p \notin rejected /\ p \notin lost
  BY <1>1 DEF RowOK, Unclaimed
<1>5. RowOK(p)'
  BY <1>1, <1>2, <1>4 DEF RowOK, Unclaimed
<1>6. ASSUME NEW v \in Workers \ {w}, work[v].payout = p PROVE JobOK(work[v])' /\ ~At(v, "disburse")
  <2>1. JobOK(work[v]) /\ work'[v] = work[v]
    BY <1>2 DEF IInv
  <2>2. QED
    BY <1>1, <1>4, <1>6, <2>1 DEF JobOK, Unclaimed
<1>7. JobOK(work[w])'
  <2>1. work'[w].payout = p /\ work'[w].at = "disburse" /\ work'[w].amt = work[w].amt
    BY <1>1, <1>2 DEF Job
  <2>2. p \notin stale' => work'[w].amt = amount'[p]
    BY <2>1
  <2>3. QED
    BY <1>1, <1>2, <1>4, <2>1, <2>2 DEF JobOK, Owed
<1>8. OneDisburser'
  <2>1. work'[w].payout = p
    BY <1>1, <1>2 DEF Job
  <2>2. QED
    BY <1>2, <1>6, <2>1 DEF IInv, OneDisburser
<1>9. DueInv'
  BY <1>1, <1>2, DuesKept DEF IInv
<1>10. \A q \in Payouts \ {p} : q \in stale' <=> q \in stale
  OBVIOUS
<1>11. \A v \in Workers : (work'[v] = work[v] /\ work[v].payout # p) \/ JobOK(work[v])'
  BY <1>2, <1>6, <1>7
<1>12. QED
  BY <1>1, <1>2, <1>3, <1>5, <1>8, <1>9, <1>10, <1>11, PayoutStep

\* The one call about to transfer p's money goes on, to "finalize" or to "fail".
LEMMA TransferDone ==
  ASSUME IInv, NEW w \in Workers, At(w, "disburse"),
         NEW to \in {"finalize", "fail"}, Goto(w, to),
         UNCHANGED <<payoutVars, requestVars, stale>>, faults' \in Nat,
         LET p == work[w].payout IN
           /\ to = "finalize" =>
                /\ sent' = [sent EXCEPT ![p] = Append(@, work[w].amt)]
                /\ UNCHANGED <<rejected, lost>>
           /\ to = "fail" =>
                \/ rejected' = rejected \cup {p} /\ UNCHANGED <<sent, lost>>
                \/ /\ sent' = [sent EXCEPT ![p] = Append(@, work[w].amt)]
                   /\ lost' = lost \cup {p} /\ UNCHANGED rejected
  PROVE  IInv'
<1> USE DEF Goto, At, payoutVars, requestVars
<1>0. PICK p \in Payouts, a \in Nat : p = work[w].payout /\ a = work[w].amt
  BY DEF IInv, TypeOK, JobOK
<1>1. work[w] \in Job /\ JobOK(work[w]) /\ RowOK(p)
  BY DEF IInv, TypeOK, Job
<1>2. /\ status[p] = "PROCESSING" /\ sent[p] = <<>> /\ p \notin rejected /\ p \notin lost
      /\ p \notin stale => a = amount[p]
  BY <1>0, <1>1 DEF JobOK, Owed
<1>3. /\ \A q \in Payouts \ {p} : sent'[q] = sent[q]
      /\ sent'[p] = <<a>> \/ (sent'[p] = <<>> /\ p \in rejected' /\ to = "fail")
      /\ p \in rejected' => sent'[p] = <<>>
      /\ to = "finalize" => sent'[p] = <<a>>
      /\ to = "fail" => p \in rejected' \/ p \in lost'
      /\ sent' \in [Payouts -> Seq(Nat)]
  <2>1. sent' = sent \/ sent' = [sent EXCEPT ![p] = <<a>>]
    BY <1>0, <1>2, One
  <2>2. /\ sent \in [Payouts -> Seq(Nat)] /\ <<a>> \in Seq(Nat)
        /\ to = "finalize" => sent' = [sent EXCEPT ![p] = <<a>>] /\ rejected' = rejected
        /\ to = "fail" => \/ sent' = sent /\ rejected' = rejected \cup {p}
                          \/ /\ sent' = [sent EXCEPT ![p] = <<a>>] /\ rejected' = rejected
                             /\ lost' = lost \cup {p}
    BY <1>0, <1>2, One DEF IInv, TypeOK
  <2>3. QED
    BY <1>2, <2>1, <2>2
<1>4. /\ work'[w] = [work[w] EXCEPT !.at = to]
      /\ \A v \in Workers \ {w} : work'[v] = work[v]
  BY DEF IInv, TypeOK
<1>5. work'[w] \in Job /\ work'[w].at = to /\ work'[w].payout = p /\ work'[w].amt = a
  BY <1>0, <1>1, <1>4 DEF Job, Point
<1>6. TypeOK'
  <2>1. work' \in [Workers -> Job]
    BY <1>4, <1>5 DEF IInv, TypeOK, Job
  <2>2. /\ rejected' \subseteq Payouts /\ lost' \subseteq Payouts
        /\ UNCHANGED <<status, amount, entries, active, delta, request, adjusted, stale>>
    BY <1>0, <1>1 DEF IInv, TypeOK
  <2>3. QED
    BY <1>3, <2>1, <2>2 DEF IInv, TypeOK, Job
<1>7. RowOK(p)'
  BY <1>0, <1>1, <1>2, <1>3, One DEF RowOK, Unclaimed
<1>8. ASSUME NEW v \in Workers \ {w}, work[v].payout = p PROVE JobOK(work[v])' /\ ~At(v, "disburse")
  <2>1. JobOK(work[v]) /\ work'[v] = work[v]
    BY <1>4 DEF IInv
  <2>2. ~At(v, "disburse")
    BY <1>0, <1>8 DEF IInv, OneDisburser
  <2>3. work[v].at # "finalize"
    BY <1>2, <1>8, <2>1 DEF JobOK
  <2>4. work[v].at # "fail"
    BY <1>2, <1>8, <2>1 DEF JobOK
  <2>5. QED
    BY <2>1, <2>2, <2>3, <2>4 DEF JobOK
<1>9. JobOK(work[w])'
  <2>1. to = "finalize" => sent'[p] # <<>> /\ (p \notin stale' => a = amount'[p])
    BY <1>2, <1>3, One
  <2>2. status'[p] = "PROCESSING"
    BY <1>2
  <2>3. QED
    BY <1>3, <1>5, <2>1, <2>2 DEF JobOK, Owed, Unclaimed
<1>10. OneDisburser'
  BY <1>4, <1>5 DEF IInv, OneDisburser
<1>11. DueInv'
  BY DuesKept DEF IInv
<1>12. \A q \in Payouts \ {p} : (q \in rejected' <=> q \in rejected) /\ (q \in lost' <=> q \in lost)
  BY <1>0
<1>13. \A v \in Workers : (work'[v] = work[v] /\ work[v].payout # p) \/ JobOK(work[v])'
  BY <1>4, <1>8, <1>9
<1>14. QED
  BY <1>0, <1>1, <1>3, <1>6, <1>7, <1>10, <1>11, <1>12, <1>13, PayoutStep

LEMMA DisburseStep == ASSUME IInv, NEW w \in Workers, Disburse(w) PROVE IInv'
<1> USE DEF history
<1>1. faults \in Nat
  BY DEF IInv, TypeOK
<1>2. CASE Disbursed(w)
  BY <1>1, <1>2, TransferDone DEF Disbursed, Transfer
<1>3. CASE DisburseRejected(w)
  BY <1>1, <1>3, TransferDone DEF DisburseRejected
<1>4. CASE DisburseAnswerLost(w)
  <2>1. faults' \in Nat
    BY <1>1, <1>4 DEF DisburseAnswerLost
  <2>2. QED
    BY <1>4, <2>1, TransferDone DEF DisburseAnswerLost, Transfer
<1>5. QED
  BY <1>2, <1>3, <1>4 DEF Disburse

\* finalizePayout, or an update to FAILED: the guard lets the first one through.
LEMMA ResolveStep == ASSUME IInv, NEW w \in Workers, Finalize(w) \/ Fail(w) PROVE IInv'
<1> DEFINE final == IF At(w, "finalize") THEN "COMPLETED" ELSE "FAILED"
<1> USE DEF At, requestVars, providerVars, history
<1>0. work[w].at \in {"finalize", "fail"}
  BY DEF Finalize, Fail
<1>1. PICK p \in Payouts, a \in Nat :
        p = work[w].payout /\ a = work[w].amt /\ JobOK(work[w]) /\ RowOK(p)
  BY <1>0 DEF IInv, TypeOK, JobOK
<1>2. /\ Resolve(w, final)
      /\ entries' = IF At(w, "finalize") /\ status[p] = "PROCESSING"
                    THEN [entries EXCEPT ![p] = Append(@, a)] ELSE entries
  BY <1>0, <1>1 DEF Finalize, Fail, IInv, TypeOK
<1>3. /\ status'[p] = IF status[p] = "PROCESSING" THEN final ELSE status[p]
      /\ \A q \in Payouts \ {p} : status'[q] = status[q] /\ entries'[q] = entries[q]
      /\ work' = [work EXCEPT ![w] = Idle]
      /\ UNCHANGED <<amount, active, requestVars, providerVars, history>>
  BY <1>1, <1>2 DEF Resolve, Finish, IInv, TypeOK
<1>4. status[p] = "PROCESSING" => entries[p] = <<>>
  BY <1>1 DEF RowOK
<1>5. entries'[p] = IF final = "COMPLETED" /\ status[p] = "PROCESSING" THEN <<a>> ELSE entries[p]
  BY <1>1, <1>2, <1>4, One DEF IInv, TypeOK
<1>6. TypeOK'
  <2>1. entries' \in [Payouts -> Seq(Nat)]
    BY <1>1, <1>2, <1>4, One DEF IInv, TypeOK
  <2>2. status' \in [Payouts -> {"NONE", "PENDING", "PROCESSING", "COMPLETED", "FAILED"}]
    BY <1>2 DEF Resolve, IInv, TypeOK
  <2>3. work' \in [Workers -> Job]
    BY <1>3, IdleOK DEF IInv, TypeOK, Job
  <2>4. QED
    BY <1>3, <2>1, <2>2, <2>3 DEF IInv, TypeOK, Job
<1>7. /\ ~Unclaimed(p)
      /\ final = "COMPLETED" => sent[p] # <<>> /\ (p \notin stale => a = amount[p])
      /\ final = "FAILED" => p \in rejected \/ p \in lost
  BY <1>0, <1>1 DEF JobOK, Owed
<1>8. RowOK(p)'
  <2>1. ~Unclaimed(p)'
    BY <1>3, <1>7 DEF Unclaimed
  <2>2. CASE status[p] # "PROCESSING"
    BY <1>1, <1>3, <1>5, <2>1, <2>2 DEF RowOK
  <2>3. CASE status[p] = "PROCESSING"
    BY <1>1, <1>3, <1>4, <1>5, <1>7, <2>1, <2>3, One DEF RowOK
  <2>4. QED
    BY <2>2, <2>3
<1>9. \A v \in Workers : work'[v] = IF v = w THEN Idle ELSE work[v]
  BY <1>3 DEF IInv, TypeOK
<1>10. ASSUME NEW v \in Workers \ {w}, work[v].payout = p PROVE JobOK(work[v])'
  <2>1. JobOK(work[v]) /\ work'[v] = work[v]
    BY <1>9 DEF IInv
  <2>2. ~At(v, "disburse")
    BY <1>7, <1>10, <2>1 DEF JobOK
  <2>3. ~Unclaimed(p)'
    BY <1>3, <1>7 DEF Unclaimed
  <2>4. QED
    BY <1>3, <1>10, <2>1, <2>2, <2>3 DEF JobOK, Owed
<1>11. JobOK(work[w])'
  BY <1>9, IdleOK DEF JobOK, Idle
<1>12. OneDisburser'
  BY <1>9 DEF IInv, OneDisburser, Idle
<1>13. DueInv'
  <2>1. \A q \in Payouts : status'[q] = "NONE" <=> status[q] = "NONE"
    BY <1>3, <1>7 DEF Unclaimed
  <2>2. QED
    BY <1>3, <2>1, DuesKept DEF IInv
<1>14. \A v \in Workers : (work'[v] = work[v] /\ work[v].payout # p) \/ JobOK(work[v])'
  BY <1>9, <1>10, <1>11
<1>15. QED
  BY <1>1, <1>3, <1>6, <1>8, <1>12, <1>13, <1>14, PayoutStep

-----------------------------------------------------------------------------
(* The steps of a verification request *)

\* A status written by id; DEDUCTED only where nothing was owed.
LEMMA WriteRequestStep ==
  ASSUME IInv, NEW w \in Workers, WriteRequest(w) \/ NothingOwed(w) PROVE IInv'
<1> USE DEF WriteRequest, NothingOwed, Finish, At, payoutVars, providerVars, history
<1>1. work' \in [Workers -> Job] /\ \A v \in Workers : work'[v] = work[v] \/ work'[v] = Idle
  <2>1. work \in [Workers -> Job] /\ work' = [work EXCEPT ![w] = Idle]
    BY DEF IInv, TypeOK, Job
  <2>2. QED
    BY <2>1, IdleOK
<1>2. /\ request' \in [Requests -> RequestStatus] /\ UNCHANGED <<delta, adjusted>>
      /\ \A r \in Requests :
           request'[r] = "DEDUCTED" => request[r] = "DEDUCTED" \/ ~(delta[r] > 0)
  <2>1. work[w].request \in Requests
    BY DEF IInv, JobOK
  <2>2. CASE WriteRequest(w)
    BY <2>1, <2>2 DEF IInv, TypeOK, RequestStatus, Resolved
  <2>3. CASE NothingOwed(w)
    BY <2>1, <2>3 DEF IInv, TypeOK, RequestStatus, Resolved
  <2>4. QED
    BY <2>2, <2>3
<1>3. TypeOK'
  BY <1>1, <1>2 DEF IInv, TypeOK, Job
<1>4. \A p \in Payouts : RowOK(p)'
  BY DEF IInv, RowOK, Unclaimed
<1>5. ASSUME NEW v \in Workers PROVE JobOK(work[v])'
  <2>1. JobOK(work'[v])
    BY <1>1, IdleOK DEF IInv
  <2>2. QED
    BY <2>1 DEF JobOK, Owed, Unclaimed
<1>6. OneDisburser'
  BY <1>1 DEF IInv, OneDisburser, At, Idle
<1>7. DueInv'
  BY <1>2, DuesKept DEF IInv
<1>8. QED
  BY <1>3, <1>4, <1>5, <1>6, <1>7 DEF IInv

\* One request is added to the deductions of p, and its delta leaves the amount.
LEMMA PostDeductionStep == ASSUME IInv, NEW w \in Workers, PostDeduction(w) PROVE IInv'
<1> USE DEF PostDeduction, Finish, Covers, At, providerVars, history
<1>1. PICK p \in Payouts, r \in Requests : p = work[w].payout /\ r = work[w].request
  BY DEF IInv, JobOK
<1> DEFINE d == delta[r]
<1>2. /\ status[p] = "PENDING" /\ amount[p] >= d /\ adjusted[r] = 0
      /\ amount' = [amount EXCEPT ![p] = amount[p] - d]
      /\ adjusted' = [adjusted EXCEPT ![r] = p]
      /\ request' = [request EXCEPT ![r] = "DEDUCTED"]
      /\ UNCHANGED <<status, entries, active, delta, sent, rejected, stale, lost, faults>>
  BY <1>1
<1>3. /\ d \in Int /\ d > 0
      /\ amount[p] \in Nat /\ amount[p] - d \in Nat /\ amount'[p] = amount[p] - d
  <2>1. d \in Int /\ d > 0
    BY <1>1 DEF IInv, TypeOK, JobOK
  <2>2. amount[p] \in Nat /\ amount'[p] = amount[p] - d
    BY <1>2 DEF IInv, TypeOK
  <2>3. QED
    BY <1>2, <2>1, <2>2
<1> HIDE DEF d
<1>4. work' \in [Workers -> Job] /\ \A v \in Workers : work'[v] = IF v = w THEN Idle ELSE work[v]
  BY IdleOK DEF IInv, TypeOK, Job
<1>5. TypeOK'
  <2>1. amount' \in [Payouts -> Nat]
    <3>1. amount \in [Payouts -> Nat]
      BY DEF IInv, TypeOK
    <3>2. QED
      BY <1>2, <1>3, <3>1
  <2>2. adjusted' \in [Requests -> Payouts \cup {0}]
    BY <1>2 DEF IInv, TypeOK
  <2>3. request' \in [Requests -> RequestStatus]
    BY <1>2 DEF IInv, TypeOK, RequestStatus, Resolved
  <2>4. QED
    BY <1>2, <1>4, <2>1, <2>2, <2>3 DEF IInv, TypeOK, Job
<1>6. \A q \in Payouts \ {p} : amount'[q] = amount[q]
  BY <1>2 DEF IInv, TypeOK
<1>7. RowOK(p)'
  BY <1>2 DEF IInv, RowOK, Unclaimed
<1>8. ASSUME NEW v \in Workers PROVE (work'[v] = work[v] /\ work[v].payout # p) \/ JobOK(work[v])'
  <2>1. JobOK(work'[v])
    BY <1>4, IdleOK DEF IInv
  <2>2. CASE work'[v].payout = p
    <3>1. Unclaimed(p) /\ sent[p] = <<>>
      BY <1>2 DEF IInv, RowOK, Unclaimed
    <3>2. work'[v].at \notin {"disburse", "finalize", "fail"}
      BY <1>2, <2>1, <2>2, <3>1 DEF JobOK
    <3>3. QED
      BY <2>1, <3>2 DEF JobOK
  <2>3. CASE work'[v] = Idle
    BY <2>3, IdleOK DEF JobOK, Idle
  <2>4. QED
    BY <1>4, <2>2, <2>3
<1>9. OneDisburser'
  BY <1>4 DEF IInv, OneDisburser, Idle
<1>10. DueInv'
  <2>1. p # 0 /\ adjusted \in [Requests -> Payouts \cup {0}] /\ delta \in [Requests -> Int]
    BY PayoutAssumption DEF IInv, TypeOK
  <2>2. \A q \in Requests : Share(p)'[q] = IF q = r THEN Share(p)[q] + d ELSE Share(p)[q]
    BY <1>2, <1>3, <2>1 DEF Share, d
  <2>3. Share(p) \in [Requests -> Int] /\ Share(p)' \in [Requests -> Int]
    BY <1>2, <2>1 DEF Share
  <2>4. Deducted(p) \in Int /\ Deducted(p)' = Deducted(p) + d
    <3>1. SumOf(Share(p)) \in Int /\ SumOf(Share(p)') = SumOf(Share(p)) + d
      BY <1>3, <2>2, <2>3, SumOfOneMore, RequestsAreFinite
    <3>2. QED
      BY <3>1, DeductedIsSum
  <2>5. ASSUME NEW q \in Payouts \ {p} PROVE Deducted(q)' = Deducted(q)
    <3>1. Share(q)' = Share(q)
      BY <1>2, <2>1, PayoutAssumption DEF Share
    <3>2. QED
      BY <3>1, DeductedIsSum
  <2>6. amount'[p] + Deducted(p)' = Net
    <3>1. amount[p] + Deducted(p) = Net
      BY <1>2 DEF IInv, DueInv, DuesBooked
    <3>2. QED
      BY <1>3, <2>4, <3>1
  <2>7. \A q \in Requests : adjusted'[q] = (IF q = r THEN p ELSE adjusted[q])
                           /\ request'[q] = (IF q = r THEN "DEDUCTED" ELSE request[q])
    BY <1>2, <2>1 DEF IInv, TypeOK
  <2>8. /\ \A q \in Requests : adjusted'[q] # 0 => delta'[q] > 0
        /\ \A q \in Requests : request'[q] = "DEDUCTED" /\ delta'[q] > 0 => adjusted'[q] # 0
    BY <1>2, <1>3, <2>1, <2>7 DEF IInv, DueInv, DuesBooked, d
  <2>9. \A q \in Payouts : status'[q] = "NONE" => \A x \in Requests : adjusted'[x] # q
    BY <1>2, <2>7 DEF IInv, DueInv
  <2>10. \A q \in Payouts : status'[q] # "NONE" => amount'[q] + Deducted(q)' = Net
    BY <1>2, <1>6, <2>5, <2>6 DEF IInv, DueInv, DuesBooked
  <2>11. QED
    BY <2>8, <2>9, <2>10 DEF DueInv, DuesBooked
<1>11. QED
  BY <1>2, <1>5, <1>6, <1>7, <1>8, <1>9, <1>10, PayoutStep

\* Every other step of a call only moves the call itself.
LEMMA ReadPayoutStep ==
  ASSUME IInv, NEW w \in Workers, NEW p \in Payouts,
         ReadPayout(w, p) \/ ReconcileSent(w, p) \/ ReconcileRejected(w, p)
  PROVE  IInv'
<1>1. UNCHANGED <<payoutVars, requestVars, providerVars, stale, lost>> /\ faults' \in Nat
  BY DEF ReadPayout, ReconcileSent, ReconcileRejected, history, IInv, TypeOK
<1>2. PICK at \in {"claim", "finalize", "fail"}, sum \in {0, amount[p]} :
        /\ work' = [work EXCEPT ![w] = [at |-> at, payout |-> p, request |-> 0, amt |-> sum]]
        /\ at = "finalize" => sum = amount[p] /\ status[p] = "PROCESSING" /\ sent[p] # <<>>
        /\ at = "fail" => status[p] = "PROCESSING" /\ p \in rejected
  BY DEF ReadPayout, ReconcileSent, ReconcileRejected, Start, Idle
<1> DEFINE job == [at |-> at, payout |-> p, request |-> 0, amt |-> sum]
<1>3. job \in Job /\ job.at # "disburse"
  BY DEF Job, Point, IInv, TypeOK
<1>4. JobOK(job)
  BY <1>2 DEF JobOK, Owed, Unclaimed
<1>5. work' = [work EXCEPT ![w] = job]
  BY <1>2
<1> HIDE DEF job
<1>6. QED
  BY <1>1, <1>3, <1>4, <1>5, CallStep

LEMMA ReadRequestStep ==
  ASSUME IInv, NEW w \in Workers, NEW r \in Requests, ReadRequest(w, r) \/ SettleExpired(w, r)
  PROVE  IInv'
<1>1. UNCHANGED <<payoutVars, requestVars, providerVars, stale, lost>> /\ faults' \in Nat
  BY DEF ReadRequest, SettleExpired, history, IInv, TypeOK
<1>2. PICK at \in {"deduct", "INVOICE_PROVIDED", "UPHELD", "WITHDRAWN"} :
        Start(w, [Idle EXCEPT !.at = at, !.request = r])
  BY DEF ReadRequest, SettleExpired
<1> DEFINE job == [Idle EXCEPT !.at = at, !.request = r]
<1>3. job \in Job /\ job.at = at /\ job.request = r
  BY DEF Idle, Job, Point
<1>4. JobOK(job) /\ job.at # "disburse"
  BY <1>3 DEF JobOK
<1>5. work' = [work EXCEPT ![w] = job]
  BY <1>2 DEF Start
<1> HIDE DEF job
<1>6. QED
  BY <1>1, <1>3, <1>4, <1>5, CallStep

LEMMA FindCandidateStep == ASSUME IInv, NEW w \in Workers, FindCandidate(w) PROVE IInv'
<1> USE DEF FindCandidate, At, history
<1>1. faults' \in Nat
  BY DEF IInv, TypeOK
<1>2. CASE Finish(w)
  BY <1>1, <1>2, EndCall
<1>3. ASSUME NEW p \in Payouts, work' = [work EXCEPT ![w].at = "post", ![w].payout = p]
      PROVE  IInv'
  <2>1. work[w] \in Job /\ JobOK(work[w])
    BY DEF IInv, TypeOK, Job
  <2> DEFINE job == [work[w] EXCEPT !.at = "post", !.payout = p]
  <2>2. job \in Job /\ job.at = "post" /\ job.payout = p /\ job.request = work[w].request
    BY <2>1 DEF Job, Point
  <2>3. work[w].request \in Requests
    BY <2>1 DEF JobOK
  <2>4. work' = [work EXCEPT ![w] = job]
    BY <1>3 DEF IInv, TypeOK
  <2> HIDE DEF job
  <2>5. JobOK(job)
    BY <2>2, <2>3 DEF JobOK
  <2>6. QED
    BY <1>1, <2>2, <2>4, <2>5, CallStep
<1>4. QED
  BY <1>2, <1>3

LEMMA StopStep ==
  ASSUME IInv, NEW w \in Workers, ClaimLost(w) \/ PostRefused(w) \/ GiveUp(w) PROVE IInv'
<1>1. faults' \in Nat /\ Finish(w)
  BY DEF IInv, TypeOK, ClaimLost, PostRefused, GiveUp, history
<1>2. UNCHANGED <<payoutVars, requestVars, providerVars, stale, lost>>
  BY DEF ClaimLost, PostRefused, GiveUp, history
<1>3. QED
  BY <1>1, <1>2, EndCall

-----------------------------------------------------------------------------
LEMMA Preserved == IInv /\ [Next]_vars => IInv'
<1> SUFFICES ASSUME IInv, [Next]_vars PROVE IInv'
  OBVIOUS
<1>1. CASE UNCHANGED vars
  <2> USE <1>1 DEF vars, payoutVars, requestVars, providerVars, history
  <2>1. TypeOK' /\ OneDisburser' /\ \A p \in Payouts : RowOK(p)'
    BY DEF IInv, TypeOK, OneDisburser, At, RowOK, Unclaimed
  <2>2. \A w \in Workers : JobOK(work[w])'
    BY DEF IInv, JobOK, Owed, Unclaimed
  <2>3. DueInv'
    BY DuesKept DEF IInv
  <2>4. QED
    BY <2>1, <2>2, <2>3 DEF IInv
<1>2. CASE Deactivate
  BY <1>2, DeactivateStep
<1>3. ASSUME NEW p \in Payouts, Accrue(p) \/ ClawBack(p) PROVE IInv'
  BY <1>3, AccrueStep, ClawBackStep
<1>4. ASSUME NEW p \in Payouts, NEW w \in Workers,
             ReadPayout(w, p) \/ ReconcileSent(w, p) \/ ReconcileRejected(w, p)
      PROVE  IInv'
  BY <1>4, ReadPayoutStep
<1>5. ASSUME NEW r \in Requests, NEW w \in Workers, ReadRequest(w, r) \/ SettleExpired(w, r)
      PROVE  IInv'
  BY <1>5, ReadRequestStep
<1>6. ASSUME NEW w \in Workers, Proceed(w) \/ GiveUp(w) PROVE IInv'
  BY <1>6, ClaimStep, DisburseStep, ResolveStep, WriteRequestStep, FindCandidateStep,
     PostDeductionStep, StopStep DEF Proceed, Deduct
<1>7. QED
  BY <1>1, <1>2, <1>3, <1>4, <1>5, <1>6 DEF Next, Reconcile, Settle

LEMMA Invariance == Spec => []IInv
<1>1. Init => IInv
  BY Initially
<1>2. IInv /\ [Next]_vars => IInv'
  BY Preserved
<1>3. QED
  BY <1>1, <1>2, PTL DEF Spec

-----------------------------------------------------------------------------
\* Every variable keeps its type.
THEOREM TypeCorrect == Spec => []TypeOK
<1>1. IInv => TypeOK
  BY DEF IInv
<1>2. QED
  BY <1>1, Invariance, PTL

\* However many admins, retries and reconciler cycles meet on a payout, one
\* transfer is made and one ledger entry is written (processPayout, finalizePayout).
THEOREM PaysOnce == Spec => []PaidOnce
<1>1. IInv => PaidOnce
  <2> SUFFICES ASSUME IInv, NEW p \in Payouts
               PROVE  /\ Len(sent[p]) <= 1
                      /\ Len(entries[p]) <= Len(sent[p])
                      /\ status[p] = "COMPLETED" <=> entries[p] # <<>>
    BY DEF PaidOnce
  <2>1. RowOK(p)
    BY DEF IInv
  <2>2. sent[p] = <<>> \/ \E a \in Nat : sent[p] = <<a>>
    BY <2>1 DEF RowOK, Single
  <2>3. entries[p] = <<>> \/ ((\E a \in Nat : entries[p] = <<a>>) /\ sent[p] # <<>>)
    BY <2>1 DEF RowOK, Single
  <2>4. status[p] = "COMPLETED" <=> entries[p] # <<>>
    BY <2>1 DEF RowOK, Single
  <2>5. Len(<<>>) = 0 /\ \A a \in Nat : Len(<<a>>) = 1
    OBVIOUS
  <2> DEFINE n == Len(sent[p])  m == Len(entries[p])
  <2>6. n = 0 \/ n = 1
    BY <2>2, <2>5
  <2>7. m = 0 \/ (m = 1 /\ n = 1)
    BY <2>2, <2>3, <2>5
  <2> HIDE DEF n, m
  <2>8. n <= 1 /\ m <= n
    BY <2>6, <2>7
  <2>9. QED
    BY <2>4, <2>8 DEF n, m
<1>2. QED
  BY <1>1, Invariance, PTL

\* The ledger books what was sent and owed, and a payout that FAILED kept its
\* money, but for the two races that stale and lost record.
THEOREM SettlesAsSent == Spec => []SettledAsSent
<1>1. IInv => SettledAsSent
  BY DEF IInv, RowOK, SettledAsSent
<1>2. QED
  BY <1>1, Invariance, PTL

\* A variance leaves one payout, once, with its ledger entry, while that payout is
\* pending; a request that owes nothing leaves every payout alone (postVarianceDeduction).
THEOREM DuesAreConserved == Spec => DuesConserved
<1>1. IInv => DuesBooked
  BY DEF IInv, DueInv
<1> DEFINE Untouched == \A p \in Payouts : amount'[p] # amount[p] => status[p] \in {"NONE", "PENDING"}
<1>2. IInv /\ [Next]_vars => [Untouched]_vars
  <2> SUFFICES ASSUME IInv, Next PROVE Untouched
    OBVIOUS
  <2>1. ASSUME NEW p \in Payouts, Accrue(p) PROVE Untouched
    BY <2>1 DEF Accrue, IInv, TypeOK
  <2>2. ASSUME NEW w \in Workers, PostDeduction(w) PROVE Untouched
    BY <2>2 DEF PostDeduction, Covers, IInv, TypeOK
  <2>3. ASSUME UNCHANGED amount PROVE Untouched
    BY <2>3
  <2> HIDE DEF Untouched
  <2>4. ASSUME NEW w \in Workers, Proceed(w) \/ GiveUp(w) PROVE Untouched
    BY <2>2, <2>3, <2>4 DEF Proceed, Disburse, Deduct, GiveUp, Claim, ClaimLost, Disbursed,
       DisburseRejected, DisburseAnswerLost, Finalize, Fail, Resolve, WriteRequest, NothingOwed,
       FindCandidate, PostRefused, payoutVars
  <2>5. ASSUME NEW w \in Workers, NEW p \in Payouts,
               ReadPayout(w, p) \/ ReconcileSent(w, p) \/ ReconcileRejected(w, p)
        PROVE  Untouched
    BY <2>3, <2>5 DEF ReadPayout, ReconcileSent, ReconcileRejected, payoutVars
  <2>6. ASSUME NEW w \in Workers, NEW r \in Requests, ReadRequest(w, r) \/ SettleExpired(w, r)
        PROVE  Untouched
    BY <2>3, <2>6 DEF ReadRequest, SettleExpired, payoutVars
  <2>7. ASSUME Deactivate \/ \E p \in Payouts : ClawBack(p) PROVE Untouched
    BY <2>3, <2>7 DEF Deactivate, ClawBack
  <2>8. QED
    BY <2>1, <2>4, <2>5, <2>6, <2>7 DEF Next, Reconcile, Settle
<1>3. QED
  BY <1>1, <1>2, Invariance, PTL DEF Spec, DuesConserved
=============================================================================
