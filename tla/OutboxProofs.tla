---------------------------- MODULE OutboxProofs ----------------------------
(***************************************************************************)
(* Theorems about Outbox, for any number of instances, bookings, events    *)
(* and crashes, every batch size and retry budget; and the proof that it   *)
(* implements Delivery.                                                    *)
(*                                                                         *)
(* RowOK relates the columns of a row, OwnOK an instance's claims to the   *)
(* rows, and TickOK says how far the instance's tick has got.  What the    *)
(* promise rests on is its last part: a tick that holds an event has       *)
(* fetched the first event of the booking too, and takes it up before.     *)
(***************************************************************************)
EXTENDS Outbox, FiniteSetTheorems, TLAPS

IsFirst(f) == \A g \in Event : g < f => bookingOf[g] # bookingOf[f]

RowOK(e) ==
  /\ e <= emitted <=> status[e] # "NONE"
  /\ e <= emitted <=> bookingOf[e] # 0
  /\ status[e] \in {"PROCESSING", "DONE", "FAILED"} => attempts[e] > 0

OwnOK(i) ==
  /\ returned[i] \subseteq running[i] /\ returned[i] \subseteq ran
  /\ running[i] # {} \/ todo[i] # {} => at[i] = "run"
  /\ \A e \in running[i] : seen[i][e] + 1 <= attempts[e]

TickOK(i) ==
  /\ todo[i] \subseteq attempted[i] /\ claims[i] \subseteq attempted[i]
  /\ running[i] \subseteq claims[i]
  /\ todo[i] \cap claims[i] = {}
  /\ \A e \in attempted[i] : e <= emitted
  /\ \A e \in todo[i] : seen[i][e] <= attempts[e]
  /\ \A e \in running[i], f \in todo[i] : bookingOf[f] = bookingOf[e] => e < f
  /\ \A f \in attempted[i] : IsFirst(f) => f \in todo[i] \/ attempts[f] > 0
  /\ \A e \in todo[i], f \in Event :
       f < e /\ bookingOf[f] = bookingOf[e] /\ IsFirst(f) => f \in attempted[i] \/ attempts[f] > 0

IInv ==
  /\ TypeOK
  /\ \A e \in Event : RowOK(e)
  /\ OneOwner /\ DoneMeansRan
  /\ \A i \in Instances : OwnOK(i) /\ TickOK(i)

\* An instance's memory of its tick.
Same(j) ==
  /\ at'[j] = at[j] /\ attempted'[j] = attempted[j] /\ todo'[j] = todo[j] /\ seen'[j] = seen[j]
  /\ running'[j] = running[j] /\ returned'[j] = returned[j] /\ claims'[j] = claims[j]

-----------------------------------------------------------------------------
LEMMA Initially == Init => IInv
<1> SUFFICES ASSUME Init PROVE IInv
  OBVIOUS
<1>1. TypeOK
  BY OutboxAssumption DEF Init, TypeOK, Event
<1>2. (\A e \in Event : RowOK(e)) /\ OneOwner /\ DoneMeansRan
  BY OutboxAssumption DEF Init, RowOK, OneOwner, DoneMeansRan, Event
<1>3. \A i \in Instances : OwnOK(i) /\ TickOK(i)
  BY DEF Init, OwnOK, TickOK
<1>4. QED
  BY <1>1, <1>2, <1>3 DEF IInv

\* The other instances do not notice a step that only adds attempts and returns.
LEMMA OthersKeep ==
  ASSUME IInv, TypeOK', NEW j \in Instances, Same(j),
         UNCHANGED <<emitted, bookingOf>>,
         \A e \in Event : attempts[e] <= attempts'[e],
         ran \subseteq ran'
  PROVE  OwnOK(j)' /\ TickOK(j)'
<1> USE DEF Same
<1>1. OwnOK(j) /\ TickOK(j)
  BY DEF IInv
<1>2. /\ running[j] \subseteq Event /\ todo[j] \subseteq Event /\ attempted[j] \subseteq Event
      /\ attempts \in [Event -> Nat] /\ attempts' \in [Event -> Nat]
      /\ seen[j] \in [Event -> Nat]
  BY DEF IInv, TypeOK
<1>3. OwnOK(j)'
  BY <1>1, <1>2 DEF OwnOK
<1>4. \A f \in Event : IsFirst(f)' <=> IsFirst(f)
  BY DEF IsFirst
<1>5. TickOK(j)'
  <2>1. \A e \in todo[j] : seen'[j][e] <= attempts'[e]
    BY <1>1, <1>2 DEF TickOK
  <2>2. \A f \in Event : attempts[f] > 0 => attempts'[f] > 0
    BY <1>2
  <2>3. QED
    BY <1>1, <1>2, <1>4, <2>1, <2>2 DEF TickOK
<1>6. QED
  BY <1>3, <1>5

-----------------------------------------------------------------------------
(* The steps *)

LEMMA EmitStep == ASSUME IInv, Emit PROVE IInv'
<1> USE DEF Emit, memory
<1>1. PICK b \in 1..MaxBookings : bookingOf' = [bookingOf EXCEPT ![emitted'] = b]
  OBVIOUS
<1>2. /\ emitted \in Nat /\ emitted' = emitted + 1 /\ emitted' \in Event /\ b # 0
      /\ b \in 0..MaxBookings
  BY OutboxAssumption, <1>1 DEF IInv, TypeOK, Event
<1>3. TypeOK'
  <2>1. bookingOf' \in [Event -> 0..MaxBookings]
    BY <1>1, <1>2 DEF IInv, TypeOK
  <2>2. status' \in [Event -> {"NONE", "PENDING", "PROCESSING", "DONE", "FAILED"}]
    BY <1>2 DEF IInv, TypeOK
  <2>3. emitted' \in 0..MaxEvents
    BY <1>2 DEF Event
  <2>4. QED
    BY <2>1, <2>2, <2>3 DEF IInv, TypeOK
<1>4. /\ status'[emitted'] = "PENDING" /\ bookingOf'[emitted'] = b
      /\ \A e \in Event : e <= emitted => e # emitted'
      /\ \A e \in Event \ {emitted'} : status'[e] = status[e] /\ bookingOf'[e] = bookingOf[e]
      /\ \A e \in Event : e <= emitted' <=> (e <= emitted \/ e = emitted')
  BY <1>1, <1>2 DEF IInv, TypeOK, Event
<1>5. \A e \in Event : RowOK(e)'
  BY <1>2, <1>4 DEF IInv, RowOK
<1>6. ASSUME NEW e \in Event, e <= emitted PROVE IsFirst(e)' <=> IsFirst(e)
  BY <1>2, <1>4, <1>6 DEF IsFirst, Event
<1>7. ASSUME NEW j \in Instances PROVE OwnOK(j)' /\ TickOK(j)'
  <2>1. OwnOK(j) /\ TickOK(j) /\ todo[j] \subseteq Event /\ running[j] \subseteq Event /\ attempted[j] \subseteq Event
    BY DEF IInv, TypeOK
  <2>2. OwnOK(j)'
    BY <2>1 DEF OwnOK
  <2>3. \A e \in todo[j] \cup running[j] \cup attempted[j] : e \in Event /\ e <= emitted
    BY <2>1 DEF TickOK
  <2>4. \A e \in todo[j], f \in Event : f < e => f <= emitted
    BY <1>2, <2>3 DEF Event
  <2>5. \A e \in attempted[j] : e <= emitted'
    BY <1>4, <2>3
  <2>6. \A e \in running[j], f \in todo[j] : bookingOf'[f] = bookingOf'[e] => e < f
    BY <1>4, <2>1, <2>3 DEF TickOK
  <2>7. \A f \in attempted[j] : IsFirst(f)' => f \in todo[j] \/ attempts[f] > 0
    BY <1>6, <2>1, <2>3 DEF TickOK
  <2>8. ASSUME NEW e \in todo[j], NEW f \in Event, f < e, bookingOf'[f] = bookingOf'[e], IsFirst(f)'
        PROVE  f \in attempted[j] \/ attempts[f] > 0
    BY <1>4, <1>6, <2>1, <2>3, <2>4, <2>8 DEF TickOK
  <2>9. TickOK(j)'
    BY <2>1, <2>5, <2>6, <2>7, <2>8 DEF TickOK
  <2>10. QED
    BY <2>2, <2>9
<1>8. OneOwner' /\ DoneMeansRan'
  <2>1. ASSUME NEW i \in Instances, NEW e \in running[i] PROVE e \in Event /\ e <= emitted
    BY DEF IInv, TypeOK, TickOK
  <2>2. \A i \in Instances : \A e \in running[i] : status'[e] = status[e]
    BY <1>4, <2>1
  <2>3. OneOwner'
    BY <2>2 DEF IInv, OneOwner
  <2>4. DoneMeansRan'
    BY <1>4 DEF IInv, DoneMeansRan
  <2>5. QED
    BY <2>3, <2>4
<1>9. QED
  BY <1>3, <1>5, <1>7, <1>8 DEF IInv

\* The tick of i is over: its memory is empty, its rows stay as they are.
LEMMA EndTickStep ==
  ASSUME IInv, NEW i \in Instances, EndTick(i), UNCHANGED <<rows, ran>>, crashes' \in 0..MaxCrashes
  PROVE  IInv'
<1> USE DEF EndTick, rows
<1>1. TypeOK'
  BY DEF IInv, TypeOK
<1>2. running'[i] = {} /\ todo'[i] = {} /\ returned'[i] = {} /\ attempted'[i] = {} /\ claims'[i] = {}
  BY DEF IInv, TypeOK
<1>3. \A j \in Instances \ {i} : Same(j)
  BY DEF IInv, TypeOK, Same
<1>4. ASSUME NEW j \in Instances PROVE OwnOK(j)' /\ TickOK(j)'
  <2>1. CASE j = i
    BY <1>2, <2>1 DEF OwnOK, TickOK
  <2>2. CASE j # i
    BY <1>1, <1>3, <2>2, OthersKeep DEF IInv, TypeOK
  <2>3. QED
    BY <2>1, <2>2
<1>5. OneOwner' /\ DoneMeansRan' /\ \A e \in Event : RowOK(e)'
  BY <1>2, <1>3 DEF IInv, OneOwner, DoneMeansRan, RowOK, Same
<1>6. QED
  BY <1>1, <1>4, <1>5 DEF IInv

LEMMA EndBatchStep ==
  ASSUME IInv, NEW i \in Instances, EndBatch(i) \/ FetchNothing(i) \/ Crash(i) PROVE IInv'
<1>1. CASE EndTick(i) /\ UNCHANGED <<rows, ran>> /\ crashes' \in 0..MaxCrashes
  BY <1>1, EndTickStep
<1>2. CASE EndBatch(i) /\ at' = [at EXCEPT ![i] = "fetch"] /\ UNCHANGED <<attempted, todo, seen, running, returned, progress, claims>>
  <2> USE <1>2 DEF EndBatch, rows
  <2>1. TypeOK'
    BY DEF IInv, TypeOK
  <2>2. \A j \in Instances \ {i} : Same(j)
    BY DEF IInv, TypeOK, Same
  <2>3. ASSUME NEW j \in Instances PROVE OwnOK(j)' /\ TickOK(j)'
    <3>1. CASE j = i
      BY <3>1 DEF IInv, OwnOK, TickOK, IsFirst
    <3>2. CASE j # i
      BY <2>1, <2>2, <3>2, OthersKeep DEF IInv, TypeOK
    <3>3. QED
      BY <3>1, <3>2
  <2>4. OneOwner' /\ DoneMeansRan' /\ \A e \in Event : RowOK(e)'
    BY DEF IInv, OneOwner, DoneMeansRan, RowOK
  <2>5. QED
    BY <2>1, <2>3, <2>4 DEF IInv
<1>3. crashes \in 0..MaxCrashes /\ (Crash(i) => crashes' \in 0..MaxCrashes)
  BY OutboxAssumption DEF IInv, TypeOK, Crash
<1>4. QED
  BY <1>1, <1>2, <1>3 DEF EndBatch, FetchNothing, Crash

LEMMA ReapStep == ASSUME IInv, NEW i \in Instances, ReapStale(i) PROVE IInv'
<1> USE DEF ReapStale, memory
<1>1. TypeOK'
  BY DEF IInv, TypeOK
<1>2. \A e \in Event : status'[e] = IF e \in Abandoned THEN "PENDING" ELSE status[e]
  BY DEF IInv, TypeOK
<1>3. \A e \in Event : RowOK(e)'
  BY <1>2 DEF IInv, RowOK, Abandoned
<1>4. OneOwner' /\ DoneMeansRan'
  <2>1. \A j \in Instances : \A e \in running[j] : e \in Event /\ e \notin Abandoned
    BY DEF IInv, TypeOK, Abandoned
  <2>2. QED
    BY <1>2, <2>1 DEF IInv, OneOwner, DoneMeansRan
<1>5. \A j \in Instances : OwnOK(j)' /\ TickOK(j)'
  BY <1>1, OthersKeep DEF IInv, TypeOK, Same
<1>6. QED
  BY <1>1, <1>3, <1>4, <1>5 DEF IInv

\* A batch holds the oldest pending rows, so none is older than it and left out.
LEMMA BatchIsOldest ==
  ASSUME TypeOK, NEW e \in Batch, NEW f \in Event, f < e, status[f] = "PENDING"
  PROVE  f \in Batch
<1> DEFINE P(n) == {g \in 1..n : status[g] = "PENDING"}
<1>1. e \in Nat /\ f \in Nat /\ BatchSize \in Nat
  BY OutboxAssumption DEF Batch, Event
<1>2. IsFiniteSet(1..e)
  BY <1>1, FS_Interval
<1>3. IsFiniteSet(P(e)) /\ IsFiniteSet(P(f)) /\ P(f) \subseteq P(e)
  BY <1>1, <1>2, FS_Subset
<1>4. Cardinality(P(f)) <= Cardinality(P(e)) /\ Cardinality(P(f)) \in Nat /\ Cardinality(P(e)) \in Nat
  BY <1>3, FS_Subset, FS_CardinalityType
<1>5. Cardinality(P(e)) <= BatchSize
  BY DEF Batch
<1>6. Cardinality(P(f)) <= BatchSize
  BY <1>1, <1>4, <1>5
<1>7. QED
  BY <1>6 DEF Batch

LEMMA FetchBatchStep == ASSUME IInv, NEW i \in Instances, FetchBatch(i) PROVE IInv'
<1> USE DEF FetchBatch, rows
<1>1. Fresh(i) \subseteq Event /\ \A e \in Fresh(i) : e \in Batch /\ e \notin attempted[i] /\ status[e] = "PENDING"
  BY DEF Fresh, Batch
<1>2. TypeOK'
  BY <1>1 DEF IInv, TypeOK
<1>3. \A j \in Instances \ {i} : Same(j)
  BY DEF IInv, TypeOK, Same
<1>4. /\ running[i] = {} /\ todo[i] = {} /\ returned[i] = {}
      /\ at'[i] = "run" /\ todo'[i] = Fresh(i) /\ attempted'[i] = attempted[i] \cup Fresh(i)
      /\ running'[i] = {} /\ returned'[i] = {} /\ claims'[i] = claims[i]
      /\ \A e \in Fresh(i) : seen'[i][e] = attempts[e]
  BY <1>1 DEF IInv, TypeOK, OwnOK, Polls
<1>5. TickOK(i)'
  <2>1. TickOK(i) /\ \A e \in Event : RowOK(e)
    BY DEF IInv
  <2>2. \A e \in attempted'[i] : e <= emitted
    BY <1>1, <1>4, <2>1 DEF TickOK, RowOK
  <2>3. ASSUME NEW e \in Fresh(i), NEW f \in Event, f < e
        PROVE  f \in attempted'[i] \/ attempts[f] > 0
    <3>1. e <= emitted /\ f <= emitted
      BY <1>1, <2>1, <2>3 DEF RowOK, IInv, TypeOK, Event
    <3>2. CASE status[f] = "PENDING"
      BY <1>1, <1>4, <2>3, <3>2, BatchIsOldest DEF Fresh, IInv
    <3>3. CASE status[f] # "PENDING"
      BY <2>1, <3>1, <3>3 DEF RowOK, IInv, TypeOK
    <3>4. QED
      BY <3>2, <3>3
  <2>4. \A f \in Event : IsFirst(f)' <=> IsFirst(f)
    BY DEF IsFirst
  <2>5. \A e \in todo'[i] : seen'[i][e] <= attempts[e]
    BY <1>1, <1>4 DEF IInv, TypeOK
  <2>6. attempted'[i] \subseteq Event
    BY <1>2 DEF TypeOK
  <2>7. \A f \in attempted'[i] : IsFirst(f) => f \in todo'[i] \/ attempts[f] > 0
    BY <1>4, <2>1 DEF TickOK
  <2>8. QED
    BY <1>1, <1>4, <2>1, <2>2, <2>3, <2>4, <2>5, <2>6, <2>7 DEF TickOK
<1>6. ASSUME NEW j \in Instances PROVE OwnOK(j)' /\ TickOK(j)'
  <2>1. CASE j = i
    BY <1>4, <1>5, <2>1 DEF OwnOK
  <2>2. CASE j # i
    BY <1>2, <1>3, <2>2, OthersKeep DEF IInv, TypeOK
  <2>3. QED
    BY <2>1, <2>2
<1>7. OneOwner' /\ DoneMeansRan' /\ \A e \in Event : RowOK(e)'
  BY DEF IInv, OneOwner, DoneMeansRan, RowOK
<1>8. QED
  BY <1>2, <1>6, <1>7 DEF IInv

\* The claim of an event by i: every earlier event of its booking has been taken up.
LEMMA ClaimStep == ASSUME IInv, NEW i \in Instances, NEW e \in Event, Claim(i, e) PROVE IInv'
<1> USE DEF Claim, IsNext, SameBooking
<1>1. OwnOK(i) /\ TickOK(i) /\ RowOK(e)
  BY DEF IInv
<1>2. TypeOK'
  BY DEF IInv, TypeOK
<1>3. \A j \in Instances \ {i} : Same(j)
  BY DEF IInv, TypeOK, Same
<1>4. /\ status'[e] = "PROCESSING" /\ attempts'[e] = attempts[e] + 1 /\ attempts[e] \in Nat
      /\ \A f \in Event \ {e} : status'[f] = status[f] /\ attempts'[f] = attempts[f]
      /\ at'[i] = at[i] /\ attempted'[i] = attempted[i] /\ seen'[i] = seen[i] /\ returned'[i] = returned[i]
      /\ todo'[i] = todo[i] \ {e} /\ running'[i] = running[i] \cup {e} /\ claims'[i] = claims[i] \cup {e}
  BY DEF IInv, TypeOK
<1>5. todo[i] \subseteq Event /\ running[i] \subseteq Event /\ attempted[i] \subseteq Event /\ seen[i] \in [Event -> Nat]
  BY DEF IInv, TypeOK
<1>6. \A f \in Event : attempts[f] \in Nat /\ attempts[f] <= attempts'[f] /\ (IsFirst(f)' <=> IsFirst(f))
  BY <1>4 DEF IInv, TypeOK, IsFirst
<1>7. \A f \in running[i] : e # f
  BY <1>1 DEF TickOK
<1>8. OwnOK(i)'
  BY <1>1, <1>4, <1>5, <1>7 DEF OwnOK, TickOK
<1>9. TickOK(i)'
  <2>1. \A f \in running'[i], g \in todo'[i] : bookingOf[g] = bookingOf[f] => f < g
    BY <1>1, <1>4, <1>5 DEF TickOK, Event
  <2>2. \A f \in todo'[i] : seen[i][f] <= attempts'[f]
    BY <1>1, <1>4, <1>5 DEF TickOK
  <2>3. \A f \in attempted[i] : IsFirst(f) => f \in todo'[i] \/ attempts'[f] > 0
    BY <1>1, <1>4, <1>5, <1>6 DEF TickOK
  <2>4. \A f \in Event : attempts[f] > 0 => attempts'[f] > 0
    BY <1>4
  <2>5. \A f \in todo'[i], g \in Event :
          g < f /\ bookingOf[g] = bookingOf[f] /\ IsFirst(g) => g \in attempted[i] \/ attempts'[g] > 0
    BY <1>1, <1>4, <2>4 DEF TickOK
  <2>6. QED
    BY <1>1, <1>4, <1>5, <1>6, <2>1, <2>2, <2>3, <2>5 DEF TickOK
<1>10. ASSUME NEW j \in Instances PROVE OwnOK(j)' /\ TickOK(j)'
  <2>1. CASE j = i
    BY <1>8, <1>9, <2>1
  <2>2. CASE j # i
    BY <1>2, <1>3, <1>6, <2>2, OthersKeep DEF IInv, TypeOK
  <2>3. QED
    BY <2>1, <2>2
<1>11. OneOwner'
  <2>1. \A j \in Instances : e \notin running[j]
    BY DEF IInv, OneOwner
  <2>2. \A j \in Instances : running'[j] = IF j = i THEN running[i] \cup {e} ELSE running[j]
    BY <1>3, <1>4 DEF Same
  <2>3. \A j \in Instances : running[j] \subseteq Event
    BY DEF IInv, TypeOK
  <2>4. QED
    BY <1>4, <2>1, <2>2, <2>3 DEF IInv, OneOwner
<1>12. DoneMeansRan' /\ \A f \in Event : RowOK(f)'
  BY <1>1, <1>4 DEF IInv, DoneMeansRan, RowOK
<1>13. QED
  BY <1>2, <1>10, <1>11, <1>12 DEF IInv

\* The claim fails: the first event of the booking, if it was still to come, is e.
LEMMA ClaimLostStep == ASSUME IInv, NEW i \in Instances, NEW e \in Event, ClaimLost(i, e) PROVE IInv'
<1> USE DEF ClaimLost, StopGroup, IsNext, SameBooking, rows
<1>1. OwnOK(i) /\ TickOK(i) /\ RowOK(e)
  BY DEF IInv
<1>2. TypeOK'
  BY DEF IInv, TypeOK
<1>3. \A j \in Instances \ {i} : Same(j)
  BY DEF IInv, TypeOK, Same
<1>4. todo'[i] = {f \in todo[i] : bookingOf[f] # bookingOf[e]} /\ todo[i] \subseteq Event
  BY DEF IInv, TypeOK
<1>5. attempts[e] > 0
  BY <1>1 DEF TickOK, RowOK, IInv, TypeOK
<1>6. \A f \in todo[i] : IsFirst(f) /\ bookingOf[f] = bookingOf[e] => f = e
  BY <1>4 DEF IsFirst, Event
<1>7. \A f \in Event : IsFirst(f)' <=> IsFirst(f)
  BY DEF IsFirst
<1>8. attempted[i] \subseteq Event
  BY DEF IInv, TypeOK
<1>9. OwnOK(i)' /\ TickOK(i)'
  <2>1. OwnOK(i)'
    BY <1>1, <1>4 DEF OwnOK
  <2>2. \A f \in attempted[i] : IsFirst(f) => f \in todo'[i] \/ attempts[f] > 0
    BY <1>1, <1>4, <1>5, <1>6 DEF TickOK
  <2>3. TickOK(i)'
    BY <1>1, <1>4, <1>7, <1>8, <2>2 DEF TickOK
  <2>4. QED
    BY <2>1, <2>3
<1>10. ASSUME NEW j \in Instances PROVE OwnOK(j)' /\ TickOK(j)'
  <2>1. CASE j = i
    BY <1>9, <2>1
  <2>2. CASE j # i
    BY <1>2, <1>3, <2>2, OthersKeep DEF IInv, TypeOK
  <2>3. QED
    BY <2>1, <2>2
<1>11. OneOwner' /\ DoneMeansRan' /\ \A f \in Event : RowOK(f)'
  BY DEF IInv, OneOwner, DoneMeansRan, RowOK
<1>12. QED
  BY <1>2, <1>10, <1>11 DEF IInv

LEMMA HandlerReturnsStep ==
  ASSUME IInv, NEW i \in Instances, NEW e \in Event, HandlerReturns(i, e) PROVE IInv'
<1> USE DEF HandlerReturns, InFlight, rows
<1>1. OwnOK(i) /\ TickOK(i)
  BY DEF IInv
<1>2. TypeOK'
  BY DEF IInv, TypeOK
<1>3. \A j \in Instances \ {i} : Same(j)
  BY DEF IInv, TypeOK, Same
<1>4. returned'[i] = returned[i] \cup {e}
  BY DEF IInv, TypeOK
<1>5. OwnOK(i)' /\ TickOK(i)'
  BY <1>1, <1>4 DEF OwnOK, TickOK, IsFirst
<1>6. ASSUME NEW j \in Instances PROVE OwnOK(j)' /\ TickOK(j)'
  <2>1. CASE j = i
    BY <1>5, <2>1
  <2>2. CASE j # i
    BY <1>2, <1>3, <2>2, OthersKeep DEF IInv, TypeOK
  <2>3. QED
    BY <2>1, <2>2
<1>7. OneOwner' /\ DoneMeansRan' /\ \A f \in Event : RowOK(f)'
  BY DEF IInv, OneOwner, DoneMeansRan, RowOK
<1>8. QED
  BY <1>2, <1>6, <1>7 DEF IInv

\* i settles e: the row leaves PROCESSING, e leaves running, and the rest of its
\* group too if it failed.
LEMMA SettleStep ==
  ASSUME IInv, NEW i \in Instances, NEW e \in Event, MarkDone(i, e) \/ HandlerFails(i, e) PROVE IInv'
<1> USE DEF MarkDone, HandlerFails, Unclaim, StopGroup, InFlight, SameBooking
<1>1. OwnOK(i) /\ TickOK(i) /\ RowOK(e) /\ e \in running[i]
  BY DEF IInv, OwnOK
<1>2. PICK s \in {"DONE", "PENDING", "FAILED"} :
        status' = [status EXCEPT ![e] = s] /\ (s = "DONE" => e \in returned[i])
  BY DEF AfterFailure
<1>3. TypeOK'
  <2>1. /\ status' \in [Event -> {"NONE", "PENDING", "PROCESSING", "DONE", "FAILED"}]
        /\ seen' \in [Instances -> [Event -> Nat]]
    BY <1>2 DEF IInv, TypeOK
  <2>2. /\ running' \in [Instances -> SUBSET Event]
        /\ returned' \in [Instances -> SUBSET Event] /\ progress' \in [Instances -> BOOLEAN]
    <3>1. CASE MarkDone(i, e)
      BY <3>1 DEF IInv, TypeOK
    <3>2. CASE HandlerFails(i, e)
      BY <3>2 DEF IInv, TypeOK
    <3>3. QED
      BY <3>1, <3>2
  <2>3. todo' \in [Instances -> SUBSET Event]
    BY DEF IInv, TypeOK
  <2>4. QED
    BY <2>1, <2>2, <2>3 DEF IInv, TypeOK
<1>4. \A j \in Instances \ {i} : Same(j)
  BY DEF IInv, TypeOK, Same
<1>5. /\ running'[i] = running[i] \ {e}
      /\ returned'[i] = returned[i] \ {e}
      /\ todo'[i] = todo[i] \/ todo'[i] = {f \in todo[i] : bookingOf[f] # bookingOf[e]}
      /\ \A f \in Event : seen'[i][f] = IF f = e THEN 0 ELSE seen[i][f]
      /\ UNCHANGED <<emitted, bookingOf, attempts, ran, at, attempted, claims>>
  BY DEF IInv, TypeOK, OwnOK
<1>6. /\ todo[i] \subseteq Event /\ running[i] \subseteq Event /\ attempted[i] \subseteq Event
      /\ seen[i] \in [Event -> Nat] /\ attempts \in [Event -> Nat]
  BY DEF IInv, TypeOK
<1>7. OwnOK(i)'
  BY <1>1, <1>5, <1>6 DEF OwnOK
<1>8. TickOK(i)'
  <2>1. \A f \in todo[i] : IsFirst(f) => bookingOf[f] # bookingOf[e]
    BY <1>1, <1>6 DEF TickOK, IsFirst, Event
  <2>2. \A f \in Event : IsFirst(f)' <=> IsFirst(f)
    BY <1>5 DEF IsFirst
  <2>3. \A f \in todo'[i] : f \in todo[i] /\ seen'[i][f] <= attempts[f]
    BY <1>1, <1>5, <1>6 DEF TickOK
  <2>4. \A f \in attempted[i] : IsFirst(f) => f \in todo'[i] \/ attempts[f] > 0
    BY <1>1, <1>5, <2>1 DEF TickOK
  <2>5. QED
    BY <1>1, <1>5, <1>6, <2>2, <2>3, <2>4 DEF TickOK
<1>9. ASSUME NEW j \in Instances PROVE OwnOK(j)' /\ TickOK(j)'
  <2>1. CASE j = i
    BY <1>7, <1>8, <2>1
  <2>2. CASE j # i
    BY <1>3, <1>4, <1>5, <2>2, OthersKeep DEF IInv, TypeOK
  <2>3. QED
    BY <2>1, <2>2
<1>10. status'[e] = s /\ status[e] = "PROCESSING" /\ \A f \in Event \ {e} : status'[f] = status[f]
  BY <1>1, <1>2 DEF IInv, TypeOK, OneOwner
<1>11. OneOwner'
  <2>1. \A j \in Instances : running'[j] \subseteq running[j] /\ running[j] \subseteq Event /\ e \notin running'[j]
    BY <1>1, <1>4, <1>5 DEF Same, IInv, OneOwner, TypeOK
  <2>2. QED
    BY <1>10, <2>1 DEF IInv, OneOwner
<1>12. DoneMeansRan'
  BY <1>1, <1>2, <1>5, <1>10 DEF IInv, DoneMeansRan, OwnOK
<1>13. \A f \in Event : RowOK(f)'
  BY <1>5, <1>10 DEF IInv, RowOK
<1>14. QED
  BY <1>3, <1>9, <1>11, <1>12, <1>13 DEF IInv

LEMMA Preserved == IInv /\ [Next]_vars => IInv'
<1> SUFFICES ASSUME IInv, [Next]_vars PROVE IInv'
  OBVIOUS
<1>1. CASE UNCHANGED vars
  <2> USE <1>1 DEF vars, rows, memory
  <2>1. TypeOK' /\ OneOwner' /\ DoneMeansRan' /\ \A e \in Event : RowOK(e)'
    BY DEF IInv, TypeOK, OneOwner, DoneMeansRan, RowOK
  <2>2. \A j \in Instances : OwnOK(j)' /\ TickOK(j)'
    BY <2>1, OthersKeep DEF IInv, TypeOK, Same
  <2>3. QED
    BY <2>1, <2>2 DEF IInv
<1>2. ASSUME NEW i \in Instances, Drain(i) \/ ReapStale(i) \/ Crash(i) PROVE IInv'
  BY <1>2, EndBatchStep, ReapStep, FetchBatchStep, ClaimStep, ClaimLostStep, HandlerReturnsStep,
     SettleStep DEF Drain, Settle
<1>3. QED
  BY <1>1, <1>2, EmitStep DEF Next

LEMMA Invariance == Spec => []IInv
<1>1. Init => IInv
  BY Initially
<1>2. IInv /\ [Next]_vars => IInv'
  BY Preserved
<1>3. QED
  BY <1>1, <1>2, PTL DEF Spec

-----------------------------------------------------------------------------
\* Every variable keeps its type.
THEOREM TypeCorrect == Spec => []TypeOK
<1>1. IInv => TypeOK
  BY DEF IInv
<1>2. QED
  BY <1>1, Invariance, PTL

\* No event is DONE whose handler never returned, whatever crashes and timeouts
\* (processOne marks a row DONE only after its handlers).
THEOREM AtLeastOnce == Spec => []DoneMeansRan
<1>1. IInv => DoneMeansRan
  BY DEF IInv
<1>2. QED
  BY <1>1, Invariance, PTL

\* The atomic claim gives each event one owner, with any number of instances.
THEOREM ClaimIsExclusive == Spec => []OneOwner
<1>1. IInv => OneOwner
  BY DEF IInv
<1>2. QED
  BY <1>1, Invariance, PTL

\* An instance takes an event up at most once in a tick (attemptedThisTick).
THEOREM RetriesWait == Spec => RetryOnLaterTick
<1> DEFINE OncePerTick == \A i \in Instances : (running'[i] \ running[i]) \cap claims[i] = {}
<1>1. IInv /\ [Next]_vars => OncePerTick
  <2> SUFFICES ASSUME IInv, [Next]_vars, NEW i \in Instances, NEW e \in running'[i], e \notin running[i]
               PROVE  e \notin claims[i]
    OBVIOUS
  <2>1. CASE UNCHANGED running
    BY <2>1
  <2>2. ASSUME NEW j \in Instances, EndTick(j) PROVE e \notin claims[i]
    BY <2>2 DEF EndTick, IInv, TypeOK
  <2>3. ASSUME NEW j \in Instances, NEW f \in Event, Claim(j, f) PROVE e \notin claims[i]
    <3>1. f \in todo[j] /\ running' = [running EXCEPT ![j] = @ \cup {f}]
      BY <2>3 DEF Claim, IsNext
    <3>2. j = i /\ e = f
      BY <3>1 DEF IInv, TypeOK
    <3>3. QED
      BY <3>1, <3>2 DEF IInv, TickOK
  <2>4. ASSUME NEW j \in Instances, NEW f \in Event, MarkDone(j, f) \/ HandlerFails(j, f)
        PROVE  e \notin claims[i]
    <3>1. running' = [running EXCEPT ![j] = @ \ {f}]
      BY <2>4 DEF MarkDone, HandlerFails, Unclaim
    <3>2. QED
      BY <3>1 DEF IInv, TypeOK
  <2>5. QED
    BY <2>1, <2>2, <2>3, <2>4 DEF Next, Drain, Settle, Emit, ReapStale, Crash, FetchBatch,
       FetchNothing, EndBatch, ClaimLost, HandlerReturns, vars, memory
<1>2. QED
  BY <1>1, Invariance, PTL DEF Spec, RetryOnLaterTick

-----------------------------------------------------------------------------
(* Outbox implements Delivery *)

\* What an instance takes up is due: no earlier event is the untried first one.
LEMMA ClaimIsDue ==
  ASSUME IInv, NEW i \in Instances, NEW e \in Event, Claim(i, e) PROVE Promise!Start(e)
<1> USE DEF Claim, IsNext, SameBooking
<1>1. TickOK(i) /\ todo[i] \subseteq Event
  BY DEF IInv, TypeOK
<1>2. ASSUME NEW f \in Event, f < e, bookingOf[f] = bookingOf[e],
             \A g \in Event : g < f => bookingOf[g] # bookingOf[e]
      PROVE  attempts[f] > 0
  <2>1. IsFirst(f)
    BY <1>2 DEF IsFirst
  <2>2. f \in attempted[i] \/ attempts[f] > 0
    BY <1>1, <1>2, <2>1 DEF TickOK
  <2>3. f \notin todo[i]
    BY <1>2 DEF Event
  <2>4. QED
    BY <1>1, <2>1, <2>2, <2>3 DEF TickOK
<1>3. Promise!Due(e)
  BY <1>2 DEF Promise!Due
<1>4. QED
  BY <1>3 DEF Promise!Start

LEMMA StepIsDelivery ==
  ASSUME IInv, [Next]_vars PROVE [Promise!Next]_(Promise!deliveryVars)
<1> USE DEF Promise!deliveryVars
<1>1. ASSUME UNCHANGED <<bookingOf, status, attempts>> PROVE [Promise!Next]_(Promise!deliveryVars)
  BY <1>1
<1>2. CASE Emit
  <2>1. PICK b \in 1..MaxBookings : bookingOf' = [bookingOf EXCEPT ![emitted + 1] = b]
    BY <1>2 DEF Emit
  <2>2. emitted \in Nat /\ emitted + 1 \in Event
    BY <1>2, OutboxAssumption DEF Emit, IInv, TypeOK, Event
  <2>3. \A f \in Event : f >= emitted + 1 => status[f] = "NONE"
    BY <2>2 DEF IInv, RowOK, Event
  <2>4. Promise!Emit(emitted + 1, b)
    BY <1>2, <2>1, <2>3 DEF Emit, Promise!Emit
  <2>5. QED
    BY <2>2, <2>4 DEF Promise!Next
<1>3. ASSUME NEW i \in Instances, ReapStale(i) PROVE Promise!Next
  <2>1. Abandoned \in SUBSET Event /\ Abandoned # {} /\ \A e \in Abandoned : status[e] = "PROCESSING"
    BY <1>3 DEF ReapStale, Abandoned
  <2>2. Promise!Requeue(Abandoned)
    BY <1>3, <2>1 DEF ReapStale, Promise!Requeue
  <2>3. QED
    BY <2>1, <2>2 DEF Promise!Next
<1>4. ASSUME NEW i \in Instances, NEW e \in Event, Claim(i, e) PROVE Promise!Next
  BY <1>4, ClaimIsDue DEF Promise!Next
<1>5. ASSUME NEW i \in Instances, NEW e \in Event, MarkDone(i, e) PROVE Promise!Next
  <2>1. status[e] = "PROCESSING"
    BY <1>5 DEF MarkDone, IInv, OwnOK, OneOwner
  <2>2. Promise!Succeed(e)
    BY <1>5, <2>1 DEF MarkDone, Promise!Succeed
  <2>3. QED
    BY <2>2 DEF Promise!Next
<1>6. ASSUME NEW i \in Instances, NEW e \in Event, HandlerFails(i, e) PROVE Promise!Next
  <2>1. /\ status[e] = "PROCESSING" /\ seen[i][e] + 1 <= attempts[e]
        /\ status' = [status EXCEPT ![e] = AfterFailure(i, e)]
        /\ UNCHANGED <<bookingOf, attempts>>
    BY <1>6 DEF HandlerFails, Unclaim, InFlight, IInv, OwnOK, OneOwner
  <2>2. CASE seen[i][e] + 1 >= MaxAttempts
    <3>1. attempts[e] >= MaxAttempts
      BY <2>1, <2>2, OutboxAssumption DEF IInv, TypeOK
    <3>2. Promise!GiveUp(e)
      BY <2>1, <2>2, <3>1 DEF AfterFailure, Promise!GiveUp
    <3>3. QED
      BY <3>2 DEF Promise!Next
  <2>3. CASE ~(seen[i][e] + 1 >= MaxAttempts)
    <3>1. status' = [f \in Event |-> IF f \in {e} THEN "PENDING" ELSE status[f]]
      BY <2>1, <2>3 DEF AfterFailure, IInv, TypeOK
    <3>2. Promise!Requeue({e}) /\ {e} \in SUBSET Event
      BY <2>1, <3>1 DEF Promise!Requeue
    <3>3. QED
      BY <3>2 DEF Promise!Next
  <2>4. QED
    BY <2>2, <2>3
<1>7. ASSUME NEW i \in Instances, NEW e \in Event, ClaimLost(i, e) \/ HandlerReturns(i, e)
      PROVE  UNCHANGED <<bookingOf, status, attempts>>
  BY <1>7 DEF ClaimLost, HandlerReturns, rows
<1>8. ASSUME NEW i \in Instances, FetchBatch(i) \/ FetchNothing(i) \/ EndBatch(i) \/ Crash(i)
      PROVE  UNCHANGED <<bookingOf, status, attempts>>
  BY <1>8 DEF FetchBatch, FetchNothing, EndBatch, Crash, rows
<1>9. QED
  BY <1>1, <1>2, <1>3, <1>4, <1>5, <1>6, <1>7, <1>8 DEF Next, Drain, Settle, vars, rows

\* The drained table keeps the promise its consumers build on: every step of the
\* instances is a step of Delivery, or changes no row.
THEOREM ImplementsDelivery == Spec => DeliverySpec
<1>1. Init => Promise!Init
  BY OutboxAssumption DEF Init, Promise!Init
<1>2. IInv /\ [Next]_vars => [Promise!Next]_(Promise!deliveryVars)
  BY StepIsDelivery
<1>3. QED
  BY <1>1, <1>2, Invariance, PTL DEF Spec, DeliverySpec, Promise!Spec
=============================================================================
