------------------------------- MODULE Outbox -------------------------------
(***************************************************************************)
(* The transactional outbox: rows written by booking transactions, and the *)
(* OutboxWorker instances that claim them and run their handlers.          *)
(*                                                                         *)
(* An instance drains in ticks.  A tick fetches batches of PENDING rows;   *)
(* a batch is split into one group per booking, groups run concurrently    *)
(* and a group runs its events one after the other.  An event is handed to *)
(* all its handlers at once; they are one handler here, which returns     *)
(* or fails; one that times out has failed and runs on in the background,  *)
(* where the jobs of Payment meet each other.                              *)
(*                                                                         *)
(* Events are numbered in createdAt order, bookings by their first event.  *)
(* Handlers time out well within PROCESSING_TIMEOUT_MS, so only a crashed  *)
(* instance's rows go stale.                                               *)
(***************************************************************************)
EXTENDS Naturals, FiniteSets

CONSTANTS
  Instances,    \* processes running an OutboxWorker
  MaxBookings,  \* bound on the bookings
  MaxEvents,    \* bound on the events emitted
  BatchSize,    \* rows fetched per batch
  MaxAttempts,  \* MAX_ATTEMPTS
  MaxCrashes    \* bound on the crashes of instances

ASSUME OutboxAssumption ==
  /\ MaxBookings \in Nat \ {0} /\ MaxEvents \in Nat /\ MaxCrashes \in Nat
  /\ BatchSize \in Nat \ {0} /\ MaxAttempts \in Nat \ {0}

Event == 1..MaxEvents

VARIABLES
  emitted,    \* how many events there are
  bookingOf,  \* outbox_events.bookingId
  status,     \* outbox_events.status
  attempts,   \* outbox_events.attempts
  ran,        \* events whose handler has returned at least once
  at,         \* where each instance is: "idle", "fetch" or "run"
  attempted,  \* attemptedThisTick
  todo,       \* events of the batch not reached yet
  seen,       \* the attempts an instance fetched with each event
  running,    \* events an instance has claimed and not settled
  returned,   \* those of them whose handler has returned
  progress,   \* some event of the batch was marked DONE
  claims,     \* history: events the instance claimed in this tick
  crashes

rows == <<emitted, bookingOf, status, attempts>>
memory == <<at, attempted, todo, seen, running, returned, progress, claims>>
vars == <<rows, ran, memory, crashes>>

SameBooking(e) == {f \in Event : bookingOf[f] = bookingOf[e]}

Init ==
  /\ emitted = 0
  /\ bookingOf = [e \in Event |-> 0]
  /\ status = [e \in Event |-> "NONE"]
  /\ attempts = [e \in Event |-> 0]
  /\ ran = {}
  /\ at = [i \in Instances |-> "idle"]
  /\ attempted = [i \in Instances |-> {}]
  /\ todo = [i \in Instances |-> {}]
  /\ seen = [i \in Instances |-> [e \in Event |-> 0]]
  /\ running = [i \in Instances |-> {}]
  /\ returned = [i \in Instances |-> {}]
  /\ progress = [i \in Instances |-> FALSE]
  /\ claims = [i \in Instances |-> {}]
  /\ crashes = 0

-----------------------------------------------------------------------------
\* outboxEvent.create in a booking's transaction.
Emit ==
  /\ emitted < MaxEvents
  /\ emitted' = emitted + 1
  /\ \E b \in 1..MaxBookings :
       /\ \A c \in 1..(b - 1) : \E e \in Event : bookingOf[e] = c
       /\ bookingOf' = [bookingOf EXCEPT ![emitted'] = b]
  /\ status' = [status EXCEPT ![emitted'] = "PENDING"]
  /\ UNCHANGED <<attempts, ran, memory, crashes>>

\* What a tick keeps in memory goes with it.
EndTick(i) ==
  /\ at' = [at EXCEPT ![i] = "idle"]
  /\ attempted' = [attempted EXCEPT ![i] = {}]
  /\ todo' = [todo EXCEPT ![i] = {}]
  /\ seen' = [seen EXCEPT ![i] = [e \in Event |-> 0]]
  /\ running' = [running EXCEPT ![i] = {}]
  /\ returned' = [returned EXCEPT ![i] = {}]
  /\ progress' = [progress EXCEPT ![i] = FALSE]
  /\ claims' = [claims EXCEPT ![i] = {}]

\* The poll timer starts a tick, or the tick goes on to its next batch; ticks of
\* an instance do not overlap.
Polls(i) == at[i] \in {"idle", "fetch"}

\* Rows left PROCESSING by a crash.
Abandoned == {e \in Event : status[e] = "PROCESSING" /\ \A i \in Instances : e \notin running[i]}

ReapNothing(i) == FALSE /\ UNCHANGED vars

\* At the start of a batch, now and then.
ReapStale(i) ==
  /\ Polls(i)
  /\ Abandoned # {}
  /\ status' = [e \in Event |-> IF e \in Abandoned THEN "PENDING" ELSE status[e]]
  /\ UNCHANGED <<emitted, bookingOf, attempts, ran, memory, crashes>>

\* The oldest BatchSize pending rows.
Batch == {e \in Event : status[e] = "PENDING" /\
            Cardinality({f \in 1..e : status[f] = "PENDING"}) <= BatchSize}

FreshAlways(i) == Batch
\* Rows that already had an attempt in this tick wait for the next one.
Fresh(i) == Batch \ attempted[i]

FetchBatch(i) ==
  /\ Polls(i)
  /\ Fresh(i) # {}
  /\ at' = [at EXCEPT ![i] = "run"]
  /\ attempted' = [attempted EXCEPT ![i] = @ \cup Fresh(i)]
  /\ todo' = [todo EXCEPT ![i] = Fresh(i)]
  /\ seen' = [seen EXCEPT ![i] = [e \in Event |-> IF e \in Fresh(i) THEN attempts[e] ELSE 0]]
  /\ progress' = [progress EXCEPT ![i] = FALSE]
  /\ UNCHANGED <<rows, ran, running, returned, claims, crashes>>

\* The tick ends on a batch with nothing new or, below, one without progress.
FetchNothing(i) ==
  /\ at[i] = "fetch"
  /\ Fresh(i) = {}
  /\ EndTick(i)
  /\ UNCHANGED <<rows, ran, crashes>>

EndBatch(i) ==
  /\ at[i] = "run"
  /\ todo[i] = {} /\ running[i] = {}
  /\ \/ /\ progress[i]
        /\ at' = [at EXCEPT ![i] = "fetch"]
        /\ UNCHANGED <<attempted, todo, seen, running, returned, progress, claims>>
     \/ ~progress[i] /\ EndTick(i)
  /\ UNCHANGED <<rows, ran, crashes>>

-----------------------------------------------------------------------------
(* processGroup and processOne *)

IsNextAnyOrder(i, e) == e \in todo[i] /\ running[i] \cap SameBooking(e) = {}

\* e is the next event of its booking's group.
IsNext(i, e) ==
  /\ e \in todo[i]
  /\ \A f \in todo[i] \cap SameBooking(e) : e <= f
  /\ running[i] \cap SameBooking(e) = {}

StopGroup(i, e) == todo' = [todo EXCEPT ![i] = @ \ SameBooking(e)]

ClaimFetched(i, e) ==
  /\ IsNext(i, e)
  /\ status' = [status EXCEPT ![e] = "PROCESSING"]
  /\ attempts' = [attempts EXCEPT ![e] = @ + 1]
  /\ todo' = [todo EXCEPT ![i] = @ \ {e}]
  /\ running' = [running EXCEPT ![i] = @ \cup {e}]
  /\ claims' = [claims EXCEPT ![i] = @ \cup {e}]
  /\ UNCHANGED <<emitted, bookingOf, ran, at, attempted, seen, returned, progress, crashes>>

\* Succeeds only on a row that is still PENDING.
Claim(i, e) ==
  /\ IsNext(i, e)
  /\ status[e] = "PENDING"
  /\ status' = [status EXCEPT ![e] = "PROCESSING"]
  /\ attempts' = [attempts EXCEPT ![e] = @ + 1]
  /\ todo' = [todo EXCEPT ![i] = @ \ {e}]
  /\ running' = [running EXCEPT ![i] = @ \cup {e}]
  /\ claims' = [claims EXCEPT ![i] = @ \cup {e}]
  /\ UNCHANGED <<emitted, bookingOf, ran, at, attempted, seen, returned, progress, crashes>>

ClaimLost(i, e) ==
  /\ IsNext(i, e)
  /\ status[e] # "PENDING"
  /\ StopGroup(i, e)
  /\ UNCHANGED <<rows, ran, at, attempted, seen, running, returned, progress, claims, crashes>>

InFlight(i) == running[i] \ returned[i]

HandlerReturns(i, e) ==
  /\ e \in InFlight(i)
  /\ returned' = [returned EXCEPT ![i] = @ \cup {e}]
  /\ ran' = ran \cup {e}
  /\ UNCHANGED <<rows, at, attempted, todo, seen, running, progress, claims, crashes>>

MarkDone(i, e) ==
  /\ e \in returned[i]
  /\ status' = [status EXCEPT ![e] = "DONE"]
  /\ running' = [running EXCEPT ![i] = @ \ {e}]
  /\ returned' = [returned EXCEPT ![i] = @ \ {e}]
  /\ seen' = [seen EXCEPT ![i][e] = 0]
  /\ progress' = [progress EXCEPT ![i] = TRUE]
  /\ UNCHANGED <<emitted, bookingOf, attempts, ran, at, attempted, todo, claims, crashes>>

\* The retry budget is counted from the attempts fetched with the event.
AfterFailure(i, e) == IF seen[i][e] + 1 >= MaxAttempts THEN "FAILED" ELSE "PENDING"

Unclaim(i, e) ==
  /\ e \in InFlight(i)
  /\ status' = [status EXCEPT ![e] = AfterFailure(i, e)]
  /\ running' = [running EXCEPT ![i] = @ \ {e}]
  /\ seen' = [seen EXCEPT ![i][e] = 0]
  /\ StopGroup(i, e)

FailureTakenAsDone(i, e) ==
  /\ e \in InFlight(i)
  /\ status' = [status EXCEPT ![e] = "DONE"]
  /\ running' = [running EXCEPT ![i] = @ \ {e}]
  /\ progress' = [progress EXCEPT ![i] = TRUE]
  /\ UNCHANGED <<emitted, bookingOf, attempts, ran, at, attempted, todo, seen, returned, claims, crashes>>

\* It threw or timed out; back to the queue either way.
HandlerFails(i, e) ==
  /\ Unclaim(i, e)
  /\ UNCHANGED <<emitted, bookingOf, attempts, ran, at, attempted, returned, progress, claims, crashes>>

-----------------------------------------------------------------------------
\* The process dies and is started again; its rows stay PROCESSING.
Crash(i) ==
  /\ crashes < MaxCrashes
  /\ at[i] \in {"fetch", "run"}
  /\ crashes' = crashes + 1
  /\ EndTick(i)
  /\ UNCHANGED <<rows, ran>>

-----------------------------------------------------------------------------
Settle(i, e) == HandlerReturns(i, e) \/ HandlerFails(i, e)

Drain(i) ==
  \/ FetchBatch(i) \/ FetchNothing(i) \/ EndBatch(i)
  \/ \E e \in Event : Claim(i, e) \/ ClaimLost(i, e) \/ Settle(i, e) \/ MarkDone(i, e)

Next ==
  \/ Emit
  \/ \E i \in Instances : Drain(i) \/ ReapStale(i) \/ Crash(i)

\* Timers fire and started work goes on; a handler ends or times out; the reaper
\* comes round.  Nothing makes handlers succeed, nor events appear.
Fairness == \A i \in Instances : WF_vars(Drain(i)) /\ SF_vars(ReapStale(i))

Spec == Init /\ [][Next]_vars /\ Fairness

-----------------------------------------------------------------------------
\* Every variable keeps its type.
TypeOK ==
  /\ emitted \in 0..MaxEvents
  /\ bookingOf \in [Event -> 0..MaxBookings]
  /\ status \in [Event -> {"NONE", "PENDING", "PROCESSING", "DONE", "FAILED"}]
  /\ attempts \in [Event -> Nat]
  /\ ran \subseteq Event
  /\ at \in [Instances -> {"idle", "fetch", "run"}]
  /\ attempted \in [Instances -> SUBSET Event]
  /\ todo \in [Instances -> SUBSET Event]
  /\ seen \in [Instances -> [Event -> Nat]]
  /\ running \in [Instances -> SUBSET Event]
  /\ returned \in [Instances -> SUBSET Event]
  /\ progress \in [Instances -> BOOLEAN]
  /\ claims \in [Instances -> SUBSET Event]
  /\ crashes \in 0..MaxCrashes

\* At-least-once: no event is DONE whose handler never returned, whatever
\* instance crashed, timed out or was reaped in between.
DoneMeansRan == \A e \in Event : status[e] = "DONE" => e \in ran

\* The atomic claim "removes the read-then-write double-process race": an event
\* is being processed by one instance, whose row says so until it settles it.
OneOwner ==
  \A i \in Instances : \A e \in running[i] :
    /\ status[e] = "PROCESSING"
    /\ \A j \in Instances \ {i} : e \notin running[j]

\* "Retries are meant to land on a later tick": an instance attempts an event at
\* most once per tick, so a failing provider cannot burn the whole budget at once.
RetryOnLaterTick ==
  [][\A i \in Instances : (running'[i] \ running[i]) \cap claims[i] = {}]_vars

Promise == INSTANCE Delivery WITH
  Event <- Event, Booking <- 1..MaxBookings, MaxAttempts <- MaxAttempts,
  bookingOf <- bookingOf, status <- status, attempts <- attempts

\* "Causally ordered", as far as it goes: whatever instances, batches and crashes
\* interleave, no event is taken up before the first one of its booking was, and
\* rows move by whole deliveries within the retry budget.
DeliverySpec == Promise!Spec

\* Every event is settled: none is left for ever behind a failing one of its
\* booking, or in the hands of a crashed instance.
EventuallySettled ==
  \A e \in Event : status[e] = "PENDING" ~> status[e] \in {"DONE", "FAILED"}
=============================================================================
