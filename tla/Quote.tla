-------------------------------- MODULE Quote --------------------------------
(***************************************************************************)
(* BookingQuoteService for ONE quote: assessors draft its lines, ops       *)
(* reviews it, it is sent with the sum of its lines or priced firmly, and  *)
(* the customer accepts it, which creates a booking at that price or less. *)
(*                                                                         *)
(* No call opens a transaction: each reads the quote, decides, and writes  *)
(* by id in statements of their own, which are separate steps here.  Calls *)
(* overlap and may end between two statements (GiveUp).  A line is its     *)
(* total in fils; createBooking is one step, detailed in Intake, whose     *)
(* proofs are kept together with these: no name is in both modules.        *)
(***************************************************************************)
EXTENDS Naturals, Sequences, FiniteSets, Functions

CONSTANTS
  Callers,       \* concurrent calls
  Lines,         \* lines an assessor may add
  OffCatalogue,  \* the MATERIAL lines without a materialId
  Prices,        \* totals a line may get
  Firm,          \* firm prices of setQuote
  Threshold,     \* OPS_REVIEW_THRESHOLD_FILS
  Reductions,    \* what a subscription and wallet credit may take off a price
  MaxCreated     \* bound on the bookings

ASSUME QuoteAssumption ==
  /\ OffCatalogue \subseteq Lines /\ IsFiniteSet(Lines)
  /\ Prices \subseteq Nat \ {0} /\ Firm \subseteq Nat \ {0}
  /\ Reductions \subseteq Nat
  /\ Threshold \in Nat /\ MaxCreated \in Nat

VARIABLES
  status,     \* bookingQuote.status
  lines,      \* the quoteLine rows: their totals, 0 for no row
  total,      \* labourFils + materialsFils + feesFils
  reviewed,   \* opsReviewedAt is not null
  quoted,     \* quotedJod, 0 for null
  itemized,   \* the price was set by sendItemizedQuote
  lapsed,     \* expiresAt has passed
  booking,    \* bookingId, an index of `created', 0 for null
  created,    \* the bookings created from the quote: priceOverrideJod and totalJod
  calls,
  disturbed   \* history: two calls overlapped, or one ended half-way

quote == <<status, lines, total, reviewed, quoted, itemized, lapsed, booking>>
quoteVars == <<quote, created, calls, disturbed>>

NoCall == [at |-> "idle", line |-> "none", amt |-> 0]

QuoteInit ==
  /\ status = "PENDING" /\ lines = [l \in Lines |-> 0] /\ total = 0
  /\ reviewed = FALSE /\ quoted = 0 /\ itemized = FALSE /\ lapsed = FALSE
  /\ booking = 0 /\ created = <<>>
  /\ calls = [w \in Callers |-> NoCall] /\ disturbed = FALSE

CallAt(w, point) == calls[w].at = point
Sum == SumFunctionOnSet(lines, Lines)
Present == {l \in Lines : lines[l] > 0}

Start(w, job) ==
  /\ CallAt(w, "idle")
  /\ calls' = [calls EXCEPT ![w] = job]
  /\ disturbed' = (disturbed \/ \E v \in Callers : ~CallAt(v, "idle"))
  /\ UNCHANGED <<quote, created>>

Write(w, next) == calls' = [calls EXCEPT ![w] = next] /\ UNCHANGED disturbed

-----------------------------------------------------------------------------
(* Drafting: a line is only touched while the quote is read as PENDING. *)

\* addLine, updateLine and (with no price) removeLine.
Draft(w) ==
  /\ status = "PENDING"
  /\ \E l \in Lines, p \in Prices \cup {0} :
       /\ p = 0 => lines[l] > 0
       /\ Start(w, [at |-> "line", line |-> l, amt |-> p])

WriteLine(w) ==
  /\ CallAt(w, "line")
  /\ lines' = [lines EXCEPT ![calls[w].line] = calls[w].amt]
  /\ Write(w, [NoCall EXCEPT !.at = "sum"])
  /\ UNCHANGED <<status, total, reviewed, quoted, itemized, lapsed, booking, created>>

\* recomputeTotals sums the rows and then writes the quote.
ReadLines(w) ==
  /\ CallAt(w, "sum")
  /\ Write(w, [NoCall EXCEPT !.at = "total", !.amt = Sum])
  /\ UNCHANGED <<quote, created>>

WriteTotal(w) ==
  /\ CallAt(w, "total")
  /\ total' = calls[w].amt
  /\ Write(w, NoCall)
  /\ UNCHANGED <<status, lines, reviewed, quoted, itemized, lapsed, booking, created>>

-----------------------------------------------------------------------------
OpsReview(w) == status = "PENDING" /\ Start(w, [NoCall EXCEPT !.at = "review"])

WriteReview(w) ==
  /\ CallAt(w, "review")
  /\ reviewed' = TRUE
  /\ Write(w, NoCall)
  /\ UNCHANGED <<status, lines, total, quoted, itemized, lapsed, booking, created>>

NeedsReview == total >= Threshold \/ Present \cap OffCatalogue # {}

SendUnreviewed(w) ==
  /\ status = "PENDING" /\ Present # {}
  /\ Start(w, [NoCall EXCEPT !.at = "send", !.amt = total])

\* sendItemizedQuote reads quote, lines and review at once.
SendItemized(w) ==
  /\ status = "PENDING" /\ Present # {}
  /\ NeedsReview => reviewed
  /\ Start(w, [NoCall EXCEPT !.at = "send", !.amt = total])

SetQuote(w) ==
  /\ status = "PENDING"
  /\ \E p \in Firm : Start(w, [NoCall EXCEPT !.at = "firm", !.amt = p])

WriteQuoted(w) ==
  /\ calls[w].at \in {"send", "firm"}
  /\ status' = "QUOTED" /\ quoted' = calls[w].amt /\ itemized' = CallAt(w, "send")
  /\ Write(w, NoCall)
  /\ UNCHANGED <<lines, total, reviewed, lapsed, booking, created>>

-----------------------------------------------------------------------------
AcceptAnyStatus(w) ==
  /\ quoted > 0
  /\ Start(w, [NoCall EXCEPT !.at = IF lapsed THEN "expire" ELSE "create", !.amt = quoted])

Accept(w) ==
  /\ status = "QUOTED"
  /\ Start(w, [NoCall EXCEPT !.at = IF lapsed THEN "expire" ELSE "create", !.amt = quoted])

WriteExpired(w) ==
  /\ CallAt(w, "expire")
  /\ status' = "EXPIRED"
  /\ Write(w, NoCall)
  /\ UNCHANGED <<lines, total, reviewed, quoted, itemized, lapsed, booking, created>>

\* createBooking takes the price the call has read as the list price, and off it
\* the discount of the customer's subscription and the wallet credit.
CreateBooking(w) ==
  /\ CallAt(w, "create")
  /\ Len(created) < MaxCreated
  /\ \E off \in {0} \cup Reductions :
       /\ off <= calls[w].amt
       /\ created' = Append(created, [price |-> calls[w].amt, total |-> calls[w].amt - off])
  /\ Write(w, [NoCall EXCEPT !.at = "link", !.amt = Len(created')])
  /\ UNCHANGED quote

LinkBooking(w) ==
  /\ CallAt(w, "link")
  /\ status' = "ACCEPTED" /\ booking' = calls[w].amt
  /\ Write(w, NoCall)
  /\ UNCHANGED <<lines, total, reviewed, quoted, itemized, lapsed, created>>

-----------------------------------------------------------------------------
Lapse ==
  /\ ~lapsed
  /\ lapsed' = TRUE
  /\ UNCHANGED <<status, lines, total, reviewed, quoted, itemized, booking, created, calls,
                 disturbed>>

GiveUp(w) ==
  /\ ~CallAt(w, "idle")
  /\ calls' = [calls EXCEPT ![w] = NoCall] /\ disturbed' = TRUE
  /\ UNCHANGED <<quote, created>>

QuoteNext ==
  \/ Lapse
  \/ \E w \in Callers :
       \/ Draft(w) \/ WriteLine(w) \/ ReadLines(w) \/ WriteTotal(w)
       \/ OpsReview(w) \/ WriteReview(w)
       \/ SendItemized(w) \/ SetQuote(w) \/ WriteQuoted(w)
       \/ Accept(w) \/ WriteExpired(w) \/ CreateBooking(w) \/ LinkBooking(w)
       \/ GiveUp(w)

QuoteSpec == QuoteInit /\ [][QuoteNext]_quoteVars

-----------------------------------------------------------------------------
Priced == status \in {"QUOTED", "ACCEPTED"}

\* However calls overlap, no quote at or above the threshold goes out with the sum
\* of its lines unless ops have reviewed it.
ReviewGate == Priced /\ itemized /\ quoted >= Threshold => reviewed

\* The quote's one booking: listed at the price that was accepted, and charged no
\* more.  It may be less, whatever accept's "at exactly `quotedJod`" says.
BookedAtQuote ==
  booking = 1 /\ \E due \in 0..quoted : created = <<[price |-> quoted, total |-> due]>>

\* Taken one at a time the calls keep the quote's promise: what was sent is what
\* the lines add up to and stays so, off-catalogue lines went through ops, and
\* an accepted quote has its one booking, listed at its price and charged that
\* or less, and no other quote has any.
SerialQuote ==
  ~disturbed /\ (\A w \in Callers : CallAt(w, "idle")) =>
    /\ total = Sum
    /\ Priced /\ itemized => quoted = Sum /\ (Present \cap OffCatalogue # {} => reviewed)
    /\ IF status = "ACCEPTED" THEN BookedAtQuote ELSE created = <<>> /\ booking = 0

\* "a quote that already produced a booking cannot be accepted twice (status guard)".
AcceptedOnce == Len(created) <= 1
=============================================================================
