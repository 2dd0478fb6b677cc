------------------------------ MODULE TripPage ------------------------------
(***************************************************************************)
(* A guest's trip: the page that shows a booking, quotes a cancellation,   *)
(* cancels, discards and archives, and the routes behind it.  The host may *)
(* cancel too and an administrator refund, the events of the payment may   *)
(* arrive, again or late, the stay may end and the next tier of the policy *)
(* may begin at any time; any answer may be lost.  The booking has one     *)
(* charge.                                                                 *)
(***************************************************************************)
EXTENDS Naturals

VARIABLES
  trip,     \* the booking: flow, status, payments row, archived, the percent refunded now
  refund,   \* the latest row of refunds of a cancellation, and the percent it refunds
  owed,     \* percent a committed cancellation has still to ask for
  refunded, \* percent of the refunds that succeeded
  view,     \* what the page last loaded
  quote,    \* the quote on the page, and whether the confirmation is open
  call,     \* the page's request under way, and its answer
  outcome,  \* of the page's cancellation: what it quoted and what it refunds
  read,     \* the status of the payment a cancellation under way read
  goodwill  \* whether an administrator has refunded anything

tripPageVars == <<trip, refund, owed, refunded, view, quote, call, outcome, read, goodwill>>

Percents == {0, 50, 100}
Statuses == {"pending_payment", "confirmed", "cancelled", "completed", "refunded",
             "disputed"}
Archivable == {"cancelled", "completed", "refunded"}
NewFlow == "separate_charges_delayed_v1"
Flows == {NewFlow, "destination_charge_legacy"}
Payments == {"none", "paid", "failed", "partially_refunded", "refunded"}
RefundRows == {"none", "pending", "succeeded", "failed"}
Answers == {"none", "sent", "success", "error"}
Cancellers == {"guest", "host"}
Unread == "unread"

Trips == [flow : Flows, status : Statuses, payment : Payments,
          archived : BOOLEAN, percent : Percents]
Refunds == [row : RefundRows, percent : Percents]
Views == [load : {"loading", "unauthenticated", "error", "loaded", "left"},
          status : Statuses, archived : BOOLEAN]
Quotes == [eligible : BOOLEAN, percent : Percents, open : BOOLEAN]
Calls == [kind : {"none", "cancel", "discard", "archive"}, answer : Answers]
Outcomes == [done : BOOLEAN, quoted : Percents, refunded : Percents]

TypeOK ==
  /\ trip \in Trips /\ refund \in Refunds /\ owed \in Percents /\ refunded \in Percents
  /\ view \in Views /\ quote \in Quotes /\ call \in Calls /\ outcome \in Outcomes
  /\ read \in [Cancellers -> Payments \cup {Unread}] /\ goodwill \in BOOLEAN

Idle == [kind |-> "none", answer |-> "none"]
NoQuote == [eligible |-> FALSE, percent |-> 0, open |-> FALSE]

Init ==
  /\ \E f \in Flows, p \in Percents :
       trip = [flow |-> f, status |-> "pending_payment", payment |-> "none",
               archived |-> FALSE, percent |-> p]
  /\ refund = [row |-> "none", percent |-> 0] /\ owed = 0 /\ refunded = 0
  /\ view = [load |-> "loading", status |-> "pending_payment", archived |-> FALSE]
  /\ quote = NoQuote /\ call = Idle
  /\ outcome = [done |-> FALSE, quoted |-> 0, refunded |-> 0]
  /\ read = [c \in Cancellers |-> Unread] /\ goodwill = FALSE

server == <<trip, refund, owed, refunded, outcome, read, goodwill>>

-----------------------------------------------------------------------------
(* The page.                                                               *)

GetBookingDetail ==
  [load |-> "loaded", status |-> trip.status, archived |-> trip.archived]

LoadBooking ==
  /\ view.load = "loading"
  /\ view' \in {GetBookingDetail, [view EXCEPT !.load = "error"],
                [view EXCEPT !.load = "unauthenticated"]}
  /\ UNCHANGED <<server, quote, call>>

Reload ==
  /\ view.load # "loading" /\ view' = [view EXCEPT !.load = "loading"]
  /\ quote' = NoQuote /\ call.kind = "none"
  /\ UNCHANGED <<server, call>>

\* Only the policy and the status are asked, never whether there is a payment
\* to refund.
CancellationQuote ==
  [eligible |-> trip.status \in {"confirmed", "pending_payment"},
   percent |-> trip.percent, open |-> TRUE]

RequestQuote ==
  /\ view.load = "loaded" /\ view.status = "confirmed" /\ ~quote.open
  /\ quote' = CancellationQuote
  /\ UNCHANGED <<server, view, call>>

KeepBooking ==
  /\ quote.open /\ call.kind = "none" /\ quote' = [quote EXCEPT !.open = FALSE]
  /\ UNCHANGED <<server, view, call>>

Ask(kind) ==
  /\ view.load = "loaded" /\ call.kind = "none"
  /\ call' = [kind |-> kind, answer |-> "sent"]
  /\ UNCHANGED <<server, view, quote>>

ConfirmCancel == quote.open /\ quote.eligible /\ Ask("cancel")

ManageHistory ==
  \/ view.status = "pending_payment" /\ Ask("discard")
  \/ view.status \in Archivable /\ ~view.archived /\ Ask("archive")

\* An error leaves the page as it was, the confirmation open.
CancelAnswered ==
  /\ call.kind = "cancel" /\ call.answer \in {"success", "error"}
  /\ call' = Idle
  /\ IF call.answer = "success"
     THEN quote' = [quote EXCEPT !.open = FALSE] /\ view' = [view EXCEPT !.load = "loading"]
     ELSE UNCHANGED <<quote, view>>
  /\ UNCHANGED server

HistoryAnswered ==
  /\ call.kind \in {"discard", "archive"} /\ call.answer \in {"success", "error"}
  /\ call' = Idle
  /\ view' = IF call.answer = "success" THEN [view EXCEPT !.load = "left"] ELSE view
  /\ UNCHANGED <<server, quote>>

-----------------------------------------------------------------------------
(* The routes.                                                             *)

Answer(a) == call' \in {[call EXCEPT !.answer = a], [call EXCEPT !.answer = "error"]}

\* (TakesCancelled, a mutated form, cancels a cancelled booking again.)
TakesCancelled == trip.status \in {"confirmed", "pending_payment", "cancelled"}
Cancellable == trip.status \in {"confirmed", "pending_payment"}

\* One statement reads the booking, which it locks, and the payment, which it does
\* not: where it waits, the booking is read anew and the payment is not.
ReadsPayment(c) ==
  /\ read[c] = Unread /\ read' = [read EXCEPT ![c] = trip.payment]
  /\ UNCHANGED <<trip, refund, owed, refunded, outcome, goodwill, view, quote, call>>

RefundedPercent(payment) == IF payment = "paid" THEN trip.percent ELSE 0

\* One transaction; the refund is asked for after its commit.
Cancel(c) ==
  /\ Cancellable
  /\ trip' = [trip EXCEPT !.status = "cancelled"]
  /\ owed' = RefundedPercent(read[c])
  /\ UNCHANGED <<refund, refunded, goodwill>>

Ends(c) == read[c] # Unread /\ read' = [read EXCEPT ![c] = Unread]

CancelRoute ==
  /\ call = [kind |-> "cancel", answer |-> "sent"]
  /\ \/ ReadsPayment("guest")
     \/ /\ Ends("guest") /\ Cancel("guest") /\ Answer("success")
        /\ outcome' = [done |-> TRUE, quoted |-> quote.percent,
                       refunded |-> RefundedPercent(read["guest"])]
        /\ UNCHANGED <<view, quote>>
     \/ /\ Ends("guest") /\ Answer("error")
        /\ UNCHANGED <<trip, refund, owed, refunded, outcome, goodwill, view, quote>>

HostCancels ==
  \/ ReadsPayment("host")
  \/ Ends("host") /\ Cancel("host") /\ UNCHANGED <<outcome, view, quote, call>>
  \/ /\ Ends("host")
     /\ UNCHANGED <<trip, refund, owed, refunded, outcome, goodwill, view, quote, call>>

\* The row of refunds and the request to Stripe; the process may die before it,
\* and the request may fail.
InitiateRefund ==
  /\ owed > 0 /\ owed' = 0
  /\ refund' \in {refund, [row |-> "pending", percent |-> owed]}
  /\ UNCHANGED <<trip, refunded, outcome, read, goodwill, view, quote, call>>

\* An unpaid booking is cancelled and hidden at once.
DiscardRoute ==
  /\ call = [kind |-> "discard", answer |-> "sent"]
  /\ \/ /\ trip.status = "pending_payment"
        /\ trip' = [trip EXCEPT !.status = "cancelled", !.archived = TRUE]
        /\ Answer("success")
     \/ UNCHANGED trip /\ Answer("error")
  /\ UNCHANGED <<refund, owed, refunded, outcome, read, goodwill, view, quote>>

ArchiveRoute ==
  /\ call = [kind |-> "archive", answer |-> "sent"]
  /\ \/ /\ trip.status \in Archivable /\ ~trip.archived
        /\ trip' = [trip EXCEPT !.archived = TRUE] /\ Answer("success")
     \/ UNCHANGED trip /\ Answer("error")
  /\ UNCHANGED <<refund, owed, refunded, outcome, read, goodwill, view, quote>>

-----------------------------------------------------------------------------
(* What happens to the booking elsewhere.                                  *)

page == <<owed, outcome, read, view, quote, call>>

Paying == IF trip.status = "pending_payment" THEN "confirmed" ELSE trip.status

\* Only the legacy flow has a row of payments.  Its event makes the payment paid
\* whatever else it was: a delivery that comes again, after a refund, does too.
PaymentSucceeds ==
  /\ IF trip.flow = NewFlow
     THEN trip.status = "pending_payment" /\ trip' = [trip EXCEPT !.status = "confirmed"]
     ELSE /\ trip.payment # "paid"
          /\ trip' = [trip EXCEPT !.payment = "paid", !.status = Paying]
  /\ UNCHANGED <<refund, refunded, goodwill, page>>

\* The event of an attempt that failed may come late.
PaymentFails ==
  /\ trip.flow # NewFlow /\ trip' = [trip EXCEPT !.payment = "failed"]
  /\ UNCHANGED <<refund, refunded, goodwill, page>>

\* A dispute, too, is found by the row of payments.
DisputeCreated ==
  /\ trip.flow # NewFlow /\ trip.payment # "none"
  /\ trip' = [trip EXCEPT !.status = "disputed"]
  /\ UNCHANGED <<refund, refunded, goodwill, page>>

StayEnds ==
  /\ trip.status = "confirmed" /\ trip' = [trip EXCEPT !.status = "completed"]
  /\ UNCHANGED <<refund, refunded, goodwill, page>>

NextTier ==
  /\ trip.percent > 0 /\ trip' = [trip EXCEPT !.percent = trip.percent - 50]
  /\ UNCHANGED <<refund, refunded, goodwill, page>>

\* A refund in part makes the booking confirmed, whatever it was.
Refunded(percent) ==
  IF percent >= 100 THEN [trip EXCEPT !.status = "refunded", !.payment = "refunded"]
                    ELSE [trip EXCEPT !.status = "confirmed", !.payment = "partially_refunded"]

\* Stripe refuses to refund more than was paid.
Settles(percent) ==
  /\ refunded + percent <= 100 /\ refunded' = refunded + percent
  /\ trip' = Refunded(refunded + percent)

RefundSettles ==
  /\ refund.row = "pending"
  /\ \/ refund' = [refund EXCEPT !.row = "succeeded"] /\ Settles(refund.percent)
     \/ refund' = [refund EXCEPT !.row = "failed"] /\ UNCHANGED <<trip, refunded>>
  /\ UNCHANGED <<goodwill, page>>

\* POST /api/admin/refunds and the event of its refund, in one step (LegacyPayments has
\* the steps): a half stands for any part.
AdminRefunds ==
  /\ trip.payment \in {"paid", "partially_refunded"}
  /\ \E percent \in Percents \ {0} : Settles(percent)
  /\ goodwill' = TRUE
  /\ UNCHANGED <<refund, page>>

TripDetailPage == RequestQuote \/ KeepBooking \/ ConfirmCancel \/ ManageHistory

Next ==
  \/ LoadBooking \/ Reload \/ TripDetailPage \/ CancelAnswered \/ HistoryAnswered
  \/ CancelRoute \/ HostCancels \/ InitiateRefund \/ DiscardRoute \/ ArchiveRoute
  \/ PaymentSucceeds \/ PaymentFails \/ DisputeCreated \/ StayEnds \/ NextTier \/ RefundSettles
  \/ AdminRefunds

Spec == Init /\ [][Next]_tripPageVars

-----------------------------------------------------------------------------
(* Without an administrator's refund, what a booking's cancellations ask   *)
(* to refund, with what was refunded before, is never more than was paid,  *)
(* and no cancellation asks while the refund of another is pending:        *)
(* whoever cancels, however often a guest whose answer was lost confirms   *)
(* again, though a refund in part makes the booking confirmed again,       *)
(* though an event delivered again makes the payment paid again, and       *)
(* though a cancellation that waited for the booking still takes it for    *)
(* paid (cancelBooking.ts, webhookHandler.ts).  An administrator's refund  *)
(* in part makes a cancelled booking confirmed as well, with the refund of *)
(* its cancellation still to come; cancelled again, it may ask for more    *)
(* than is left, which Stripe refuses.                                     *)
PendingPercent == IF refund.row = "pending" THEN refund.percent ELSE 0
RefundsFit ==
  ~goodwill =>
    refunded + PendingPercent + owed <= 100 /\ (owed > 0 => refund.row # "pending")

(* What a guest is quoted is what the cancellation refunds: "so a quote    *)
(* can never drift from what actually happens when the guest confirms"     *)
(* (cancellation-quote/route.ts).                                          *)
QuoteIsKept == outcome.done => outcome.refunded = outcome.quoted

-----------------------------------------------------------------------------
(* What the steps keep, and rely on.                                       *)

\* A booking that can be cancelled, or is completed, has no refund under way, and the
\* percents only fall: what is still to be refunded covers what its policy gives.
Covered == ~goodwill =>
  /\ trip.status \in {"pending_payment", "confirmed", "completed"} =>
       owed = 0 /\ refund.row # "pending"
  /\ trip.status \in {"pending_payment", "confirmed"} => refunded + trip.percent <= 100
  /\ trip.status = "pending_payment" => refunded = 0
  /\ refunded > 0 => trip.percent <= refunded
  /\ owed > 0 => trip.percent <= owed
  /\ PendingPercent > 0 => trip.percent <= PendingPercent

Inv == TypeOK /\ Covered /\ RefundsFit
=============================================================================
