--------------------------- MODULE LegacyPayments ---------------------------
(***************************************************************************)
(* The money of one booking that is paid at checkout: its payments row, the *)
(* PaymentIntents and refunds at Stripe, the refunds, ledger_entries and    *)
(* payouts rows, and what writes them: checkout requests, Stripe's webhooks *)
(* (delivered at least once, in any order), cancellations, admins' refunds  *)
(* and the sweep.                                                           *)
(*                                                                         *)
(* A request that talks to Stripe runs outside any transaction, so it is    *)
(* split at every call; a webhook's transaction is one action.              *)
(***************************************************************************)
EXTENDS Integers, FiniteSets, FiniteSetsExt

CONSTANTS
  Checkouts,    \* concurrent POST /api/payments/intent
  Refunders,    \* concurrent cancellations and POST /api/admin/refunds
  Reasons,      \* of a refund
  MaxIntents,   \* bound: PaymentIntents created for the booking
  MaxRefunds,   \* bound: rows of refunds
  MaxStripe,    \* bound: refunds at Stripe
  ListLimit,    \* of Stripe's refunds, a list holds the latest so many (20)
  Total,        \* guest_total_minor
  HostPayout,   \* host_payout_minor
  Amounts       \* what a cancellation or an admin may refund

ASSUME AmountsAssumption ==
  /\ MaxIntents \in Nat /\ MaxRefunds \in Nat /\ MaxStripe \in Nat /\ ListLimit \in Nat
  /\ Total \in Nat \ {0} /\ HostPayout \in 0..Total
  /\ Amounts \subseteq 1..Total

IntentNo == 1..MaxIntents
RefundNo == 1..MaxRefunds
StripeNo == 1..MaxStripe

VARIABLES
  booking,    \* bookings.status
  payment,    \* the payments row: its intent and status
  intents,    \* Stripe's PaymentIntents
  checkout,   \* the progress of each checkout request
  refunds,    \* the rows of refunds
  stripe,     \* Stripe's refunds
  refunder,   \* the progress of each refund request
  ledger,     \* sums over ledger_entries
  payout      \* the payouts row

vars == <<booking, payment, intents, checkout, refunds, stripe, refunder, ledger, payout>>
stripeVars == <<intents, stripe>>
requestVars == <<checkout, refunder>>
bookVars == <<ledger, payout>>

Bookings == {"pending_payment", "confirmed", "completed", "cancelled", "refunded", "disputed"}
Payments == [intent : 0..MaxIntents,
             status : {"none", "pending", "paid", "failed", "partially_refunded", "refunded"}]
\* shown: the guest's browser has its secret.
Intents == [status : {"none", "open", "processing", "succeeded"}, shown : BOOLEAN]
CheckoutStates == [step : {"idle", "retrieving", "creating", "saving"}, intent : 0..MaxIntents]
\* link: provider_refund_id.
Refunds == [status : {"none", "pending", "succeeded", "failed"},
            amount : 0..Total, reason : Reasons \cup {"none"}, link : 0..MaxStripe]
\* row: metadata.host_refund_id; keyed: Stripe still remembers its idempotency
\* key.
StripeRefunds == [status : {"none", "pending", "succeeded", "failed"},
                  intent : 0..MaxIntents, row : 0..MaxRefunds, keyed : BOOLEAN]
RefunderStates ==
  [step : {"idle", "checked", "inserting", "listing", "calling", "linking"}, amount : 0..Total,
   reason : Reasons \cup {"none"}, intent : 0..MaxIntents, row : 0..MaxRefunds,
   refund : 0..MaxStripe]

TypeOK ==
  /\ booking \in Bookings
  /\ payment \in Payments
  /\ intents \in [IntentNo -> Intents]
  /\ checkout \in [Checkouts -> CheckoutStates]
  /\ refunds \in [RefundNo -> Refunds]
  /\ stripe \in [StripeNo -> StripeRefunds]
  /\ refunder \in [Refunders -> RefunderStates]
  /\ ledger \in [charges : Nat, refunded : Nat, reversed : Int]
  /\ payout \in [status : {"none", "scheduled", "cancelled"}, amount : Int]

NoIntent == [status |-> "none", shown |-> FALSE]
NoCheckout == [step |-> "idle", intent |-> 0]
NoRefund == [status |-> "none", amount |-> 0, reason |-> "none", link |-> 0]
NoStripeRefund == [status |-> "none", intent |-> 0, row |-> 0, keyed |-> FALSE]
NoRequest ==
  [step |-> "idle", amount |-> 0, reason |-> "none", intent |-> 0, row |-> 0, refund |-> 0]

Init ==
  /\ booking = "pending_payment"
  /\ payment = [intent |-> 0, status |-> "none"]
  /\ intents = [i \in IntentNo |-> NoIntent]
  /\ checkout = [c \in Checkouts |-> NoCheckout]
  /\ refunds = [r \in RefundNo |-> NoRefund]
  /\ stripe = [n \in StripeNo |-> NoStripeRefund]
  /\ refunder = [u \in Refunders |-> NoRequest]
  /\ ledger = [charges |-> 0, refunded |-> 0, reversed |-> 0]
  /\ payout = [status |-> "none", amount |-> 0]

\* The rows with one of these statuses, summed: each minor unit of each of them, counted.
Units(status) ==
  {p \in RefundNo \X (1..Total) :
     refunds[p[1]].status \in status /\ p[2] <= refunds[p[1]].amount}
RefundedBy(status) == Cardinality(Units(status))

\* The first unused place of a table.
IsNext(table, k) == \A j \in 1..k : table[j].status = "none" <=> j = k

-----------------------------------------------------------------------------
(* Checkout: createPaymentIntentForBooking. *)

ReadPayment(c) ==
  /\ checkout[c].step = "idle"
  /\ booking = "pending_payment"
  /\ payment.status # "paid"
  /\ checkout' = [checkout EXCEPT ![c] =
       [step |-> IF payment.intent = 0 THEN "creating" ELSE "retrieving",
        intent |-> payment.intent]]
  /\ UNCHANGED <<booking, payment, refunds, refunder, stripeVars, bookVars>>

\* REUSABLE_INTENT_STATUSES: requires_payment_method, _confirmation, _action.
Reusable(i) == intents[i].status = "open"

RetrieveIntent(c) ==
  /\ checkout[c].step = "retrieving"
  /\ checkout' = [checkout EXCEPT ![c] =
       IF Reusable(checkout[c].intent) THEN NoCheckout ELSE [@ EXCEPT !.step = "creating"]]
  /\ UNCHANGED <<booking, payment, refunds, refunder, stripeVars, bookVars>>

CreateIntent(c) ==
  /\ checkout[c].step = "creating"
  /\ \E i \in IntentNo :
       /\ IsNext(intents, i)
       /\ intents' = [intents EXCEPT ![i].status = "open"]
       /\ checkout' = [checkout EXCEPT ![c] = [step |-> "saving", intent |-> i]]
  /\ UNCHANGED <<booking, payment, refunds, stripe, refunder, bookVars>>

\* INSERT ... ON CONFLICT (booking_id) DO UPDATE, whatever the row was.
SaveIntent(c) ==
  /\ checkout[c].step = "saving"
  /\ payment' = [intent |-> checkout[c].intent, status |-> "pending"]
  /\ intents' = [intents EXCEPT ![checkout[c].intent].shown = TRUE]
  /\ checkout' = [checkout EXCEPT ![c] = NoCheckout]
  /\ UNCHANGED <<booking, refunds, refunder, stripe, bookVars>>

\* The process dies, or a call fails.
CheckoutDies(c) ==
  /\ checkout[c].step # "idle"
  /\ checkout' = [checkout EXCEPT ![c] = NoCheckout]
  /\ UNCHANGED <<booking, payment, refunds, refunder, stripeVars, bookVars>>

-----------------------------------------------------------------------------
(* Stripe and the guest's browser. *)

GuestPays(i) ==
  /\ intents[i].status = "open" /\ intents[i].shown
  /\ intents' = [intents EXCEPT ![i].status = "processing"]
  /\ UNCHANGED <<booking, payment, refunds, stripe, requestVars, bookVars>>

PaymentSettles(i) ==
  /\ intents[i].status = "processing"
  /\ \/ intents' = [intents EXCEPT ![i].status = "succeeded"]
     \/ intents' = [intents EXCEPT ![i].status = "open"]
  /\ UNCHANGED <<booking, payment, refunds, stripe, requestVars, bookVars>>

RefundSettles(n) ==
  /\ stripe[n].status = "pending"
  /\ \E status \in {"succeeded", "failed"} : stripe' = [stripe EXCEPT ![n].status = status]
  /\ UNCHANGED <<booking, payment, intents, refunds, requestVars, bookVars>>

\* After a day or so Stripe forgets an idempotency key.  No request lasts as long.
KeyExpires(n) ==
  /\ stripe[n].keyed
  /\ \A u \in Refunders : refunder[u].row # stripe[n].row
  /\ stripe' = [stripe EXCEPT ![n].keyed = FALSE]
  /\ UNCHANGED <<booking, payment, intents, refunds, requestVars, bookVars>>

-----------------------------------------------------------------------------
(* Webhooks.  An event that exists may be delivered any number of times. *)

\* (ConfirmableAnyway, a mutated form, lacks the guard on the booking's status.)
ConfirmableAnyway == TRUE
Confirmable == booking = "pending_payment"

OnPaymentSucceeded(i) ==
  /\ intents[i].status = "succeeded"
  /\ ~(payment.intent = i /\ payment.status = "paid")
  /\ payment' = IF payment.intent = i THEN [payment EXCEPT !.status = "paid"] ELSE payment
  /\ IF Confirmable
     THEN /\ booking' = "confirmed"
          /\ ledger' = [ledger EXCEPT !.charges = @ + 1]
          /\ payout' = [status |-> "scheduled", amount |-> HostPayout]
     ELSE UNCHANGED <<booking, bookVars>>
  /\ UNCHANGED <<refunds, stripeVars, requestVars>>

\* A failed attempt leaves an intent as it was, so any intent the guest has seen may
\* have an event of one.
OnPaymentFailed(i) ==
  /\ intents[i].shown
  /\ payment.intent = i
  /\ payment' = [payment EXCEPT !.status = "failed"]
  /\ UNCHANGED <<booking, refunds, stripeVars, requestVars, bookVars>>

\* computeRefundReversalEntries: what is reversed is the rounded share of all that
\* is refunded, less what was reversed before.  (IncrementOfSlice, a mutated form,
\* rounds each refund by itself.)
Round(n, d) == (2 * n + d) \div (2 * d)
IncrementOfSlice(amount, cumulative) == Round(HostPayout * amount, Total)
Increment(amount, cumulative) == Round(HostPayout * cumulative, Total) - ledger.reversed

\* (MatchedAgain, a mutated form, lacks the guard against a second delivery, and
\* StatusOfBooking writes the booking's status to the payment.)
MatchedAgain(r, n) == refunds[r].link = n
Matched(r, n) == refunds[r].link = n /\ refunds[r].status # "succeeded"
StatusOfBooking(full) == IF full THEN "refunded" ELSE "confirmed"
StatusAfterRefund(full) == IF full THEN "refunded" ELSE "partially_refunded"

\* What a refund's success does to the booking's money.  A cumulative amount above
\* the charge throws, and the transaction is rolled back.
RecordRefund(r) ==
  LET cumulative == RefundedBy({"succeeded"})
                      + IF refunds[r].status = "succeeded" THEN 0 ELSE refunds[r].amount
      full == cumulative = Total
      increment == Increment(refunds[r].amount, cumulative) IN
  /\ cumulative <= Total
  /\ refunds' = [refunds EXCEPT ![r].status = "succeeded"]
  /\ payment' = [payment EXCEPT !.status = StatusAfterRefund(full)]
  /\ booking' = IF full THEN "refunded" ELSE "confirmed"
  /\ ledger' = [ledger EXCEPT !.refunded = @ + refunds[r].amount, !.reversed = @ + increment]
  /\ payout' = IF payout.status # "scheduled" THEN payout
               ELSE IF full THEN [payout EXCEPT !.status = "cancelled"]
               ELSE [payout EXCEPT !.amount = @ - (IF increment > 0 THEN increment ELSE 0)]

\* refund.created or refund.updated with status succeeded; one that matches no row,
\* because the UPDATE that stores the id is still to come, is acknowledged and dropped.
OnRefundEvent(n) ==
  /\ stripe[n].status = "succeeded"
  /\ \/ /\ payment.intent = stripe[n].intent
        /\ \E r \in RefundNo : Matched(r, n) /\ RecordRefund(r)
     \/ /\ payment.intent = stripe[n].intent => \A r \in RefundNo : ~Matched(r, n)
        /\ UNCHANGED <<booking, payment, refunds, bookVars>>
  /\ UNCHANGED <<intents, stripe, requestVars>>

OnRefundFailed(n) ==
  /\ stripe[n].status = "failed"
  /\ \E r \in RefundNo :
       /\ Matched(r, n)
       /\ refunds' = [refunds EXCEPT ![r].status = "failed"]
  /\ UNCHANGED <<booking, payment, stripeVars, requestVars, bookVars>>

\* Its two updates repeat with the event, so they are one action.
OnDisputeCreated ==
  /\ payment.intent # 0 /\ intents[payment.intent].status = "succeeded"
  /\ booking' = "disputed"
  /\ payout' = IF payout.status = "scheduled" THEN [payout EXCEPT !.status = "cancelled"] ELSE payout
  /\ UNCHANGED <<payment, refunds, ledger, stripeVars, requestVars>>

-----------------------------------------------------------------------------
(* The booking's end. *)

\* releaseExpiredHold, which reads no payment; discardUnpaidBooking does the same to
\* a booking under a stronger guard.
LetGo ==
  /\ booking = "pending_payment"
  /\ booking' = "cancelled"
  /\ UNCHANGED <<payment, refunds, stripeVars, requestVars, bookVars>>

CompleteStay ==
  /\ booking = "confirmed"
  /\ booking' = "completed"
  /\ UNCHANGED <<payment, refunds, stripeVars, requestVars, bookVars>>

\* A request goes on to initiateRefund.
AskRefund(u, amount) ==
  \E reason \in Reasons :
    refunder' = [refunder EXCEPT ![u] = [NoRequest EXCEPT
      !.step = "checked", !.amount = amount, !.reason = reason, !.intent = payment.intent]]

\* cancelBooking, and its refund if the policy leaves one and the payment is 'paid'.
CancelBooking(u) ==
  /\ booking \in {"pending_payment", "confirmed"}
  /\ refunder[u].step = "idle"
  /\ booking' = "cancelled"
  /\ \/ UNCHANGED refunder
     \/ payment.status = "paid" /\ \E amount \in Amounts : AskRefund(u, amount)
  /\ UNCHANGED <<payment, checkout, refunds, stripeVars, bookVars>>

-----------------------------------------------------------------------------
(* Refunds: the admin's route and initiateRefund. *)

AdminRefund(u) ==
  /\ refunder[u].step = "idle"
  /\ payment.status \in {"paid", "partially_refunded"}
  /\ \E amount \in Amounts :
       /\ amount <= Total - RefundedBy({"pending", "succeeded"})
       /\ AskRefund(u, amount)
  /\ UNCHANGED <<booking, payment, checkout, refunds, stripeVars, bookVars>>

\* The latest pending row of this amount and reason is reused unless it has a
\* provider_refund_id.
FindAttempt(u) ==
  LET same == {r \in RefundNo : /\ refunds[r].status = "pending"
                                /\ refunds[r].amount = refunder[u].amount
                                /\ refunds[r].reason = refunder[u].reason} IN
  /\ refunder[u].step = "checked"
  /\ refunder' = [refunder EXCEPT ![u] =
       IF same # {} /\ refunds[Max(same)].link = 0
       THEN [@ EXCEPT !.step = "listing", !.row = Max(same)]
       ELSE [@ EXCEPT !.step = "inserting"]]
  /\ UNCHANGED <<booking, payment, checkout, refunds, stripeVars, bookVars>>

InsertRefund(u) ==
  /\ refunder[u].step = "inserting"
  /\ \E r \in RefundNo :
       /\ IsNext(refunds, r)
       /\ refunds' = [refunds EXCEPT ![r] = [status |-> "pending",
            amount |-> refunder[u].amount, reason |-> refunder[u].reason, link |-> 0]]
       /\ refunder' = [refunder EXCEPT ![u].step = "calling", ![u].row = r]
  /\ UNCHANGED <<booking, payment, checkout, stripeVars, bookVars>>

\* refunds.list: the refund an earlier try with this row made, if it made one and that
\* is among the latest.  (FoundNothing, a mutated form, relies on the idempotency key
\* alone.)
RefundsOf(i) == {n \in StripeNo : stripe[n].status # "none" /\ stripe[n].intent = i}
Latest(i) == {n \in RefundsOf(i) : Cardinality({m \in RefundsOf(i) : m > n}) < ListLimit}
FoundNothing(u) == {}
Found(u) == {n \in Latest(refunder[u].intent) : stripe[n].row = refunder[u].row}

ListRefunds(u) ==
  /\ refunder[u].step = "listing"
  /\ \/ \E n \in Found(u) :
          /\ \A m \in Found(u) : m <= n
          /\ refunder' = [refunder EXCEPT ![u].step = "linking", ![u].refund = n]
     \/ /\ Found(u) = {}
        /\ refunder' = [refunder EXCEPT ![u].step = "calling"]
  /\ UNCHANGED <<booking, payment, checkout, refunds, stripeVars, bookVars>>

\* Stripe never refunds more than it charged.
Refundable(i) ==
  Total - MapThenSumSet(LAMBDA n : refunds[stripe[n].row].amount,
                        {n \in StripeNo : stripe[n].intent = i /\ stripe[n].status # "failed"})

\* refunds.create: the key is the row's, so a second call with it answers the same
\* refund while Stripe remembers it.  Calls Stripe rejects end in RefunderDies.
CreateRefund(u) ==
  LET r == refunder[u].row
      i == refunder[u].intent
      byKey == {n \in StripeNo : stripe[n].row = r /\ stripe[n].keyed} IN
  /\ refunder[u].step = "calling"
  /\ \E n \in StripeNo :
       /\ \/ /\ n \in byKey /\ stripe[n].intent = i
             /\ UNCHANGED stripe
          \/ /\ byKey = {} /\ IsNext(stripe, n)
             /\ intents[i].status = "succeeded" /\ refunds[r].amount <= Refundable(i)
             /\ \E status \in {"pending", "succeeded"} :
                  stripe' = [stripe EXCEPT ![n] = [status |-> status,
                    intent |-> i, row |-> r, keyed |-> TRUE]]
       /\ refunder' = [refunder EXCEPT ![u].step = "linking", ![u].refund = n]
  /\ UNCHANGED <<booking, payment, intents, checkout, refunds, bookVars>>

LinkRefund(u) ==
  /\ refunder[u].step = "linking"
  /\ refunds' = [refunds EXCEPT ![refunder[u].row].link = refunder[u].refund]
  /\ refunder' = [refunder EXCEPT ![u] = NoRequest]
  /\ UNCHANGED <<booking, payment, checkout, stripeVars, bookVars>>

\* The process dies, or a call fails or loses its answer.
RefunderDies(u) ==
  /\ refunder[u].step # "idle"
  /\ refunder' = [refunder EXCEPT ![u] = NoRequest]
  /\ UNCHANGED <<booking, payment, checkout, refunds, stripeVars, bookVars>>

-----------------------------------------------------------------------------

Next ==
  \/ \E c \in Checkouts :
       \/ ReadPayment(c) \/ RetrieveIntent(c) \/ CreateIntent(c) \/ SaveIntent(c)
       \/ CheckoutDies(c)
  \/ \E i \in IntentNo :
       GuestPays(i) \/ PaymentSettles(i) \/ OnPaymentSucceeded(i) \/ OnPaymentFailed(i)
  \/ \E n \in StripeNo :
       RefundSettles(n) \/ KeyExpires(n) \/ OnRefundEvent(n) \/ OnRefundFailed(n)
  \/ \E u \in Refunders :
       \/ CancelBooking(u) \/ AdminRefund(u) \/ FindAttempt(u) \/ InsertRefund(u)
       \/ ListRefunds(u) \/ CreateRefund(u) \/ LinkRefund(u) \/ RefunderDies(u)
  \/ OnDisputeCreated \/ LetGo \/ CompleteStay

Spec == Init /\ [][Next]_vars

-----------------------------------------------------------------------------
(* Properties. *)

\* However many intents are paid, and however often their events are delivered,
\* the booking's charge enters the ledger once, with one payout, and never before
\* the booking leaves pending_payment (onPaymentSucceeded has no key of its own
\* there: it relies on the booking's status).
ChargeRecordedOnce ==
  /\ ledger.charges <= 1
  /\ (payout.status # "none") <=> (ledger.charges = 1)
  /\ booking = "pending_payment" => ledger.charges = 0

\* The ledger's refunds are the rows recorded as succeeded, each once, and each of
\* these is a refund Stripe has made (onRefundEvent, under redelivery).
RefundsRecordedOnce ==
  /\ ledger.refunded = RefundedBy({"succeeded"})
  /\ \A r \in RefundNo : refunds[r].status = "succeeded" =>
       \E n \in StripeNo : stripe[n].row = r /\ stripe[n].status = "succeeded"

\* After any sequence of refunds, in any order, the host's share that is reversed is
\* the rounded share of all that was refunded, with no residue at the end, and a
\* payout still scheduled is what is left of it (computeRefundReversalEntries).
ReversalMatches ==
  /\ ledger.reversed = Round(HostPayout * ledger.refunded, Total)
  /\ payout.status = "scheduled" => payout.amount = HostPayout - ledger.reversed

\* The guest is charged once: createPaymentIntentForBooking's comments promise that
\* a second checkout reuses the first one's intent or fails.
ChargedOnce == Cardinality({i \in IntentNo : intents[i].status = "succeeded"}) <= 1

\* A refund that is tried again, at once or after its idempotency key is forgotten,
\* is not made twice of the same charge unless the list that looks for it was too
\* short: unless Stripe had made more than ListLimit refunds of that charge before
\* (initiateRefund, refund.ts:84).  Of a booking that was charged twice, a retry may
\* refund the other charge.
RefundMadeOnce ==
  \A i \in IntentNo : \A m, n \in RefundsOf(i) :
    stripe[m].row = stripe[n].row /\ m # n => Cardinality(RefundsOf(i)) > ListLimit + 1
=============================================================================
