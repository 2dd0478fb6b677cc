--------------------------- MODULE CheckoutReturn ---------------------------
(***************************************************************************)
(* The checkout of one booking and the page a guest returns to, which asks *)
(* the server every two seconds until it has something final to say.  The  *)
(* webhooks, the sweep and the clock change the booking meanwhile; answers *)
(* overtake each other and are lost.  What the server does with a charge   *)
(* is ScheduledCharges and LegacyPayments: here only what the page sees.   *)
(***************************************************************************)
EXTENDS Naturals

CONSTANTS
  Patience,     \* the polls after which the page gives up (15 in the code)
  SettledAfter, \* the polls after which a failure is believed (3 in the code)
  Polls         \* requests under way at once, at most

CheckoutReturnAssumption == Patience \in Nat /\ SettledAfter \in 0..Patience

VARIABLES
  stay,      \* the booking: flow, status, method, deferred, attempt, grace
  checkout,  \* the checkout page: loading, form, submitting, error, or left for the return page
  asks,      \* the requests for the booking under way
  shown,     \* the answer the return page shows
  attempts,  \* polls of the interval so far
  polling    \* the interval is running

checkoutReturnVars == <<stay, checkout, asks, shown, attempts, polling>>

Flows == {"separate_charges_delayed_v1", "destination_charge_legacy"}
Statuses == {"pending_payment", "confirmed", "cancelled"}
PaymentStatuses == {"none", "payment_method_required", "payment_method_saved",
  "payment_scheduled", "payment_attempting", "authentication_required",
  "payment_failed", "payment_grace_period", "paid", "cancelled_for_nonpayment"}
Nothing == [status |-> "pending_payment", payment |-> "none", stage |-> "none"]
Shown == [status : Statuses, payment : PaymentStatuses, stage : {"none", "sent", "answered", "lost"}]

TypeOK ==
  /\ stay \in [flow : Flows, status : Statuses, method : BOOLEAN, deferred : BOOLEAN,
               attempt : {"none", "processing", "failed", "requires_action", "succeeded"},
               grace : {"none", "running", "over"}]
  /\ checkout \in {"loading", "form", "submitting", "error", "returned"}
  /\ asks \in [Polls -> Shown] /\ shown \in Shown
  /\ attempts \in 0..(Patience + 1) /\ polling \in BOOLEAN

Init ==
  /\ \E f \in Flows, d \in BOOLEAN :
       stay = [flow |-> f, status |-> "pending_payment", method |-> FALSE, deferred |-> d,
               attempt |-> "none", grace |-> "none"]
  /\ checkout = "loading" /\ asks = [p \in Polls |-> Nothing]
  /\ shown = Nothing /\ attempts = 0 /\ polling = FALSE

-----------------------------------------------------------------------------
(* What the server says of the booking.                                    *)

DeriveGuestPaymentStatus ==
  CASE stay.status = "cancelled" /\ stay.attempt = "none" -> "cancelled_for_nonpayment"
    [] stay.status = "confirmed" -> "paid"
    [] stay.status # "confirmed" /\ stay.attempt = "requires_action" -> "authentication_required"
    [] stay.status # "confirmed" /\ stay.attempt = "failed" ->
         IF stay.grace = "running" THEN "payment_grace_period" ELSE "payment_failed"
    [] stay.status # "confirmed" /\ stay.attempt = "processing" -> "payment_attempting"
    [] OTHER -> IF ~stay.method THEN "payment_method_required"
                ELSE IF stay.deferred THEN "payment_scheduled" ELSE "payment_method_saved"

GetBookingDetail ==
  [status |-> stay.status, stage |-> "answered",
   payment |-> IF stay.flow = "separate_charges_delayed_v1"
               THEN DeriveGuestPaymentStatus ELSE "none"]

-----------------------------------------------------------------------------
(* The checkout page.                                                      *)

\* The booking says which flow; its endpoint hands out the secret, or refuses.
LoadCheckout ==
  /\ checkout = "loading"
  /\ checkout' \in {IF stay.status = "pending_payment" THEN "form" ELSE "error", "error"}
  /\ UNCHANGED <<stay, asks, shown, attempts, polling>>

\* The button is disabled while the confirmation runs.
HandleSubmit ==
  /\ checkout = "form" /\ checkout' = "submitting"
  /\ UNCHANGED <<stay, asks, shown, attempts, polling>>

ConfirmFails ==
  /\ checkout = "submitting" /\ checkout' = "form"
  /\ UNCHANGED <<stay, asks, shown, attempts, polling>>

\* Stripe sends the browser to the return page, which asks at once and starts
\* its interval.
ConfirmRedirects ==
  /\ checkout = "submitting" /\ checkout' = "returned"
  /\ polling' = TRUE /\ attempts' = 0 /\ shown' = Nothing
  /\ \E p \in Polls : asks' = [q \in Polls |-> IF q = p THEN [Nothing EXCEPT !.stage = "sent"]
                                               ELSE Nothing]
  /\ UNCHANGED stay

\* "Update payment": from a failure back to the checkout; the old page is gone.
UpdatePayment ==
  /\ checkout = "returned" /\ shown.payment \in {"payment_grace_period", "payment_failed"}
  /\ checkout' = "loading" /\ polling' = FALSE /\ shown' = Nothing
  /\ asks' = [p \in Polls |-> Nothing]
  /\ UNCHANGED <<stay, attempts>>

-----------------------------------------------------------------------------
(* The return page.                                                        *)

IsFailure(v) == v.payment \in {"payment_grace_period", "payment_failed"}

\* (StopsOnAnswer, a mutated form, waits for a final answer however long it takes.)
StopsOnAnswer(v, n) ==
  v.status = "confirmed" \/ v.payment = "payment_scheduled" \/ (IsFailure(v) /\ n >= SettledAfter)
Stops(v, n) ==
  \/ v.status = "confirmed" \/ n > Patience
  \/ v.payment = "payment_scheduled"
  \/ IsFailure(v) /\ n >= SettledAfter

\* The interval asks again without waiting for the answers still to come; a
\* request with no place among Polls counts as lost.
Tick ==
  /\ checkout = "returned" /\ polling
  /\ attempts' = IF attempts > Patience THEN attempts ELSE attempts + 1
  /\ polling' = ~Stops(shown, attempts')
  /\ \/ asks' = asks
     \/ \E p \in Polls : /\ asks[p].stage = "none"
                         /\ asks' = [asks EXCEPT ![p] = [Nothing EXCEPT !.stage = "sent"]]
  /\ UNCHANGED <<stay, checkout, shown>>

ServeBooking(p) ==
  /\ asks[p].stage = "sent"
  /\ asks' \in {[asks EXCEPT ![p] = GetBookingDetail], [asks EXCEPT ![p].stage = "lost"]}
  /\ UNCHANGED <<stay, checkout, shown, attempts, polling>>

\* Whatever answer arrives last is shown, also after the interval is cleared.
ShowBooking(p) ==
  /\ asks[p].stage \in {"answered", "lost"}
  /\ asks' = [asks EXCEPT ![p] = Nothing]
  /\ shown' = IF asks[p].stage = "lost" THEN shown ELSE asks[p]
  /\ polling' = (polling /\ ~Stops(shown', attempts))
  /\ UNCHANGED <<stay, checkout, attempts>>

-----------------------------------------------------------------------------
(* What happens to the booking meanwhile.                                  *)

Becomes(s) == stay' = s /\ UNCHANGED <<checkout, asks, shown, attempts, polling>>

SetupSucceeds ==
  /\ checkout = "returned" /\ stay.status = "pending_payment"
  /\ stay.flow = "separate_charges_delayed_v1" /\ ~stay.method
  /\ Becomes([stay EXCEPT !.method = TRUE])

AttemptBegins ==
  /\ stay.method /\ ~stay.deferred /\ stay.status = "pending_payment"
  /\ stay.attempt \in {"none", "failed", "requires_action"}
  /\ Becomes([stay EXCEPT !.attempt = "processing"])

AttemptEnds ==
  /\ stay.attempt = "processing" /\ stay.status = "pending_payment"
  /\ \/ Becomes([stay EXCEPT !.attempt = "succeeded", !.status = "confirmed"])
     \/ Becomes([stay EXCEPT !.attempt = "requires_action"])
     \/ Becomes([stay EXCEPT !.attempt = "failed",
                             !.grace = IF stay.grace = "none" THEN "running" ELSE stay.grace])

LegacyPaymentSucceeds ==
  /\ checkout = "returned" /\ stay.status = "pending_payment"
  /\ stay.flow = "destination_charge_legacy"
  /\ Becomes([stay EXCEPT !.status = "confirmed"])

TimePasses ==
  \/ stay.deferred /\ Becomes([stay EXCEPT !.deferred = FALSE])
  \/ stay.grace = "running" /\ Becomes([stay EXCEPT !.grace = "over"])

BookingCancelled ==
  /\ stay.status # "cancelled"
  /\ Becomes([stay EXCEPT !.status = "cancelled"])

CheckoutPage == LoadCheckout \/ HandleSubmit \/ ConfirmFails \/ ConfirmRedirects

Next ==
  \/ CheckoutPage \/ UpdatePayment
  \/ Tick \/ \E p \in Polls : ServeBooking(p) \/ ShowBooking(p)
  \/ SetupSucceeds \/ AttemptBegins \/ AttemptEnds \/ LegacyPaymentSucceeds
  \/ TimePasses \/ BookingCancelled

Spec == Init /\ [][Next]_checkoutReturnVars /\ WF_checkoutReturnVars(Tick)

-----------------------------------------------------------------------------
(* A page a guest has returned to does not ask for ever: whatever becomes  *)
(* of the booking and of the answers, its interval is cleared (return      *)
(* page.tsx: the effect that used to stop nothing).                        *)
PollingEnds == [](polling => <>~polling)
=============================================================================
