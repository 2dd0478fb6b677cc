---------------------------- MODULE BookingMoney ----------------------------
(***************************************************************************)
(* The amounts of one booking, in minor units: what calculatePrice splits  *)
(* the guest's total into, what the policy gives back of it, and what the  *)
(* ledger reverses of every category as refunds succeed, in any order.     *)
(* The listing's VAT rates and the fees in force may change, the event of  *)
(* the payment may come again and a dispute may be opened at any time.     *)
(* LegacyPayments has who asks for refunds, and when; TripPage has what a  *)
(* cancellation reads of a payment that changes meanwhile.                 *)
(***************************************************************************)
EXTENDS Integers, FiniteSets

CONSTANTS
  NightlyPrices, CleaningFees, Nights,
  VatRates,    \* in percent
  NoRate,      \* a rate that was never set: NULL
  Slices,      \* what an administrator refunds, other than all that is left
  MaxRefunds   \* bound: rows of refunds

MoneyAssumption ==
  /\ NightlyPrices \subseteq Nat /\ CleaningFees \subseteq Nat
  /\ Nights \subseteq Nat \ {0} /\ VatRates \subseteq 0..100 /\ NoRate \notin 0..100
  /\ Slices \subseteq Nat \ {0} /\ MaxRefunds \in Nat

VARIABLES
  offer,      \* the listing's prices and VAT rates, and whether it is published
  version,    \* the active row of fee_configs
  price,      \* booking_price_components, or Unpriced
  issued,     \* the rows of refunds
  reversed,   \* what the ledger has reversed of each category
  payout,     \* the payouts row
  standing    \* the status of the booking and of its payment, and whether it is disputed

moneyVars == <<offer, version, price, issued, reversed, payout, standing>>

Launch == "host-15-inclusive-v1"
\* The rates of seedFeeConfig and of activateLaunchFees, in percent.
FeeConfig ==
  [v \in {"v1", Launch} |->
     IF v = "v1" THEN [guestFee |-> 12, commission |-> 3, tax |-> 5]
                 ELSE [guestFee |-> 0, commission |-> 15, tax |-> 0]]

\* CATEGORY_KEYS
CategoryKeys == {"accommodation", "cleaning", "guestFee", "taxes",
               "commission", "revenue", "payout"}
Unpriced == [version |-> "none"]
RefundNo == 1..MaxRefunds

Offers == [nightly : NightlyPrices, cleaning : CleaningFees, vat : VatRates \cup {NoRate},
           cleaningVat : VatRates \cup {NoRate}, published : BOOLEAN]
Prices == [version : {"v1", Launch}, accommodation : Nat, cleaning : Nat, guestFee : Nat,
           taxes : Nat, total : Nat, commission : Nat, revenue : Nat, payout : Nat]
\* The rows of refunds; one that a cancellation asks for, and hostRetainedMinor of it.
Rows == [status : {"none", "pending", "succeeded"}, amount : Nat, cancels : BOOLEAN, kept : Nat]
Standings ==
  [booking : {"none", "pending_payment", "confirmed", "cancelled", "refunded", "disputed"},
   payment : {"none", "paid", "partially_refunded", "refunded"}, disputed : BOOLEAN]

TypeOK ==
  /\ offer \in Offers /\ version \in {"v1", Launch}
  /\ price \in Prices \cup {Unpriced}
  /\ issued \in [RefundNo -> Rows]
  /\ reversed \in [CategoryKeys -> Int]
  /\ payout \in [status : {"none", "scheduled", "cancelled"}, amount : Int]
  /\ standing \in Standings

\* seedFeeConfig has run; a listing of before migration 033 has no rates.
Init ==
  /\ \E n \in NightlyPrices, c \in CleaningFees, p \in BOOLEAN :
       offer = [nightly |-> n, cleaning |-> c, vat |-> NoRate, cleaningVat |-> NoRate,
                published |-> p]
  /\ version = "v1" /\ price = Unpriced
  /\ issued = [r \in RefundNo |->
                 [status |-> "none", amount |-> 0, cancels |-> FALSE, kept |-> 0]]
  /\ reversed = [c \in CategoryKeys |-> 0]
  /\ payout = [status |-> "none", amount |-> 0]
  /\ standing = [booking |-> "none", payment |-> "none", disputed |-> FALSE]

-----------------------------------------------------------------------------
(* The offer and the fees.                                                 *)

\* Rates are set by hand, and nothing asks for them when a listing is published.
SetRates ==
  /\ \E v, c \in VatRates : offer' = [offer EXCEPT !.vat = v, !.cleaningVat = c]
  /\ UNCHANGED <<version, price, issued, reversed, payout, standing>>

Publish ==
  /\ ~offer.published
  /\ offer' = [offer EXCEPT !.published = TRUE]
  /\ UNCHANGED <<version, price, issued, reversed, payout, standing>>

HasRates == offer.vat # NoRate /\ offer.cleaningVat # NoRate

\* One transaction; it refuses while a published listing has no rates.
ActivateLaunchFees ==
  /\ version = "v1"
  /\ offer.published => HasRates
  /\ version' = Launch
  /\ UNCHANGED <<offer, price, issued, reversed, payout, standing>>

-----------------------------------------------------------------------------
(* calculatePrice.                                                         *)

\* Math.round of n times a rate.  The rate is a binary fraction near the decimal one,
\* so a product that is exactly a half may be rounded either way.
Rounded(n, rate) == {r \in 0..n : 100 * r - n * rate \in -50..50}

\* Math.round of an integer quotient: exact, halves go up.
Round(n, d) == (2 * n + d) \div (2 * d)

Taxes(accommodation, cleaning) ==
  IF version = Launch
  THEN {a + c : a \in Rounded(accommodation, offer.vat), c \in Rounded(cleaning, offer.cleaningVat)}
  ELSE Rounded(accommodation + cleaning, FeeConfig[version].tax)

\* (KeepsTheVat, a mutated form, leaves the property's VAT with HOST.)
KeepsTheVat(accommodation, cleaning, taxes, commission) ==
  accommodation + cleaning - commission
HostShare(accommodation, cleaning, taxes, commission) ==
  accommodation + cleaning + (IF version = Launch THEN taxes ELSE 0) - commission

Breakdown(nights, guestFee, taxes, commission) ==
  LET accommodation == offer.nightly * nights IN
  [version |-> version,
   accommodation |-> accommodation, cleaning |-> offer.cleaning, guestFee |-> guestFee,
   taxes |-> taxes, total |-> accommodation + offer.cleaning + guestFee + taxes,
   commission |-> commission, revenue |-> commission + guestFee,
   payout |-> HostShare(accommodation, offer.cleaning, taxes, commission)]

\* createBooking's third step.  Launch fees without rates throw.
CreateBooking(nights) ==
  LET accommodation == offer.nightly * nights IN
  /\ price = Unpriced /\ offer.published
  /\ version = Launch => HasRates
  /\ \E g \in Rounded(accommodation, FeeConfig[version].guestFee),
        t \in Taxes(accommodation, offer.cleaning),
        c \in Rounded(accommodation, FeeConfig[version].commission) :
       price' = Breakdown(nights, g, t, c)
  /\ standing' = [standing EXCEPT !.booking = "pending_payment"]
  /\ UNCHANGED <<offer, version, issued, reversed, payout>>

\* onPaymentSucceeded, however often it is delivered: the payment is paid, whatever else
\* it was; the booking that waits for it is confirmed, and its payout scheduled.
PaymentSucceeds ==
  /\ price # Unpriced /\ standing.payment # "paid"
  /\ IF standing.booking = "pending_payment"
     THEN /\ standing' = [standing EXCEPT !.payment = "paid", !.booking = "confirmed"]
          /\ payout' = [status |-> "scheduled", amount |-> price.payout]
     ELSE standing' = [standing EXCEPT !.payment = "paid"] /\ UNCHANGED payout
  /\ UNCHANGED <<offer, version, price, issued, reversed>>

WithoutPayout == IF payout.status = "scheduled" THEN [payout EXCEPT !.status = "cancelled"]
                                                ELSE payout

\* onDisputeCreated.
DisputeCreated ==
  /\ standing.payment # "none"
  /\ standing' = [standing EXCEPT !.booking = "disputed", !.disputed = TRUE]
  /\ payout' = WithoutPayout
  /\ UNCHANGED <<offer, version, price, issued, reversed>>

-----------------------------------------------------------------------------
(* Refunds.                                                                *)

\* The rows with one of these statuses, summed: the minor units of each, counted.
Units(statuses) ==
  UNION {{r} \X (1..issued[r].amount) : r \in {q \in RefundNo : issued[q].status \in statuses}}
Sum(statuses) == Cardinality(Units(statuses))

IsNext(r) == \A q \in 1..r : issued[q].status = "none" <=> q = r

Tier(cutoffHours, refundPercent) == [cutoff |-> cutoffHours, percent |-> refundPercent]
StandardPolicies ==
  {<<Tier(24, 100), Tier(0, 0)>>,
   <<Tier(120, 100), Tier(24, 50), Tier(0, 0)>>,
   <<Tier(336, 50), Tier(0, 0)>>}
\* Hours before check-in on either side of every cutoff.
Hours == {0, 23, 24, 119, 120, 335, 336}

\* The first tier whose cutoff is still met.
RefundPercentFor(tiers, hours) ==
  LET met == {i \in DOMAIN tiers : hours >= tiers[i].cutoff} IN
  IF met = {} THEN 0 ELSE tiers[CHOOSE i \in met : \A j \in met : i <= j].percent

\* calculateCancellation
Refundable(percent) == Round(price.total * percent, 100)
HostRetained(percent) == Round(price.payout * (100 - percent), 100)

AsksBack(amount, cancels, kept) ==
  \E r \in RefundNo :
    /\ IsNext(r)
    /\ issued' = [issued EXCEPT ![r] =
         [status |-> "pending", amount |-> amount, cancels |-> cancels, kept |-> kept]]

\* cancelBooking: a payment that is 'paid' is refunded, though it may have been refunded
\* in part before and paid again since.  The process may die before it asks.
CancelBooking(percent) ==
  /\ standing.booking \in {"confirmed", "pending_payment"}
  /\ standing' = [standing EXCEPT !.booking = "cancelled"]
  /\ \/ /\ Refundable(percent) > 0 /\ standing.payment = "paid"
        /\ AsksBack(Refundable(percent), TRUE, HostRetained(percent))
     \/ UNCHANGED issued
  /\ UNCHANGED <<offer, version, price, reversed, payout>>

Remaining == price.total - Sum({"pending", "succeeded"})

\* POST /api/admin/refunds: a part, or all that is left.
AdminRefund(amount) ==
  /\ standing.payment \in {"paid", "partially_refunded"}
  /\ amount > 0 /\ amount <= Remaining
  /\ AsksBack(amount, FALSE, 0)
  /\ UNCHANGED <<offer, version, price, reversed, payout, standing>>

\* computeRefundReversalEntries: of every category, the rounded share of all that was
\* refunded, less what was reversed before.
Increment(c, cumulative) == Round(price[c] * cumulative, price.total) - reversed[c]

\* onRefundEvent, once for a refund.  Stripe refuses to refund more than was paid.
RefundSucceeds(r) ==
  LET amount == issued[r].amount
      cumulative == Sum({"succeeded"}) + amount
      increment == [c \in CategoryKeys |-> Increment(c, cumulative)] IN
  /\ issued[r].status = "pending" /\ cumulative <= price.total
  /\ issued' = [issued EXCEPT ![r].status = "succeeded"]
  /\ reversed' = [c \in CategoryKeys |-> reversed[c] + increment[c]]
  /\ IF cumulative = price.total
     THEN /\ standing' = [standing EXCEPT !.payment = "refunded", !.booking = "refunded"]
          /\ payout' = WithoutPayout
     ELSE /\ standing' = [standing EXCEPT !.payment = "partially_refunded",
                                          !.booking = "confirmed"]
          /\ payout' = IF payout.status # "scheduled" THEN payout
                       ELSE [payout EXCEPT !.amount = @ -
                              (IF increment["payout"] > 0 THEN increment["payout"] ELSE 0)]
  /\ UNCHANGED <<offer, version, price>>

-----------------------------------------------------------------------------

Next ==
  \/ SetRates \/ Publish \/ ActivateLaunchFees \/ PaymentSucceeds \/ DisputeCreated
  \/ \E n \in Nights : CreateBooking(n)
  \/ \E tiers \in StandardPolicies, hours \in Hours :
       CancelBooking(RefundPercentFor(tiers, hours))
  \/ price # Unpriced /\ \E amount \in Slices \cup {Remaining} : AdminRefund(amount)
  \/ \E r \in RefundNo : RefundSucceeds(r)

Spec == Init /\ [][Next]_moneyVars

-----------------------------------------------------------------------------
(* Properties.                                                             *)

Near(m, n) == m - n \in -1..1

\* Under v1 the taxes are neither the host's nor HOST's.
Shared(of) == of["payout"] + of["revenue"] + (IF price.version = "v1" THEN of["taxes"] ELSE 0)

\* Whatever the fees in force, the guest's total is what the host, HOST and, under v1, the
\* tax office get of it: nothing is created or lost by rounding (calculatePrice).
TotalIsShared ==
  price # Unpriced => price.total = Shared(price)

\* After any refunds in any order, no category is reversed by more than it was, each is
\* gone when everything is refunded, and the parts reversed are what was refunded to
\* the unit (computeRefundReversalEntries rounds each category by itself).
ReversalsAddUp ==
  LET refunded == Sum({"succeeded"}) IN
  price # Unpriced =>
    /\ \A c \in CategoryKeys : reversed[c] \in 0..price[c]
    /\ refunded = price.total => \A c \in CategoryKeys : reversed[c] = price[c]
    /\ Near(refunded, Shared(reversed))

\* A host whose booking is cancelled is paid what the quote of the cancellation said is
\* retained, to the unit, while its refund is the only one that succeeded and there is no
\* dispute: the quote takes a percentage of the payout, the ledger the share of a rounded
\* refund in the total.  A payout that is cancelled pays nothing.  (A booking cancelled
\* and refunded in part, and paid again by an event that comes again, may be cancelled
\* and refunded a second time: then no one quote says what is paid.)
Paid == IF payout.status = "cancelled" THEN 0 ELSE payout.amount
OnlyRefund(r) == \A q \in RefundNo : issued[q].status = "succeeded" <=> q = r
RetainedIsPaid ==
  \A r \in RefundNo :
    issued[r].cancels /\ OnlyRefund(r) /\ ~standing.disputed => Near(Paid, issued[r].kept)

\* The amounts of a booking add up, from its price to its last refund.
MoneyAddsUp == TotalIsShared /\ ReversalsAddUp /\ RetainedIsPaid

-----------------------------------------------------------------------------
(* What the steps keep, and rely on.                                       *)

\* Refunds come after the payment, and the payment after the price.
InOrder ==
  /\ price = Unpriced <=> standing.booking = "none"
  /\ standing.booking \in {"none", "pending_payment"} =>
       standing.payment = "none" /\ payout.status = "none"
  /\ standing.payment = "none" => \A r \in RefundNo : issued[r].status = "none"
  /\ \A r \in RefundNo : issued[r].status = "none" => ~issued[r].cancels
  /\ \A r \in RefundNo : issued[r].status # "none" => issued[r].amount > 0

\* A booking is confirmed by its payment, whose payout is scheduled, or, if it was cancelled
\* before, by a refund in part that no cancellation asked for.
Otherwise == \E q \in RefundNo : issued[q].status = "succeeded" /\ ~issued[q].cancels
Scheduled ==
  /\ standing.booking = "confirmed" => payout.status # "none" \/ Otherwise
  /\ \A r \in RefundNo : issued[r].cancels => payout.status # "none" \/ Otherwise

\* No category is more than the total.
PartsOfTotal == price # Unpriced => \A c \in CategoryKeys : price[c] \in 0..price.total

\* Of every category, the rounded share of what was refunded is reversed.
ReversedByShare ==
  LET refunded == Sum({"succeeded"}) IN
  /\ refunded = 0 => \A c \in CategoryKeys : reversed[c] = 0
  /\ refunded > 0 =>
       /\ price # Unpriced /\ refunded <= price.total
       /\ \A c \in CategoryKeys : reversed[c] = Round(price[c] * refunded, price.total)

\* The payout is what was not reversed of it, and is cancelled when all is refunded or
\* there is a dispute.
PayoutFollows ==
  /\ payout.status = "scheduled" => payout.amount = price.payout - reversed["payout"]
  /\ payout.status = "cancelled" =>
       standing.disputed \/ (Sum({"succeeded"}) = price.total /\ price.total > 0)

\* The refund and the quote of a cancellation are of the same percentage.
QuotedAlike ==
  \A r \in RefundNo : issued[r].cancels =>
    \E percent \in 0..100 :
      issued[r].amount = Refundable(percent) /\ issued[r].kept = HostRetained(percent)

Inv ==
  /\ TypeOK /\ TotalIsShared /\ InOrder /\ PartsOfTotal /\ ReversedByShare /\ PayoutFollows
  /\ Scheduled /\ QuotedAlike
=============================================================================
