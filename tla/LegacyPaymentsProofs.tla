------------------------ MODULE LegacyPaymentsProofs ------------------------
(***************************************************************************)
(* Theorems about LegacyPayments, for any number of checkouts, intents,    *)
(* refunds and deliveries, and any amounts: its types, that the charge and *)
(* each refund enter the ledger once, that the reversed shares add up, and *)
(* that a refund tried again is not made twice while its list is complete. *)
(*                                                                         *)
(* A sum over the rows of refunds is the number of their minor units       *)
(* (RefundedBy), so that what a step adds to it is the cardinality of a    *)
(* disjoint union and needs no induction.                                  *)
(***************************************************************************)
EXTENDS LegacyPayments, FiniteSetTheorems, TLAPS

-----------------------------------------------------------------------------
(* Rounded shares.                                                         *)

LEMMA Quotient ==
  ASSUME NEW n \in Nat, NEW d \in Nat, d > 0
  PROVE  /\ n \div d \in Nat
         /\ d * (n \div d) <= n
         /\ n < d * (n \div d) + d
OBVIOUS

LEMMA FactorsInOrder ==
  ASSUME NEW p \in Int, NEW q \in Int, NEW d \in Nat, d > 0, d * p < d * q + d
  PROVE  p <= q
<1> SUFFICES ASSUME p >= q + 1 PROVE d * p >= d * q + d
  OBVIOUS
<1>1. d * p >= d * (q + 1)
  OBVIOUS
<1> QED
  BY <1>1

LEMMA RoundIsNatural ==
  ASSUME NEW n \in Nat, NEW d \in Nat, d > 0
  PROVE  Round(n, d) \in Nat
BY DEF Round

LEMMA RoundOfZero ==
  ASSUME NEW d \in Nat, d > 0
  PROVE  Round(0, d) = 0
BY DEF Round

LEMMA RoundMonotone ==
  ASSUME NEW m \in Nat, NEW n \in Nat, NEW d \in Nat, d > 0, m <= n
  PROVE  Round(m, d) <= Round(n, d)
<1> DEFINE a == 2 * m + d
           b == 2 * n + d
           e == 2 * d
<1>1. a \in Nat /\ b \in Nat /\ e \in Nat /\ e > 0 /\ a <= b
  OBVIOUS
<1> HIDE DEF a, b, e
<1>2. e * (a \div e) <= a /\ b < e * (b \div e) + e /\ a \div e \in Nat /\ b \div e \in Nat
  BY <1>1, Quotient
<1>3. e * (a \div e) < e * (b \div e) + e
  <2> DEFINE x == e * (a \div e)
             y == e * (b \div e)
  <2>1. x \in Nat /\ y \in Nat
    BY <1>1, <1>2
  <2> HIDE DEF x, y
  <2> QED
    BY <1>1, <1>2, <2>1 DEF x, y
<1>4. a \div e <= b \div e
  BY <1>1, <1>2, <1>3, FactorsInOrder
<1> QED
  BY <1>4 DEF Round, a, b, e

\* What is reversed of the host's payout when so much is refunded.
Share(refunded) == Round(HostPayout * refunded, Total)

LEMMA ShareIsMonotone ==
  ASSUME NEW m \in Nat, NEW n \in Nat, m <= n
  PROVE  Share(m) \in Nat /\ Share(n) \in Nat /\ Share(m) <= Share(n)
<1>1. Total \in Nat /\ Total > 0 /\ HostPayout \in Nat
  BY AmountsAssumption
<1>2. HostPayout * m \in Nat /\ HostPayout * n \in Nat /\ HostPayout * m <= HostPayout * n
  BY <1>1
<1> QED
  BY <1>1, <1>2, RoundIsNatural, RoundMonotone DEF Share

LEMMA NothingReversed == Share(0) = 0
<1>1. Total \in Nat /\ Total > 0 /\ HostPayout * 0 = 0
  BY AmountsAssumption
<1> QED
  BY <1>1, RoundOfZero DEF Share

-----------------------------------------------------------------------------
(* Sums over the rows of refunds.                                          *)

LEMMA UnitsAreFinite ==
  ASSUME NEW status
  PROVE  IsFiniteSet(Units(status)) /\ RefundedBy(status) \in Nat
<1>1. IsFiniteSet(RefundNo) /\ IsFiniteSet(1..Total)
  BY FS_Interval, AmountsAssumption DEF RefundNo
<1>2. IsFiniteSet(RefundNo \X (1..Total))
  BY <1>1, FS_Product
<1>3. Units(status) \subseteq RefundNo \X (1..Total)
  BY DEF Units
<1>4. IsFiniteSet(Units(status))
  BY <1>2, <1>3, FS_Subset
<1> QED
  BY <1>4, FS_CardinalityType DEF RefundedBy

LEMMA UnitsOfOneRow ==
  ASSUME NEW r, NEW amount \in Nat
  PROVE  /\ IsFiniteSet({r} \X (1..amount))
         /\ Cardinality({r} \X (1..amount)) = amount
<1>1. IsFiniteSet({r}) /\ Cardinality({r}) = 1
  BY FS_Singleton
<1>2. IsFiniteSet(1..amount) /\ Cardinality(1..amount) = amount
  BY FS_Interval
<1>3. /\ IsFiniteSet({r} \X (1..amount))
      /\ Cardinality({r} \X (1..amount)) = Cardinality({r}) * Cardinality(1..amount)
  BY <1>1, <1>2, FS_Product
<1> QED
  BY <1>1, <1>2, <1>3

\* A step that leaves the succeeded rows and their amounts alone.
LEMMA SameSum ==
  ASSUME \A r \in RefundNo :
           /\ refunds'[r].status = "succeeded" <=> refunds[r].status = "succeeded"
           /\ refunds[r].status = "succeeded" => refunds'[r].amount = refunds[r].amount
  PROVE  RefundedBy({"succeeded"})' = RefundedBy({"succeeded"})
<1>1. Units({"succeeded"})' = Units({"succeeded"})
  BY DEF Units
<1> QED
  BY <1>1 DEF RefundedBy

\* A row that succeeds adds its amount.
LEMMA SumGrows ==
  ASSUME refunds \in [RefundNo -> Refunds], NEW r \in RefundNo,
         refunds[r].status # "succeeded",
         refunds' = [refunds EXCEPT ![r].status = "succeeded"]
  PROVE  RefundedBy({"succeeded"})' = RefundedBy({"succeeded"}) + refunds[r].amount
<1> DEFINE amount == refunds[r].amount
           old == Units({"succeeded"})
           new == {r} \X (1..amount)
<1>1. amount \in Nat /\ amount <= Total
  BY AmountsAssumption DEF Refunds
<1>2. \A q \in RefundNo :
        /\ refunds'[q].amount = refunds[q].amount
        /\ refunds'[q].status = IF q = r THEN "succeeded" ELSE refunds[q].status
  BY DEF Refunds
<1>3. Units({"succeeded"})' = old \cup new
  BY <1>1, <1>2, AmountsAssumption DEF Units
<1>4. old \cap new = {}
  BY DEF Units
<1>5. IsFiniteSet(old) /\ Cardinality(old) \in Nat
  BY UnitsAreFinite, FS_CardinalityType
<1>6. IsFiniteSet(new) /\ Cardinality(new) = amount
  BY <1>1, UnitsOfOneRow
<1>7. Cardinality(old \cup new) = Cardinality(old) + Cardinality(new) - Cardinality({})
  <2> HIDE DEF old, new
  <2> QED
    BY <1>4, <1>5, <1>6, FS_Union
<1>8. Cardinality({}) = 0
  BY FS_EmptySet
<1>9. /\ RefundedBy({"succeeded"}) = Cardinality(old)
      /\ RefundedBy({"succeeded"})' = Cardinality(old \cup new)
  BY <1>3 DEF RefundedBy
<1> HIDE DEF amount, old, new
<1>10. RefundedBy({"succeeded"})' = RefundedBy({"succeeded"}) + amount
  BY <1>1, <1>5, <1>6, <1>7, <1>8, <1>9
<1> QED
  BY <1>10 DEF amount

-----------------------------------------------------------------------------
(* Types.                                                                  *)

LEMMA LargestRow ==
  ASSUME NEW S \in SUBSET RefundNo, S # {}
  PROVE  Max(S) \in S
<1> DEFINE Below == {MaxRefunds - r : r \in S}
<1>1. Below \subseteq Nat /\ Below # {}
  <2>1. MaxRefunds \in Nat /\ \A r \in S : r \in 1..MaxRefunds
    BY AmountsAssumption DEF RefundNo
  <2>2. \A r \in S : MaxRefunds - r \in Nat
    BY <2>1
  <2> QED
    BY <2>2
<1>2. PICK m \in Below : \A n \in Below : ~ (<<n, m>> \in OpToRel(<, Nat))
  BY <1>1, NatLessThanWellFounded, WFMin
<1>3. \A n \in Below : m <= n
  <2> SUFFICES ASSUME NEW n \in Below PROVE m <= n
    OBVIOUS
  <2> HIDE DEF Below
  <2>1. n \in Nat /\ m \in Nat /\ ~ (<<n, m>> \in OpToRel(<, Nat))
    BY <1>1, <1>2
  <2> QED
    BY <2>1 DEF OpToRel
<1>4. PICK r \in S : m = MaxRefunds - r
  OBVIOUS
<1>5. \A q \in S : r >= q
  <2> SUFFICES ASSUME NEW q \in S PROVE r >= q
    OBVIOUS
  <2>1. MaxRefunds - q \in Below
    OBVIOUS
  <2>2. m <= MaxRefunds - q
    BY <1>3, <2>1
  <2>3. q \in Int /\ r \in Int /\ MaxRefunds \in Int
    BY AmountsAssumption DEF RefundNo
  <2> HIDE DEF Below
  <2> QED
    BY <1>4, <2>2, <2>3
<1> QED
  BY <1>5 DEF Max

LEMMA InitTypes == Init => TypeOK
BY AmountsAssumption
   DEF Init, TypeOK, Bookings, Payments, Intents, CheckoutStates, Refunds, StripeRefunds,
       RefunderStates, NoIntent, NoCheckout, NoRefund, NoStripeRefund, NoRequest, IntentNo,
       RefundNo, StripeNo

LEMMA CheckoutKeepsTypes ==
  ASSUME TypeOK, NEW c \in Checkouts,
         \/ ReadPayment(c) \/ RetrieveIntent(c) \/ CreateIntent(c) \/ SaveIntent(c)
         \/ CheckoutDies(c)
  PROVE  TypeOK'
<1> USE DEF TypeOK, stripeVars, bookVars, requestVars
<1>1. CASE ReadPayment(c)
  BY <1>1 DEF ReadPayment, CheckoutStates, Payments
<1>2. CASE RetrieveIntent(c)
  BY <1>2, AmountsAssumption DEF RetrieveIntent, CheckoutStates, NoCheckout
<1>3. CASE CreateIntent(c)
  <2>1. PICK i \in IntentNo :
          /\ intents' = [intents EXCEPT ![i].status = "open"]
          /\ checkout' = [checkout EXCEPT ![c] = [step |-> "saving", intent |-> i]]
    BY <1>3 DEF CreateIntent
  <2>2. intents' \in [IntentNo -> Intents]
    BY <2>1 DEF Intents
  <2>3. [step |-> "saving", intent |-> i] \in CheckoutStates
    BY AmountsAssumption DEF CheckoutStates, IntentNo
  <2>4. checkout' \in [Checkouts -> CheckoutStates]
    BY <2>1, <2>3
  <2> QED
    BY <1>3, <2>2, <2>4 DEF CreateIntent
<1>4. CASE SaveIntent(c)
  <2>1. payment' \in Payments
    BY <1>4 DEF SaveIntent, Payments, CheckoutStates
  <2>2. intents' \in [IntentNo -> Intents]
    BY <1>4 DEF SaveIntent, Intents
  <2>3. NoCheckout \in CheckoutStates
    BY AmountsAssumption DEF NoCheckout, CheckoutStates
  <2>4. checkout' \in [Checkouts -> CheckoutStates]
    BY <1>4, <2>3 DEF SaveIntent
  <2> QED
    BY <1>4, <2>1, <2>2, <2>4 DEF SaveIntent
<1>5. CASE CheckoutDies(c)
  BY <1>5, AmountsAssumption DEF CheckoutDies, CheckoutStates, NoCheckout
<1> QED
  BY <1>1, <1>2, <1>3, <1>4, <1>5

LEMMA PaymentKeepsTypes ==
  ASSUME TypeOK, NEW i \in IntentNo,
         GuestPays(i) \/ PaymentSettles(i) \/ OnPaymentSucceeded(i) \/ OnPaymentFailed(i)
  PROVE  TypeOK'
<1> USE DEF TypeOK, stripeVars, bookVars, requestVars
<1>1. CASE GuestPays(i)
  BY <1>1 DEF GuestPays, Intents
<1>2. CASE PaymentSettles(i)
  BY <1>2 DEF PaymentSettles, Intents
<1>3. CASE OnPaymentSucceeded(i)
  <2>1. payment' \in Payments
    BY <1>3 DEF OnPaymentSucceeded, Payments
  <2> QED
    BY <1>3, <2>1, AmountsAssumption DEF OnPaymentSucceeded, Bookings
<1>4. CASE OnPaymentFailed(i)
  BY <1>4 DEF OnPaymentFailed, Payments
<1> QED
  BY <1>1, <1>2, <1>3, <1>4

LEMMA RecordKeepsTypes ==
  ASSUME TypeOK, NEW r \in RefundNo, RecordRefund(r)
  PROVE  /\ refunds' \in [RefundNo -> Refunds] /\ payment' \in Payments /\ booking' \in Bookings
         /\ ledger' \in [charges : Nat, refunded : Nat, reversed : Int]
         /\ payout' \in [status : {"none", "scheduled", "cancelled"}, amount : Int]
<1> DEFINE amount == refunds[r].amount
           cumulative == RefundedBy({"succeeded"})
                           + IF refunds[r].status = "succeeded" THEN 0 ELSE amount
           increment == Increment(amount, cumulative)
<1>1. amount \in Nat
  BY AmountsAssumption DEF TypeOK, Refunds
<1>2. cumulative \in Nat
  BY <1>1, UnitsAreFinite
<1>3. increment \in Int
  <2>1. Share(cumulative) \in Nat
    BY <1>2, ShareIsMonotone
  <2> HIDE DEF cumulative, amount
  <2> QED
    BY <2>1 DEF Increment, Share, TypeOK
<1>4. /\ refunds' = [refunds EXCEPT ![r].status = "succeeded"]
      /\ payment' \in {[payment EXCEPT !.status = s] : s \in {"refunded", "partially_refunded"}}
      /\ booking' \in {"refunded", "confirmed"}
      /\ ledger' = [ledger EXCEPT !.refunded = @ + amount, !.reversed = @ + increment]
      /\ \/ payout' = payout
         \/ payout' = [payout EXCEPT !.status = "cancelled"]
         \/ payout' = [payout EXCEPT !.amount = @ - (IF increment > 0 THEN increment ELSE 0)]
  BY DEF RecordRefund, StatusAfterRefund
<1> HIDE DEF amount, cumulative, increment
<1>5. refunds' \in [RefundNo -> Refunds]
  BY <1>4 DEF TypeOK, Refunds
<1>6. payment' \in Payments /\ booking' \in Bookings
  BY <1>4 DEF TypeOK, Payments, Bookings
<1>7. ledger' \in [charges : Nat, refunded : Nat, reversed : Int]
  <2>1. /\ ledger.charges \in Nat /\ ledger.refunded + amount \in Nat
        /\ ledger.reversed + increment \in Int
    BY <1>1, <1>3 DEF TypeOK
  <2>2. ledger' = [charges |-> ledger.charges, refunded |-> ledger.refunded + amount,
                   reversed |-> ledger.reversed + increment]
    BY <1>4 DEF TypeOK
  <2> QED
    BY <2>1, <2>2
<1>8. payout' \in [status : {"none", "scheduled", "cancelled"}, amount : Int]
  BY <1>3, <1>4 DEF TypeOK
<1> QED
  BY <1>5, <1>6, <1>7, <1>8

LEMMA StripeKeepsTypes ==
  ASSUME TypeOK, NEW n \in StripeNo,
         RefundSettles(n) \/ KeyExpires(n) \/ OnRefundEvent(n) \/ OnRefundFailed(n)
  PROVE  TypeOK'
<1> USE DEF TypeOK, stripeVars, bookVars, requestVars
<1>1. CASE RefundSettles(n)
  BY <1>1 DEF RefundSettles, StripeRefunds
<1>2. CASE KeyExpires(n)
  BY <1>2 DEF KeyExpires, StripeRefunds
<1>3. CASE OnRefundEvent(n)
  BY <1>3, RecordKeepsTypes DEF OnRefundEvent
<1>4. CASE OnRefundFailed(n)
  BY <1>4 DEF OnRefundFailed, Refunds
<1> QED
  BY <1>1, <1>2, <1>3, <1>4

LEMMA PutRefunder ==
  ASSUME refunder \in [Refunders -> RefunderStates], NEW u \in Refunders,
         NEW state \in RefunderStates, refunder' = [refunder EXCEPT ![u] = state]
  PROVE  refunder' \in [Refunders -> RefunderStates]
OBVIOUS

LEMMA NoRequestHasType == NoRequest \in RefunderStates
BY AmountsAssumption DEF NoRequest, RefunderStates

LEMMA AskKeepsTypes ==
  ASSUME TypeOK, NEW u \in Refunders, NEW amount \in Amounts, AskRefund(u, amount)
  PROVE  refunder' \in [Refunders -> RefunderStates]
<1>1. PICK reason \in Reasons :
        refunder' = [refunder EXCEPT ![u] = [NoRequest EXCEPT
          !.step = "checked", !.amount = amount, !.reason = reason, !.intent = payment.intent]]
  BY DEF AskRefund
<1>2. amount \in 0..Total /\ payment.intent \in 0..MaxIntents
  BY AmountsAssumption DEF TypeOK, Payments
<1>3. [NoRequest EXCEPT !.step = "checked", !.amount = amount, !.reason = reason,
                        !.intent = payment.intent] \in RefunderStates
  <2>1. NoRequest \in RefunderStates
    BY NoRequestHasType
  <2> QED
    BY <1>2, <2>1 DEF RefunderStates
<1> QED
  BY <1>1, <1>3, PutRefunder DEF TypeOK

LEMMA RequestKeepsTypes ==
  ASSUME TypeOK, NEW u \in Refunders,
         \/ CancelBooking(u) \/ AdminRefund(u) \/ FindAttempt(u) \/ InsertRefund(u)
         \/ ListRefunds(u) \/ CreateRefund(u) \/ LinkRefund(u) \/ RefunderDies(u)
  PROVE  TypeOK'
<1> USE DEF TypeOK, stripeVars, bookVars, requestVars
<1>1. CASE CancelBooking(u)
  BY <1>1, AskKeepsTypes DEF CancelBooking, Bookings
<1>2. CASE AdminRefund(u)
  BY <1>2, AskKeepsTypes DEF AdminRefund
<1>3. CASE FindAttempt(u)
  <2> DEFINE same == {r \in RefundNo : /\ refunds[r].status = "pending"
                                       /\ refunds[r].amount = refunder[u].amount
                                       /\ refunds[r].reason = refunder[u].reason}
  <2>1. same # {} => Max(same) \in 0..MaxRefunds
    <3>1. same # {} => Max(same) \in same
      <4>1. same \in SUBSET RefundNo
        OBVIOUS
      <4> HIDE DEF same
      <4> QED BY <4>1, LargestRow
    <3> QED
      BY <3>1 DEF RefundNo
  <2> DEFINE listing == [refunder[u] EXCEPT !.step = "listing", !.row = Max(same)]
             inserting == [refunder[u] EXCEPT !.step = "inserting"]
  <2>2. \/ same # {} /\ refunder' = [refunder EXCEPT ![u] = listing]
        \/ refunder' = [refunder EXCEPT ![u] = inserting]
    BY <1>3 DEF FindAttempt
  <2>3. same # {} => listing \in RefunderStates
    <3> HIDE DEF same
    <3> QED
      BY <2>1 DEF RefunderStates
  <2>4. inserting \in RefunderStates
    BY DEF RefunderStates
  <2> HIDE DEF same, listing, inserting
  <2>5. refunder' \in [Refunders -> RefunderStates]
    BY <2>2, <2>3, <2>4
  <2> QED
    BY <1>3, <2>5 DEF FindAttempt
<1>4. CASE InsertRefund(u)
  <2>1. PICK r \in RefundNo :
          /\ refunds' = [refunds EXCEPT ![r] = [status |-> "pending",
               amount |-> refunder[u].amount, reason |-> refunder[u].reason, link |-> 0]]
          /\ refunder' = [refunder EXCEPT ![u] =
               [refunder[u] EXCEPT !.step = "calling", !.row = r]]
    BY <1>4 DEF InsertRefund
  <2>2. [status |-> "pending", amount |-> refunder[u].amount, reason |-> refunder[u].reason,
         link |-> 0] \in Refunds
    BY AmountsAssumption DEF RefunderStates, Refunds
  <2>3. refunds' \in [RefundNo -> Refunds]
    BY <2>1, <2>2
  <2>4. [refunder[u] EXCEPT !.step = "calling", !.row = r] \in RefunderStates
    <3>1. r \in 0..MaxRefunds
      BY AmountsAssumption DEF RefundNo
    <3> QED
      BY <3>1 DEF RefunderStates
  <2> QED
    BY <1>4, <2>1, <2>3, <2>4, PutRefunder DEF InsertRefund
<1>5. CASE ListRefunds(u)
  <2>1. \/ \E n \in StripeNo : refunder' = [refunder EXCEPT ![u] =
             [refunder[u] EXCEPT !.step = "linking", !.refund = n]]
        \/ refunder' = [refunder EXCEPT ![u] = [refunder[u] EXCEPT !.step = "calling"]]
    BY <1>5 DEF ListRefunds, Found, Latest, RefundsOf
  <2>2. \A n \in StripeNo : [refunder[u] EXCEPT !.step = "linking", !.refund = n] \in RefunderStates
    <3>1. \A n \in StripeNo : n \in 0..MaxStripe
      BY AmountsAssumption DEF StripeNo
    <3> QED
      BY <3>1 DEF RefunderStates
  <2>3. [refunder[u] EXCEPT !.step = "calling"] \in RefunderStates
    BY DEF RefunderStates
  <2>4. refunder' \in [Refunders -> RefunderStates]
    BY <2>1, <2>2, <2>3
  <2> QED
    BY <1>5, <2>4 DEF ListRefunds
<1>6. CASE CreateRefund(u)
  <2>1. PICK n \in StripeNo :
          /\ \/ UNCHANGED stripe
             \/ \E status \in {"pending", "succeeded"} :
                  stripe' = [stripe EXCEPT ![n] = [status |-> status,
                    intent |-> refunder[u].intent, row |-> refunder[u].row, keyed |-> TRUE]]
          /\ refunder' = [refunder EXCEPT ![u] =
               [refunder[u] EXCEPT !.step = "linking", !.refund = n]]
    BY <1>6 DEF CreateRefund
  <2>2. \A status \in {"pending", "succeeded"} :
          [status |-> status, intent |-> refunder[u].intent, row |-> refunder[u].row,
           keyed |-> TRUE] \in StripeRefunds
    BY DEF RefunderStates, StripeRefunds
  <2>3. stripe' \in [StripeNo -> StripeRefunds]
    BY <2>1, <2>2
  <2>4. [refunder[u] EXCEPT !.step = "linking", !.refund = n] \in RefunderStates
    <3>1. n \in 0..MaxStripe
      BY AmountsAssumption DEF StripeNo
    <3> QED
      BY <3>1 DEF RefunderStates
  <2> QED
    BY <1>6, <2>1, <2>3, <2>4, PutRefunder DEF CreateRefund
<1>7. CASE LinkRefund(u)
  <2>1. refunds' \in [RefundNo -> Refunds]
    <3>1. refunder[u].refund \in 0..MaxStripe
      BY DEF RefunderStates
    <3>2. refunds' = [refunds EXCEPT ![refunder[u].row].link = refunder[u].refund]
      BY <1>7 DEF LinkRefund
    <3>3. \A r \in RefundNo : [refunds[r] EXCEPT !.link = refunder[u].refund] \in Refunds
      BY <3>1 DEF Refunds
    <3> QED
      BY <3>2, <3>3
  <2> QED
    BY <1>7, <2>1, NoRequestHasType, PutRefunder DEF LinkRefund
<1>8. CASE RefunderDies(u)
  BY <1>8, NoRequestHasType, PutRefunder DEF RefunderDies
<1> QED
  BY <1>1, <1>2, <1>3, <1>4, <1>5, <1>6, <1>7, <1>8

LEMMA StepKeepsTypes == TypeOK /\ [Next]_vars => TypeOK'
<1> SUFFICES ASSUME TypeOK, [Next]_vars PROVE TypeOK'
  OBVIOUS
<1>1. CASE UNCHANGED vars
  BY <1>1 DEF vars, TypeOK
<1>2. CASE OnDisputeCreated
  BY <1>2 DEF OnDisputeCreated, TypeOK, Bookings, stripeVars, requestVars
<1>3. CASE LetGo \/ CompleteStay
  BY <1>3 DEF LetGo, CompleteStay, TypeOK, Bookings, stripeVars, requestVars, bookVars
<1> QED
  BY <1>1, <1>2, <1>3, CheckoutKeepsTypes, PaymentKeepsTypes, StripeKeepsTypes,
     RequestKeepsTypes DEF Next

\* Every row, intent, refund and request has its type, and the sums of the ledger are
\* whole amounts.
THEOREM TypeCorrect == Spec => []TypeOK
BY InitTypes, StepKeepsTypes, PTL DEF Spec

-----------------------------------------------------------------------------
(* What rows, requests and Stripe's refunds know of each other.            *)

\* A payment that was ever paid names the intent that paid it.
PaidHasIntent ==
  payment.status \in {"paid", "partially_refunded", "refunded"} => payment.intent \in IntentNo

\* A row is linked to a refund that was made for it.
RowsLinked ==
  \A r \in RefundNo : refunds[r].link # 0 => stripe[refunds[r].link].row = r

\* A refund at Stripe is of a row that exists and of an intent that was paid.
StripeKnown ==
  \A n \in StripeNo :
    /\ stripe[n].row = 0 <=> stripe[n].status = "none"
    /\ stripe[n].row # 0 =>
         /\ refunds[stripe[n].row].status # "none"
         /\ stripe[n].intent \in IntentNo
         /\ intents[stripe[n].intent].status = "succeeded"

\* A request under way has an intent, past its search a row, and past its call to
\* Stripe a refund made for that row.
RequestsKnown ==
  \A u \in Refunders :
    /\ refunder[u].step # "idle" => refunder[u].intent \in IntentNo
    /\ refunder[u].step \in {"listing", "calling", "linking"} =>
         refunder[u].row \in RefundNo /\ refunds[refunder[u].row].status # "none"
    /\ refunder[u].step = "linking" =>
         refunder[u].refund \in StripeNo /\ stripe[refunder[u].refund].row = refunder[u].row

Links == PaidHasIntent /\ RowsLinked /\ StripeKnown /\ RequestsKnown

\* The refunds of an intent are more than a list holds.
Overfull(i) == Cardinality(RefundsOf(i)) > ListLimit

\* A request that is about to create a refund has listed, or inserted, so that a
\* refund already made for its row is another intent's, or still has its key, or was
\* one of too many to be listed.
KeysHeld ==
  \A u \in Refunders, n \in StripeNo :
    refunder[u].step = "calling" /\ stripe[n].row = refunder[u].row =>
      stripe[n].keyed \/ stripe[n].intent # refunder[u].intent \/ Overfull(refunder[u].intent)

\* Nothing is refunded of a booking that waits for its payment.
Fresh ==
  booking = "pending_payment" => ledger.refunded = 0 /\ ledger.reversed = 0

IInv ==
  /\ TypeOK /\ Links /\ KeysHeld /\ Fresh
  /\ ChargeRecordedOnce /\ RefundsRecordedOnce /\ ReversalMatches /\ RefundMadeOnce

LEMMA PaidStaysPaid ==
  ASSUME TypeOK, [Next]_vars
  PROVE  \A i \in IntentNo : intents[i].status = "succeeded" => intents'[i].status = "succeeded"
<1>1. CASE UNCHANGED intents
  BY <1>1
<1>2. ASSUME NEW c \in Checkouts, CreateIntent(c)
      PROVE  \A i \in IntentNo : intents[i].status = "succeeded" => intents'[i].status = "succeeded"
  <2>1. PICK i \in IntentNo :
          IsNext(intents, i) /\ intents' = [intents EXCEPT ![i].status = "open"]
    BY <1>2 DEF CreateIntent
  <2>2. intents[i].status = "none"
    BY <2>1 DEF IsNext, IntentNo
  <2> QED
    BY <2>1, <2>2 DEF TypeOK, Intents
<1>3. ASSUME NEW c \in Checkouts, SaveIntent(c)
      PROVE  \A i \in IntentNo : intents[i].status = "succeeded" => intents'[i].status = "succeeded"
  BY <1>3 DEF SaveIntent, TypeOK, Intents
<1>4. ASSUME NEW j \in IntentNo, GuestPays(j) \/ PaymentSettles(j)
      PROVE  \A i \in IntentNo : intents[i].status = "succeeded" => intents'[i].status = "succeeded"
  BY <1>4 DEF GuestPays, PaymentSettles, TypeOK, Intents
<1> QED
  BY <1>1, <1>2, <1>3, <1>4
     DEF Next, vars, stripeVars, ReadPayment, RetrieveIntent, CheckoutDies, OnPaymentSucceeded,
         OnPaymentFailed, RefundSettles, KeyExpires, OnRefundEvent, OnRefundFailed,
         OnDisputeCreated, LetGo, CompleteStay, CancelBooking, AdminRefund, FindAttempt,
         InsertRefund, ListRefunds, CreateRefund, LinkRefund, RefunderDies

\* What is next in a table is not in it yet.
LEMMA NextIsUnused ==
  ASSUME NEW table, NEW k \in Nat \ {0}, IsNext(table, k)
  PROVE  table[k].status = "none"
<1>1. k \in 1..k
  OBVIOUS
<1> QED
  BY <1>1 DEF IsNext

LEMMA RefundsAreFinite ==
  ASSUME NEW S \in SUBSET StripeNo
  PROVE  IsFiniteSet(S) /\ Cardinality(S) \in Nat
<1>1. IsFiniteSet(StripeNo)
  BY FS_Interval, AmountsAssumption DEF StripeNo
<1> QED
  BY <1>1, FS_Subset, FS_CardinalityType

\* A refund that is not listed is one of more than a list holds.
LEMMA NotListedIsOverfull ==
  ASSUME NEW i, NEW n \in RefundsOf(i), n \notin Latest(i)
  PROVE  Overfull(i)
<1> DEFINE All == RefundsOf(i)
           Later == {m \in All : m > n}
<1>1. All \subseteq StripeNo /\ Later \subseteq All /\ n \in All /\ n \notin Later
  BY DEF RefundsOf, StripeNo
<1>2. ~(Cardinality(Later) < ListLimit)
  BY DEF Latest
<1> HIDE DEF All, Later
<1>3. IsFiniteSet(All) /\ Cardinality(All) \in Nat /\ Cardinality(Later) \in Nat
  BY <1>1, RefundsAreFinite
<1>4. Cardinality(Later) <= Cardinality(All)
  BY <1>1, <1>3, FS_Subset
<1>5. Cardinality(Later) # Cardinality(All)
  BY <1>1, <1>3, FS_Subset
<1> QED
  BY <1>2, <1>3, <1>4, <1>5, AmountsAssumption DEF Overfull, All

\* Refunds are only added at Stripe.
OverfullStays == \A i : Overfull(i) => Overfull(i)'

LEMMA MoreRefunds ==
  ASSUME NEW i, RefundsOf(i) \subseteq RefundsOf(i)'
  PROVE  Cardinality(RefundsOf(i)) <= Cardinality(RefundsOf(i))'
<1>1. PICK S \in SUBSET StripeNo : S = RefundsOf(i)
  BY DEF RefundsOf
<1>2. PICK T \in SUBSET StripeNo : T = RefundsOf(i)'
  BY DEF RefundsOf
<1>3. Cardinality(S) <= Cardinality(T)
  BY <1>1, <1>2, RefundsAreFinite, FS_Subset
<1> QED
  BY <1>1, <1>2, <1>3

LEMMA StepAddsRefunds ==
  ASSUME TypeOK, [Next]_vars
  PROVE  (\A i : RefundsOf(i) \subseteq RefundsOf(i)') /\ OverfullStays
<1>1. \A i : RefundsOf(i) \subseteq RefundsOf(i)'
  <2>1. CASE UNCHANGED stripe
    BY <2>1 DEF RefundsOf
  <2>2. ASSUME NEW n \in StripeNo, RefundSettles(n) \/ KeyExpires(n)
        PROVE  \A i : RefundsOf(i) \subseteq RefundsOf(i)'
    BY <2>2 DEF RefundSettles, KeyExpires, TypeOK, StripeRefunds, RefundsOf
  <2>3. ASSUME NEW u \in Refunders, CreateRefund(u), ~UNCHANGED stripe
        PROVE  \A i : RefundsOf(i) \subseteq RefundsOf(i)'
    <3>1. PICK n, new :
            n \in StripeNo /\ IsNext(stripe, n) /\ stripe' = [stripe EXCEPT ![n] = new]
      BY <2>3, ZenonT(60) DEF CreateRefund
    <3>2. stripe[n].status = "none"
      BY <3>1, NextIsUnused DEF StripeNo
    <3> QED
      BY <3>1, <3>2 DEF TypeOK, RefundsOf
  <2> QED
    BY <2>1, <2>2, <2>3
       DEF Next, vars, stripeVars, ReadPayment, RetrieveIntent, CreateIntent, SaveIntent,
           CheckoutDies, GuestPays, PaymentSettles, OnPaymentSucceeded, OnPaymentFailed,
           OnRefundEvent, OnRefundFailed, OnDisputeCreated, LetGo, CompleteStay, CancelBooking,
           AdminRefund, FindAttempt, InsertRefund, ListRefunds, LinkRefund, RefunderDies
<1>2. ASSUME NEW i, Overfull(i) PROVE Overfull(i)'
  <2>1. PICK a \in Nat : a = Cardinality(RefundsOf(i))
    BY RefundsAreFinite DEF RefundsOf
  <2>2. PICK T \in SUBSET StripeNo : T = RefundsOf(i)'
    BY DEF RefundsOf
  <2>3. Cardinality(T) \in Nat /\ a <= Cardinality(T)
    BY <1>1, <2>1, <2>2, MoreRefunds, RefundsAreFinite
  <2>4. Cardinality(T) > ListLimit
    BY <1>2, <2>1, <2>3, AmountsAssumption DEF Overfull
  <2> QED
    BY <2>2, <2>4 DEF Overfull
<1> QED
  BY <1>1, <1>2 DEF OverfullStays

\* Steps that write no row of refunds, no refund at Stripe and no request for one.
Quiet == UNCHANGED <<refunds, stripe, refunder>>

LEMMA QuietKeepsLinks ==
  ASSUME TypeOK, Links, KeysHeld, Quiet, [Next]_vars, PaidHasIntent', OverfullStays
  PROVE  Links' /\ KeysHeld'
<1>1. \A i \in IntentNo : intents[i].status = "succeeded" => intents'[i].status = "succeeded"
  BY PaidStaysPaid
<1>2. RowsLinked' /\ RequestsKnown' /\ KeysHeld'
  BY DEF Links, Quiet, RowsLinked, RequestsKnown, KeysHeld, OverfullStays
<1>3. StripeKnown'
  BY <1>1 DEF Links, Quiet, StripeKnown
<1> QED
  BY <1>2, <1>3 DEF Links

LEMMA WebhookKeepsLinks ==
  ASSUME TypeOK, Links, KeysHeld, OverfullStays, NEW n \in StripeNo,
         RefundSettles(n) \/ KeyExpires(n) \/ OnRefundEvent(n) \/ OnRefundFailed(n)
  PROVE  Links' /\ KeysHeld'
<1> USE DEF Links, stripeVars, bookVars, requestVars
<1>1. CASE RefundSettles(n)
  <2>1. /\ UNCHANGED <<payment, intents, refunds, refunder>>
        /\ \A m \in StripeNo :
             /\ stripe'[m].row = stripe[m].row /\ stripe'[m].intent = stripe[m].intent
             /\ stripe'[m].keyed = stripe[m].keyed
             /\ stripe'[m].status = "none" <=> stripe[m].status = "none"
    BY <1>1 DEF RefundSettles, TypeOK, StripeRefunds
  <2>2. PaidHasIntent' /\ StripeKnown' /\ KeysHeld'
    BY <2>1 DEF PaidHasIntent, StripeKnown, KeysHeld, OverfullStays
  <2>3. RowsLinked' /\ RequestsKnown'
    <3>1. \A r \in RefundNo : refunds[r].link # 0 => refunds[r].link \in StripeNo
      BY AmountsAssumption DEF TypeOK, Refunds, StripeNo
    <3> QED
      BY <2>1, <3>1 DEF RowsLinked, RequestsKnown
  <2> QED
    BY <2>2, <2>3
<1>2. CASE KeyExpires(n)
  <2>1. /\ UNCHANGED <<payment, intents, refunds, refunder>>
        /\ \A m \in StripeNo :
             /\ stripe'[m].row = stripe[m].row /\ stripe'[m].intent = stripe[m].intent
             /\ stripe'[m].status = stripe[m].status
             /\ m # n => stripe'[m].keyed = stripe[m].keyed
        /\ \A u \in Refunders : refunder[u].row # stripe[n].row
    BY <1>2 DEF KeyExpires, TypeOK, StripeRefunds
  <2>2. PaidHasIntent' /\ StripeKnown' /\ KeysHeld'
    BY <2>1 DEF PaidHasIntent, StripeKnown, KeysHeld, OverfullStays
  <2>3. RowsLinked' /\ RequestsKnown'
    <3>1. \A r \in RefundNo : refunds[r].link # 0 => refunds[r].link \in StripeNo
      BY AmountsAssumption DEF TypeOK, Refunds, StripeNo
    <3> QED
      BY <2>1, <3>1 DEF RowsLinked, RequestsKnown
  <2> QED
    BY <2>2, <2>3
<1>3. ASSUME UNCHANGED <<intents, stripe, refunder>>, PaidHasIntent',
             \A r \in RefundNo :
               /\ refunds'[r].link = refunds[r].link
               /\ refunds[r].status # "none" => refunds'[r].status # "none"
      PROVE  Links' /\ KeysHeld'
  <2>1. RowsLinked' /\ RequestsKnown' /\ KeysHeld'
    BY <1>3 DEF RowsLinked, RequestsKnown, KeysHeld, OverfullStays
  <2>2. StripeKnown'
    <3>1. \A m \in StripeNo : stripe[m].row # 0 => stripe[m].row \in RefundNo
      BY AmountsAssumption DEF TypeOK, StripeRefunds, RefundNo
    <3> QED
      BY <1>3, <3>1 DEF StripeKnown
  <2> QED
    BY <1>3, <2>1, <2>2
<1>4. CASE OnRefundEvent(n)
  <2>1. UNCHANGED <<intents, stripe, refunder>>
    BY <1>4 DEF OnRefundEvent
  <2>2. CASE UNCHANGED <<payment, refunds>>
    BY <1>3, <2>1, <2>2 DEF PaidHasIntent
  <2>3. ASSUME NEW r \in RefundNo, RecordRefund(r), payment.intent = stripe[n].intent
        PROVE  Links' /\ KeysHeld'
    <3>1. payment'.intent = stripe[n].intent
      BY <2>3 DEF RecordRefund, TypeOK, Payments
    <3>2. stripe[n].intent \in IntentNo
      BY <1>4 DEF OnRefundEvent, StripeKnown
    <3>3. PaidHasIntent'
      BY <3>1, <3>2 DEF PaidHasIntent
    <3>4. \A q \in RefundNo :
            /\ refunds'[q].link = refunds[q].link
            /\ refunds[q].status # "none" => refunds'[q].status # "none"
      BY <2>3 DEF RecordRefund, TypeOK, Refunds
    <3> QED
      BY <1>3, <2>1, <3>3, <3>4
  <2> QED
    BY <1>4, <2>2, <2>3 DEF OnRefundEvent
<1>5. CASE OnRefundFailed(n)
  BY <1>3, <1>5 DEF OnRefundFailed, PaidHasIntent, TypeOK, Refunds
<1> QED
  BY <1>1, <1>2, <1>4, <1>5

\* What a request must know in a state of its own.
Knows(state) ==
  /\ state.step # "idle" => state.intent \in IntentNo
  /\ state.step \in {"listing", "calling", "linking"} =>
       state.row \in RefundNo /\ refunds[state.row].status # "none"
  /\ state.step = "linking" => state.refund \in StripeNo /\ stripe[state.refund].row = state.row
  /\ state.step = "calling" =>
       \A n \in StripeNo : stripe[n].row = state.row =>
         stripe[n].keyed \/ stripe[n].intent # state.intent \/ Overfull(state.intent)

LEMMA EachKnows ==
  ASSUME Links, KeysHeld
  PROVE  \A v \in Refunders : Knows(refunder[v])
BY DEF Links, KeysHeld, RequestsKnown, Knows

LEMMA AllKnow ==
  ASSUME \A v \in Refunders : Knows(refunder[v])
  PROVE  RequestsKnown /\ KeysHeld
BY DEF KeysHeld, RequestsKnown, Knows

\* A request that moves on and writes nothing else.
LEMMA MoveKeepsLinks ==
  ASSUME TypeOK, Links, KeysHeld, OverfullStays, NEW u \in Refunders, NEW state, Knows(state),
         refunder' = [refunder EXCEPT ![u] = state],
         UNCHANGED <<payment, intents, refunds, stripe>>
  PROVE  Links' /\ KeysHeld'
<1>1. PaidHasIntent' /\ RowsLinked' /\ StripeKnown'
  BY DEF Links, PaidHasIntent, RowsLinked, StripeKnown
<1>2. \A v \in Refunders : Knows(refunder[v])'
  <2>1. \A v \in Refunders : refunder'[v] = IF v = u THEN state ELSE refunder[v]
    BY DEF TypeOK
  <2>2. \A v \in Refunders : Knows(refunder'[v])
    BY <2>1, EachKnows
  <2> QED
    BY <2>2 DEF Knows, OverfullStays
<1>3. RequestsKnown' /\ KeysHeld'
  BY <1>2 DEF KeysHeld, RequestsKnown, Knows
<1> QED
  BY <1>1, <1>3 DEF Links

LEMMA AskKeepsLinks ==
  ASSUME TypeOK, Links, KeysHeld, OverfullStays, NEW u \in Refunders, NEW amount,
         AskRefund(u, amount),
         payment.status \in {"paid", "partially_refunded"},
         UNCHANGED <<payment, intents, refunds, stripe>>
  PROVE  Links' /\ KeysHeld'
<1>1. PICK reason \in Reasons :
        refunder' = [refunder EXCEPT ![u] = [NoRequest EXCEPT
          !.step = "checked", !.amount = amount, !.reason = reason, !.intent = payment.intent]]
  BY DEF AskRefund
<1>2. payment.intent \in IntentNo
  BY DEF Links, PaidHasIntent
<1>3. Knows([NoRequest EXCEPT !.step = "checked", !.amount = amount, !.reason = reason,
                              !.intent = payment.intent])
  BY <1>2 DEF Knows, NoRequest
<1> QED
  BY <1>1, <1>3, MoveKeepsLinks

LEMMA RequestKeepsLinks ==
  ASSUME TypeOK, Links, KeysHeld, OverfullStays, NEW u \in Refunders,
         \/ CancelBooking(u) \/ AdminRefund(u) \/ FindAttempt(u) \/ InsertRefund(u)
         \/ ListRefunds(u) \/ CreateRefund(u) \/ LinkRefund(u) \/ RefunderDies(u)
  PROVE  Links' /\ KeysHeld'
<1> USE DEF stripeVars, bookVars, requestVars
<1>0. /\ refunder[u] \in RefunderStates
      /\ Knows(refunder[u])
  BY EachKnows DEF TypeOK
<1>1. CASE CancelBooking(u)
  <2>1. CASE UNCHANGED refunder
    <3>1. UNCHANGED <<payment, intents, refunds, stripe, refunder>>
      BY <1>1, <2>1 DEF CancelBooking
    <3> QED
      BY <3>1 DEF Links, KeysHeld, PaidHasIntent, RowsLinked, StripeKnown, RequestsKnown,
                  OverfullStays
  <2>2. ASSUME NEW amount \in Amounts, AskRefund(u, amount), payment.status = "paid"
        PROVE  Links' /\ KeysHeld'
    BY <1>1, <2>2, AskKeepsLinks DEF CancelBooking
  <2> QED
    BY <1>1, <2>1, <2>2 DEF CancelBooking
<1>2. CASE AdminRefund(u)
  BY <1>2, AskKeepsLinks DEF AdminRefund
<1>3. CASE FindAttempt(u)
  <2> DEFINE same == {r \in RefundNo : /\ refunds[r].status = "pending"
                                       /\ refunds[r].amount = refunder[u].amount
                                       /\ refunds[r].reason = refunder[u].reason}
             listing == [refunder[u] EXCEPT !.step = "listing", !.row = Max(same)]
             inserting == [refunder[u] EXCEPT !.step = "inserting"]
  <2>1. /\ refunder[u].step = "checked"
        /\ \/ same # {} /\ refunder' = [refunder EXCEPT ![u] = listing]
           \/ refunder' = [refunder EXCEPT ![u] = inserting]
        /\ UNCHANGED <<payment, intents, refunds, stripe>>
    BY <1>3 DEF FindAttempt
  <2>2. same # {} => Max(same) \in RefundNo /\ refunds[Max(same)].status = "pending"
    <3>1. same # {} => Max(same) \in same
      BY LargestRow
    <3> QED
      BY <3>1
  <2>3. same # {} => Knows(listing)
    <3> HIDE DEF same
    <3> QED
      BY <1>0, <2>1, <2>2 DEF Knows, RefunderStates
  <2>4. Knows(inserting)
    BY <1>0, <2>1 DEF Knows, RefunderStates
  <2> HIDE DEF same, listing, inserting
  <2> QED
    BY <2>1, <2>3, <2>4, MoveKeepsLinks
<1>4. CASE InsertRefund(u)
  <2>1. PICK r \in RefundNo :
          /\ IsNext(refunds, r)
          /\ refunds' = [refunds EXCEPT ![r] = [status |-> "pending",
               amount |-> refunder[u].amount, reason |-> refunder[u].reason, link |-> 0]]
          /\ refunder' = [refunder EXCEPT ![u] =
               [refunder[u] EXCEPT !.step = "calling", !.row = r]]
    BY <1>4 DEF InsertRefund
  <2>2. refunder[u].step = "inserting" /\ UNCHANGED <<payment, intents, stripe>>
    BY <1>4 DEF InsertRefund
  <2>3. refunds[r].status = "none"
    BY <2>1, NextIsUnused DEF RefundNo
  <2>4. \A q \in RefundNo :
          /\ q # r => refunds'[q] = refunds[q]
          /\ refunds'[r].status = "pending" /\ refunds'[r].link = 0
    BY <2>1 DEF TypeOK
  <2>5. \A n \in StripeNo : stripe[n].row # 0 =>
          stripe[n].row \in RefundNo /\ stripe[n].row # r
    BY <2>3, AmountsAssumption DEF Links, StripeKnown, TypeOK, StripeRefunds, RefundNo
  <2>6. PaidHasIntent'
    BY <2>2 DEF Links, PaidHasIntent
  <2>7. RowsLinked'
    <3>1. ASSUME NEW q \in RefundNo, refunds'[q].link # 0
          PROVE  stripe'[refunds'[q].link].row = q
      <4>1. refunds'[q] = refunds[q]
        BY <2>4, <3>1
      <4> QED
        BY <2>2, <3>1, <4>1 DEF Links, RowsLinked
    <3> QED
      BY <3>1 DEF RowsLinked
  <2>8. StripeKnown'
    <3>1. \A n \in StripeNo : stripe[n].row # 0 => refunds'[stripe[n].row] = refunds[stripe[n].row]
      BY <2>4, <2>5
    <3> QED
      BY <2>2, <3>1 DEF Links, StripeKnown
  <2>9. \A q \in RefundNo : refunds[q].status # "none" => refunds'[q].status # "none"
    BY <2>4
  <2>10. \A v \in Refunders : Knows(refunder[v])'
    <3> SUFFICES ASSUME NEW v \in Refunders PROVE Knows(refunder[v])'
      OBVIOUS
    <3>1. CASE v # u
      <4>1. refunder'[v] = refunder[v]
        BY <2>1, <3>1 DEF TypeOK
      <4>2. Knows(refunder[v])
        BY EachKnows
      <4> QED
        BY <2>2, <2>9, <4>1, <4>2 DEF Knows, OverfullStays
    <3>2. CASE v = u
      <4>1. /\ refunder'[u].step = "calling" /\ refunder'[u].row = r
            /\ refunder'[u].intent = refunder[u].intent
        BY <1>0, <2>1 DEF TypeOK, RefunderStates
      <4>2. refunder[u].intent \in IntentNo
        BY <1>0, <2>2 DEF Knows
      <4>3. \A n \in StripeNo : stripe[n].row # r
        BY <2>5, AmountsAssumption DEF RefundNo
      <4> QED
        BY <2>2, <2>4, <3>2, <4>1, <4>2, <4>3 DEF Knows
    <3> QED
      BY <3>1, <3>2
  <2>11. RequestsKnown' /\ KeysHeld'
    BY <2>10 DEF KeysHeld, RequestsKnown, Knows
  <2> QED
    BY <2>6, <2>7, <2>8, <2>11 DEF Links
<1>5. CASE ListRefunds(u)
  <2>1. refunder[u].step = "listing" /\ UNCHANGED <<payment, intents, refunds, stripe>>
    BY <1>5 DEF ListRefunds
  <2>2. ASSUME NEW n \in Found(u), refunder' = [refunder EXCEPT ![u] =
                 [refunder[u] EXCEPT !.step = "linking", !.refund = n]]
        PROVE  Links' /\ KeysHeld'
    <3>1. n \in StripeNo /\ stripe[n].row = refunder[u].row
      BY <2>2 DEF Found, Latest, RefundsOf
    <3>2. Knows([refunder[u] EXCEPT !.step = "linking", !.refund = n])
      BY <1>0, <2>1, <3>1 DEF Knows, RefunderStates
    <3> QED
      BY <2>1, <2>2, <3>2, MoveKeepsLinks
  <2>3. ASSUME Found(u) = {}, refunder' = [refunder EXCEPT ![u] =
                 [refunder[u] EXCEPT !.step = "calling"]]
        PROVE  Links' /\ KeysHeld'
    <3>1. ASSUME NEW n \in StripeNo, stripe[n].row = refunder[u].row,
                 stripe[n].intent = refunder[u].intent
          PROVE  Overfull(refunder[u].intent)
      <4>1. refunder[u].row # 0
        BY <1>0, <2>1 DEF Knows, RefundNo
      <4>2. n \in RefundsOf(refunder[u].intent)
        BY <3>1, <4>1 DEF Links, StripeKnown, RefundsOf
      <4>3. n \notin Latest(refunder[u].intent)
        BY <2>3, <3>1 DEF Found
      <4> QED
        BY <4>2, <4>3, NotListedIsOverfull
    <3>2. Knows([refunder[u] EXCEPT !.step = "calling"])
      BY <1>0, <2>1, <3>1 DEF Knows, RefunderStates
    <3> QED
      BY <2>1, <2>3, <3>2, MoveKeepsLinks
  <2> QED
    BY <1>5, <2>2, <2>3 DEF ListRefunds
<1>6. CASE CreateRefund(u)
  <2> DEFINE moved(n) == [refunder[u] EXCEPT !.step = "linking", !.refund = n]
  <2>1. PICK n \in StripeNo :
          /\ \/ stripe[n].row = refunder[u].row /\ UNCHANGED stripe
             \/ /\ IsNext(stripe, n)
                /\ intents[refunder[u].intent].status = "succeeded"
                /\ \E status \in {"pending", "succeeded"} :
                     stripe' = [stripe EXCEPT ![n] = [status |-> status,
                       intent |-> refunder[u].intent, row |-> refunder[u].row, keyed |-> TRUE]]
          /\ refunder' = [refunder EXCEPT ![u] = moved(n)]
    BY <1>6, ZenonT(60) DEF CreateRefund
  <2>2. refunder[u].step = "calling" /\ UNCHANGED <<payment, intents, refunds>>
    BY <1>6 DEF CreateRefund
  <2>3. CASE stripe[n].row = refunder[u].row /\ UNCHANGED stripe
    <3>1. Knows(moved(n))
      BY <1>0, <2>2, <2>3 DEF Knows, RefunderStates
    <3> QED
      BY <2>1, <2>2, <2>3, <3>1, MoveKeepsLinks
  <2>4. ASSUME IsNext(stripe, n), intents[refunder[u].intent].status = "succeeded",
               NEW status \in {"pending", "succeeded"},
               stripe' = [stripe EXCEPT ![n] = [status |-> status,
                 intent |-> refunder[u].intent, row |-> refunder[u].row, keyed |-> TRUE]]
        PROVE  Links' /\ KeysHeld'
    <3>1. stripe[n].status = "none" /\ stripe[n].row = 0
      <4>1. stripe[n].status = "none"
        BY <2>4, NextIsUnused DEF StripeNo
      <4> QED
        BY <4>1 DEF Links, StripeKnown
    <3>2. /\ stripe'[n] = [status |-> status, intent |-> refunder[u].intent,
                           row |-> refunder[u].row, keyed |-> TRUE]
          /\ \A m \in StripeNo : m # n => stripe'[m] = stripe[m]
      BY <2>4 DEF TypeOK
    <3>3. /\ refunder[u].intent \in IntentNo /\ refunder[u].row \in RefundNo
          /\ refunds[refunder[u].row].status # "none"
      BY <1>0, <2>2 DEF Knows
    <3>4. refunder[u].row # 0
      BY <3>3 DEF RefundNo
    <3>5. PaidHasIntent'
      BY <2>2 DEF Links, PaidHasIntent
    <3>6. RowsLinked'
      <4> SUFFICES ASSUME NEW q \in RefundNo, refunds[q].link # 0
                   PROVE  stripe'[refunds[q].link].row = q
        BY <2>2 DEF RowsLinked
      <4>1. refunds[q].link \in StripeNo
        BY AmountsAssumption DEF TypeOK, Refunds, StripeNo
      <4>2. stripe[refunds[q].link].row = q
        BY DEF Links, RowsLinked
      <4>3. q # 0
        BY DEF RefundNo
      <4>4. refunds[q].link # n
        BY <3>1, <4>2, <4>3
      <4> QED
        BY <3>2, <4>1, <4>2, <4>4
    <3>7. StripeKnown'
      <4> SUFFICES ASSUME NEW m \in StripeNo
                   PROVE  /\ stripe'[m].row = 0 <=> stripe'[m].status = "none"
                          /\ stripe'[m].row # 0 =>
                               /\ refunds[stripe'[m].row].status # "none"
                               /\ stripe'[m].intent \in IntentNo
                               /\ intents[stripe'[m].intent].status = "succeeded"
        BY <2>2 DEF StripeKnown
      <4>1. CASE m = n
        BY <2>4, <3>2, <3>3, <3>4, <4>1
      <4>2. CASE m # n
        BY <3>2, <4>2 DEF Links, StripeKnown
      <4> QED
        BY <4>1, <4>2
    <3>8. \A v \in Refunders : Knows(refunder[v])'
      <4> SUFFICES ASSUME NEW v \in Refunders PROVE Knows(refunder[v])'
        OBVIOUS
      <4>1. CASE v # u
        <5>1. refunder'[v] = refunder[v]
          BY <2>1, <4>1 DEF TypeOK
        <5>2. Knows(refunder[v])
          BY EachKnows
        <5>3. refunder[v].step = "linking" => refunder[v].refund # n
          BY <3>1, <5>2 DEF Knows, RefundNo
        <5> QED
          BY <2>2, <3>2, <5>1, <5>2, <5>3 DEF Knows, OverfullStays
      <4>2. CASE v = u
        <5>1. refunder'[u].step = "linking" /\ refunder'[u].refund = n
              /\ refunder'[u].row = refunder[u].row /\ refunder'[u].intent = refunder[u].intent
          BY <1>0, <2>1 DEF TypeOK, RefunderStates
        <5> QED
          BY <2>2, <3>2, <3>3, <4>2, <5>1 DEF Knows
      <4> QED
        BY <4>1, <4>2
    <3>9. RequestsKnown' /\ KeysHeld'
      BY <3>8 DEF KeysHeld, RequestsKnown, Knows
    <3> QED
      BY <3>5, <3>6, <3>7, <3>9 DEF Links
  <2> QED
    BY <2>1, <2>3, <2>4
<1>7. CASE LinkRefund(u)
  <2> DEFINE row == refunder[u].row
             refund == refunder[u].refund
  <2>1. /\ refunder[u].step = "linking" /\ UNCHANGED <<payment, intents, stripe>>
        /\ refunds' = [refunds EXCEPT ![row].link = refund]
        /\ refunder' = [refunder EXCEPT ![u] = NoRequest]
    BY <1>7 DEF LinkRefund
  <2>2. row \in RefundNo /\ refund \in StripeNo /\ stripe[refund].row = row
    BY <1>0, <2>1 DEF Knows
  <2>3. \A q \in RefundNo :
          /\ refunds'[q].status = refunds[q].status
          /\ refunds'[q].link = IF q = row THEN refund ELSE refunds[q].link
    BY <2>1 DEF TypeOK, Refunds
  <2>4. PaidHasIntent' /\ RowsLinked'
    BY <2>1, <2>2, <2>3 DEF Links, PaidHasIntent, RowsLinked
  <2>5. StripeKnown'
    <3>1. \A n \in StripeNo : stripe[n].row # 0 => stripe[n].row \in RefundNo
      BY AmountsAssumption DEF TypeOK, StripeRefunds, RefundNo
    <3> QED
      BY <2>1, <2>3, <3>1 DEF Links, StripeKnown
  <2>6. \A v \in Refunders : refunder'[v] = IF v = u THEN NoRequest ELSE refunder[v]
    BY <2>1 DEF TypeOK
  <2>7. RequestsKnown' /\ KeysHeld'
    BY <2>1, <2>3, <2>6 DEF Links, RequestsKnown, KeysHeld, NoRequest, OverfullStays
  <2> QED
    BY <2>4, <2>5, <2>7 DEF Links
<1>8. CASE RefunderDies(u)
  <2>1. Knows(NoRequest)
    BY DEF Knows, NoRequest
  <2> QED
    BY <1>8, <2>1, MoveKeepsLinks DEF RefunderDies
<1> QED
  BY <1>1, <1>2, <1>3, <1>4, <1>5, <1>6, <1>7, <1>8

LEMMA StepKeepsLinks == TypeOK /\ Links /\ KeysHeld /\ [Next]_vars => Links' /\ KeysHeld'
<1> SUFFICES ASSUME TypeOK, Links, KeysHeld, [Next]_vars PROVE Links' /\ KeysHeld'
  OBVIOUS
<1> USE DEF stripeVars, bookVars, requestVars
<1>0. OverfullStays
  BY StepAddsRefunds
<1>1. CASE UNCHANGED vars
  BY <1>0, <1>1, QuietKeepsLinks DEF vars, Quiet, Links, PaidHasIntent
<1>2. ASSUME NEW c \in Checkouts,
             \/ ReadPayment(c) \/ RetrieveIntent(c) \/ CreateIntent(c) \/ SaveIntent(c)
             \/ CheckoutDies(c)
      PROVE  Links' /\ KeysHeld'
  <2>1. Quiet
    BY <1>2 DEF Quiet, ReadPayment, RetrieveIntent, CreateIntent, SaveIntent, CheckoutDies
  <2>2. UNCHANGED payment \/ payment'.status = "pending"
    BY <1>2 DEF ReadPayment, RetrieveIntent, CreateIntent, SaveIntent, CheckoutDies
  <2>3. PaidHasIntent'
    BY <2>2 DEF Links, PaidHasIntent
  <2> QED
    BY <1>0, <2>1, <2>3, QuietKeepsLinks
<1>3. ASSUME NEW i \in IntentNo,
             GuestPays(i) \/ PaymentSettles(i) \/ OnPaymentSucceeded(i) \/ OnPaymentFailed(i)
      PROVE  Links' /\ KeysHeld'
  <2>1. Quiet
    BY <1>3 DEF Quiet, GuestPays, PaymentSettles, OnPaymentSucceeded, OnPaymentFailed
  <2>2. UNCHANGED payment \/ payment'.intent = i
    BY <1>3 DEF GuestPays, PaymentSettles, OnPaymentSucceeded, OnPaymentFailed, TypeOK, Payments
  <2>3. PaidHasIntent'
    BY <2>2 DEF Links, PaidHasIntent
  <2> QED
    BY <1>0, <2>1, <2>3, QuietKeepsLinks
<1>4. CASE OnDisputeCreated \/ LetGo \/ CompleteStay
  <2>1. Quiet /\ UNCHANGED payment
    BY <1>4 DEF Quiet, OnDisputeCreated, LetGo, CompleteStay
  <2> QED
    BY <1>0, <2>1, QuietKeepsLinks DEF Links, PaidHasIntent
<1> QED
  BY <1>0, <1>1, <1>2, <1>3, <1>4, WebhookKeepsLinks, RequestKeepsLinks DEF Next

-----------------------------------------------------------------------------
(* A refund is made once.                                                  *)

\* Only CreateRefund makes refunds at Stripe.
LEMMA RowsAtStripeStand ==
  ASSUME TypeOK, [Next]_vars, \A u \in Refunders : ~CreateRefund(u)
  PROVE  \A n \in StripeNo : /\ stripe'[n].row = stripe[n].row
                             /\ stripe'[n].intent = stripe[n].intent
                             /\ stripe'[n].status = "none" <=> stripe[n].status = "none"
<1>1. CASE UNCHANGED stripe
  BY <1>1
<1>2. ASSUME NEW k \in StripeNo, RefundSettles(k) \/ KeyExpires(k)
      PROVE  \A n \in StripeNo : /\ stripe'[n].row = stripe[n].row
                                 /\ stripe'[n].intent = stripe[n].intent
                                 /\ stripe'[n].status = "none" <=> stripe[n].status = "none"
  BY <1>2 DEF RefundSettles, KeyExpires, TypeOK, StripeRefunds
<1> QED
  BY <1>1, <1>2
     DEF Next, vars, stripeVars, ReadPayment, RetrieveIntent, CreateIntent, SaveIntent,
         CheckoutDies, GuestPays, PaymentSettles, OnPaymentSucceeded, OnPaymentFailed,
         OnRefundEvent, OnRefundFailed, OnDisputeCreated, LetGo, CompleteStay, CancelBooking,
         AdminRefund, FindAttempt, InsertRefund, ListRefunds, LinkRefund, RefunderDies

\* How many refunds an intent has had never shrinks.
LEMMA TooManyStays ==
  ASSUME TypeOK, [Next]_vars, NEW i, Cardinality(RefundsOf(i)) > ListLimit + 1
  PROVE  Cardinality(RefundsOf(i))' > ListLimit + 1
<1>1. PICK a \in Nat : a = Cardinality(RefundsOf(i))
  BY RefundsAreFinite DEF RefundsOf
<1>2. PICK T \in SUBSET StripeNo : T = RefundsOf(i)'
  BY DEF RefundsOf
<1>3. Cardinality(T) \in Nat /\ a <= Cardinality(T)
  BY <1>1, <1>2, StepAddsRefunds, MoreRefunds, RefundsAreFinite
<1>4. Cardinality(T) > ListLimit + 1
  BY <1>1, <1>3, AmountsAssumption
<1> QED
  BY <1>2, <1>4

\* One more refund of an intent whose refunds were too many to be listed.
LEMMA OneMoreRefund ==
  ASSUME NEW i, Overfull(i), NEW k \in StripeNo, k \notin RefundsOf(i), k \in RefundsOf(i)',
         RefundsOf(i) \subseteq RefundsOf(i)'
  PROVE  Cardinality(RefundsOf(i))' > ListLimit + 1
<1>1. PICK S \in SUBSET StripeNo : S = RefundsOf(i)
  BY DEF RefundsOf
<1>2. PICK T \in SUBSET StripeNo : T = RefundsOf(i)'
  BY DEF RefundsOf
<1>3. S \subseteq T /\ k \in T /\ k \notin S
  BY <1>1, <1>2
<1>4. IsFiniteSet(T) /\ Cardinality(S) \in Nat /\ Cardinality(T) \in Nat
  BY RefundsAreFinite
<1>5. Cardinality(S) <= Cardinality(T)
  BY <1>3, <1>4, FS_Subset
<1>6. Cardinality(S) # Cardinality(T)
  BY <1>3, <1>4, FS_Subset
<1>7. Cardinality(S) > ListLimit
  BY <1>1 DEF Overfull
<1>8. Cardinality(T) > ListLimit + 1
  BY <1>4, <1>5, <1>6, <1>7, AmountsAssumption
<1> QED
  BY <1>2, <1>8

LEMMA StepMakesOnce ==
  TypeOK /\ Links /\ KeysHeld /\ RefundMadeOnce /\ [Next]_vars => RefundMadeOnce'
<1> SUFFICES ASSUME TypeOK, Links, KeysHeld, RefundMadeOnce, [Next]_vars,
                    NEW i \in IntentNo, NEW m \in RefundsOf(i)', NEW n \in RefundsOf(i)',
                    m # n, stripe'[m].row = stripe'[n].row
             PROVE  Cardinality(RefundsOf(i))' > ListLimit + 1
  BY DEF RefundMadeOnce
<1>1. CASE /\ m \in RefundsOf(i) /\ n \in RefundsOf(i)
           /\ stripe'[m].row = stripe[m].row /\ stripe'[n].row = stripe[n].row
  <2>1. Cardinality(RefundsOf(i)) > ListLimit + 1
    BY <1>1 DEF RefundMadeOnce
  <2> QED
    BY <2>1, TooManyStays
<1>2. CASE \A u \in Refunders : ~CreateRefund(u)
  BY <1>1, <1>2, RowsAtStripeStand DEF RefundsOf
<1>3. ASSUME NEW u \in Refunders, CreateRefund(u)
      PROVE  Cardinality(RefundsOf(i))' > ListLimit + 1
  <2>1. CASE UNCHANGED stripe
    BY <1>1, <2>1 DEF RefundsOf
  <2>2. ASSUME {q \in StripeNo : stripe[q].row = refunder[u].row /\ stripe[q].keyed} = {},
               NEW k \in StripeNo, IsNext(stripe, k), NEW status \in {"pending", "succeeded"},
               stripe' = [stripe EXCEPT ![k] =
                 [status |-> status, intent |-> refunder[u].intent, row |-> refunder[u].row,
                  keyed |-> TRUE]]
        PROVE  Cardinality(RefundsOf(i))' > ListLimit + 1
    <3>1. PICK r, j : r = refunder[u].row /\ j = refunder[u].intent
      OBVIOUS
    <3>2. /\ stripe'[k] = [status |-> status, intent |-> j, row |-> r, keyed |-> TRUE]
          /\ \A q \in StripeNo : q # k => stripe'[q] = stripe[q]
      BY <2>2, <3>1 DEF TypeOK
    <3>3. CASE m # k /\ n # k
      BY <1>1, <3>2, <3>3 DEF RefundsOf
    <3>4. ASSUME NEW q \in RefundsOf(j), stripe[q].row = r
          PROVE  Overfull(j)
      <4>1. q \in StripeNo /\ stripe[q].intent = j
        BY <3>4 DEF RefundsOf
      <4>2. ~stripe[q].keyed
        BY <2>2, <3>1, <3>4, <4>1
      <4>3. refunder[u].step = "calling"
        BY <1>3 DEF CreateRefund
      <4> QED
        BY <3>1, <3>4, <4>1, <4>2, <4>3 DEF KeysHeld
    <3>5. CASE m = k \/ n = k
      <4>1. i = j
        BY <3>2, <3>5 DEF RefundsOf
      <4>2. PICK q \in {m, n} : q # k
        BY <3>5
      <4>3. q \in RefundsOf(j) /\ stripe[q].row = r
        BY <3>2, <3>5, <4>1, <4>2 DEF RefundsOf
      <4>4. Overfull(i)
        BY <3>4, <4>1, <4>3
      <4>5. k \notin RefundsOf(i)
        BY <2>2, NextIsUnused DEF RefundsOf, StripeNo
      <4>6. k \in RefundsOf(i)'
        BY <3>5
      <4>7. RefundsOf(i) \subseteq RefundsOf(i)'
        BY StepAddsRefunds
      <4> QED
        BY <4>4, <4>5, <4>6, <4>7, OneMoreRefund
    <3> QED
      BY <3>3, <3>5
  <2> QED
    BY <1>3, <2>1, <2>2 DEF CreateRefund
<1> QED
  BY <1>2, <1>3

-----------------------------------------------------------------------------
(* The ledger and the payout.                                              *)

\* A refund that has succeeded stays, and stays its row's.
LEMMA SucceededStands ==
  ASSUME TypeOK, Links, [Next]_vars
  PROVE  \A n \in StripeNo : stripe[n].status = "succeeded" =>
           stripe'[n].status = "succeeded" /\ stripe'[n].row = stripe[n].row
<1> DEFINE Stands == \A n \in StripeNo : stripe[n].status = "succeeded" =>
             stripe'[n].status = "succeeded" /\ stripe'[n].row = stripe[n].row
<1>1. ASSUME UNCHANGED stripe
      PROVE  Stands
  BY <1>1
<1>2. ASSUME NEW n \in StripeNo, RefundSettles(n) \/ KeyExpires(n)
      PROVE  Stands
  BY <1>2 DEF RefundSettles, KeyExpires, TypeOK, StripeRefunds
<1>3. ASSUME NEW u \in Refunders, CreateRefund(u)
      PROVE  Stands
  <2>1. ASSUME NEW n \in StripeNo, IsNext(stripe, n), NEW new, stripe' = [stripe EXCEPT ![n] = new]
        PROVE  Stands
    <3>1. stripe[n].status = "none"
      BY <2>1, NextIsUnused DEF StripeNo
    <3> QED
      BY <2>1, <3>1 DEF TypeOK
  <2> QED
    BY <1>1, <1>3, <2>1 DEF CreateRefund
<1> HIDE DEF Stands
<1>4. Stands
  BY <1>1, <1>2, <1>3
     DEF Next, vars, stripeVars, ReadPayment, RetrieveIntent, CreateIntent, SaveIntent,
         CheckoutDies, GuestPays, PaymentSettles, OnPaymentSucceeded, OnPaymentFailed,
         OnRefundEvent, OnRefundFailed, OnDisputeCreated, LetGo, CompleteStay, CancelBooking,
         AdminRefund, FindAttempt, InsertRefund, ListRefunds, LinkRefund, RefunderDies
<1> QED
  BY <1>4 DEF Stands

Books == Fresh /\ ChargeRecordedOnce /\ RefundsRecordedOnce /\ ReversalMatches

\* A step that enters nothing: it leaves the succeeded rows as they are and sends no
\* booking back to wait for its payment.
EntersNothing ==
  /\ UNCHANGED ledger
  /\ booking' = "pending_payment" => booking = "pending_payment"
  /\ \A r \in RefundNo :
       /\ refunds'[r].status = "succeeded" <=> refunds[r].status = "succeeded"
       /\ refunds[r].status = "succeeded" => refunds'[r].amount = refunds[r].amount

LEMMA NothingKeepsBooks ==
  ASSUME TypeOK, Links, Books, [Next]_vars, EntersNothing,
         \/ UNCHANGED payout
         \/ payout.status = "scheduled" /\ payout' = [payout EXCEPT !.status = "cancelled"]
  PROVE  Books'
<1>1. payout'.status = "scheduled" => payout' = payout
  BY DEF TypeOK
<1>2. payout'.status # "none" <=> payout.status # "none"
  BY DEF TypeOK
<1>3. Fresh' /\ ChargeRecordedOnce'
  BY <1>2 DEF Books, Fresh, ChargeRecordedOnce, EntersNothing
<1>4. RefundsRecordedOnce'
  <2>1. RefundedBy({"succeeded"})' = RefundedBy({"succeeded"})
    BY SameSum DEF EntersNothing
  <2>2. \A r \in RefundNo : refunds'[r].status = "succeeded" =>
          \E n \in StripeNo : stripe'[n].row = r /\ stripe'[n].status = "succeeded"
    BY SucceededStands DEF Books, RefundsRecordedOnce, EntersNothing
  <2> QED
    BY <2>1, <2>2 DEF Books, RefundsRecordedOnce, EntersNothing
<1>5. ReversalMatches'
  BY <1>1 DEF Books, ReversalMatches, EntersNothing
<1> QED
  BY <1>3, <1>4, <1>5 DEF Books

\* Only a booking that waits for its payment is confirmed, and nothing makes it
\* wait again: this is what keeps a second charge out of the ledger.
LEMMA SuccessKeepsBooks ==
  ASSUME TypeOK, Links, Books, [Next]_vars, NEW i \in IntentNo, OnPaymentSucceeded(i)
  PROVE  Books'
<1>1. CASE booking = "pending_payment"
  <2>1. /\ booking' = "confirmed"
        /\ ledger' = [ledger EXCEPT !.charges = @ + 1]
        /\ payout' = [status |-> "scheduled", amount |-> HostPayout]
        /\ UNCHANGED <<refunds, stripe>>
    BY <1>1 DEF OnPaymentSucceeded, Confirmable, stripeVars
  <2>2. ledger.charges = 0 /\ ledger.refunded = 0 /\ ledger.reversed = 0
    BY <1>1 DEF Books, Fresh, ChargeRecordedOnce
  <2>3. ledger' = [charges |-> 1, refunded |-> 0, reversed |-> 0]
    BY <2>1, <2>2 DEF TypeOK
  <2>4. Fresh' /\ ChargeRecordedOnce'
    BY <2>1, <2>3 DEF Fresh, ChargeRecordedOnce
  <2>5. RefundsRecordedOnce'
    <3>1. RefundedBy({"succeeded"})' = RefundedBy({"succeeded"})
      BY <2>1, SameSum
    <3> QED
      BY <2>1, <2>2, <2>3, <3>1 DEF Books, RefundsRecordedOnce
  <2>6. ReversalMatches'
    <3>1. HostPayout - 0 = HostPayout
      BY AmountsAssumption
    <3> QED
      BY <2>1, <2>3, <3>1, NothingReversed DEF ReversalMatches, Share
  <2> QED
    BY <2>4, <2>5, <2>6 DEF Books
<1>2. CASE booking # "pending_payment"
  BY <1>2, NothingKeepsBooks DEF OnPaymentSucceeded, Confirmable, EntersNothing, bookVars
<1> QED
  BY <1>1, <1>2

\* What a refund's success enters, of a row that has not succeeded before: the
\* reversed share moves from that of what was refunded to that of what is now.
LEMMA RecordKeepsBooks ==
  ASSUME TypeOK, Links, Books, [Next]_vars, NEW n \in StripeNo, NEW r \in RefundNo,
         stripe[n].status = "succeeded", Matched(r, n), RecordRefund(r), UNCHANGED stripe
  PROVE  Books'
<1> DEFINE amount == refunds[r].amount
           old == ledger.refunded
           new == ledger.refunded + amount
           increment == Share(new) - ledger.reversed
<1>1. amount \in Nat /\ old \in Nat /\ ledger.reversed \in Int /\ payout.amount \in Int
      /\ HostPayout \in Nat
  BY AmountsAssumption DEF TypeOK, Refunds
<1>2. refunds[r].status # "succeeded" /\ refunds[r].link = n
  BY DEF Matched
<1>3. RefundedBy({"succeeded"}) = old
  BY DEF Books, RefundsRecordedOnce
<1>4. RefundedBy({"succeeded"})
        + (IF refunds[r].status = "succeeded" THEN 0 ELSE refunds[r].amount) = new
  BY <1>2, <1>3
<1>5. Increment(refunds[r].amount, new) = increment
  BY DEF Increment, Share
<1>6. /\ refunds' = [refunds EXCEPT ![r].status = "succeeded"]
      /\ booking' # "pending_payment"
      /\ ledger' = [ledger EXCEPT !.refunded = @ + amount, !.reversed = @ + increment]
      /\ \/ payout.status # "scheduled" /\ payout' = payout
         \/ payout.status = "scheduled" /\ payout' = [payout EXCEPT !.status = "cancelled"]
         \/ /\ payout.status = "scheduled"
            /\ payout' = [payout EXCEPT !.amount =
                            @ - (IF increment > 0 THEN increment ELSE 0)]
  <2> HIDE DEF new, increment
  <2> QED
    BY <1>4, <1>5 DEF RecordRefund
<1>7. ledger.reversed = Share(old)
  BY DEF Books, ReversalMatches, Share
<1>8. new \in Nat /\ old <= new
  BY <1>1
<1>9. Share(old) \in Nat /\ Share(new) \in Nat /\ Share(old) <= Share(new)
  <2> HIDE DEF old, new
  <2> QED
    BY <1>1, <1>8, ShareIsMonotone
<1>10. increment \in Nat /\ ledger.reversed + increment = Share(new)
  <2> HIDE DEF old, new
  <2> QED
    BY <1>7, <1>9
<1>11. ledger' = [charges |-> ledger.charges, refunded |-> new, reversed |-> Share(new)]
  <2> HIDE DEF increment
  <2> QED
    BY <1>6, <1>10 DEF TypeOK
<1>12. payout'.status # "none" <=> payout.status # "none"
  <2> HIDE DEF increment
  <2> QED
    BY <1>6 DEF TypeOK
<1>13. Fresh' /\ ChargeRecordedOnce'
  <2> HIDE DEF increment, new
  <2> QED
    BY <1>6, <1>11, <1>12 DEF Books, Fresh, ChargeRecordedOnce
<1>14. RefundsRecordedOnce'
  <2>1. RefundedBy({"succeeded"})' = RefundedBy({"succeeded"}) + refunds[r].amount
    BY <1>2, <1>6, SumGrows DEF TypeOK
  <2>2. ledger'.refunded = RefundedBy({"succeeded"})'
    BY <1>3, <1>11, <2>1
  <2>3. stripe[n].row = r
    <3>1. n # 0
      BY DEF StripeNo
    <3> QED
      BY <1>2, <3>1 DEF Links, RowsLinked
  <2>4. \A q \in RefundNo : q # r => refunds'[q] = refunds[q]
    BY <1>6 DEF TypeOK
  <2>5. \A q \in RefundNo : refunds'[q].status = "succeeded" =>
          \E m \in StripeNo : stripe'[m].row = q /\ stripe'[m].status = "succeeded"
    BY <2>3, <2>4 DEF Books, RefundsRecordedOnce
  <2> QED
    BY <2>2, <2>5 DEF RefundsRecordedOnce
<1>15. ReversalMatches'
  <2>1. ledger'.reversed = Round(HostPayout * ledger'.refunded, Total)
    <3> HIDE DEF new
    <3> QED
      BY <1>11 DEF Share
  <2>2. payout'.status = "scheduled" => payout'.amount = HostPayout - ledger'.reversed
    <3>1. payout'.status = "scheduled" =>
            payout.status = "scheduled" /\ payout'.amount = payout.amount - increment
      <4> HIDE DEF increment
      <4> QED
        BY <1>6, <1>10 DEF TypeOK
    <3>2. payout.status = "scheduled" => payout.amount = HostPayout - ledger.reversed
      BY DEF Books, ReversalMatches
    <3>3. ledger'.reversed = ledger.reversed + increment
      <4> HIDE DEF increment, new
      <4> QED
        BY <1>10, <1>11
    <3> HIDE DEF increment
    <3> QED
      BY <1>1, <1>10, <3>1, <3>2, <3>3
  <2> QED
    BY <2>1, <2>2 DEF ReversalMatches
<1> QED
  BY <1>13, <1>14, <1>15 DEF Books

LEMMA StepKeepsBooks == TypeOK /\ Links /\ Books /\ [Next]_vars => Books'
<1> SUFFICES ASSUME TypeOK, Links, Books, [Next]_vars PROVE Books'
  OBVIOUS
<1> USE DEF stripeVars, bookVars, requestVars
<1>1. CASE UNCHANGED vars
  <2>1. EntersNothing /\ UNCHANGED payout
    BY <1>1 DEF vars, EntersNothing
  <2> QED
    BY <2>1, NothingKeepsBooks
<1>2. ASSUME NEW c \in Checkouts,
             \/ ReadPayment(c) \/ RetrieveIntent(c) \/ CreateIntent(c) \/ SaveIntent(c)
             \/ CheckoutDies(c)
      PROVE  Books'
  <2>1. EntersNothing /\ UNCHANGED payout
    BY <1>2 DEF EntersNothing, ReadPayment, RetrieveIntent, CreateIntent, SaveIntent, CheckoutDies
  <2> QED
    BY <2>1, NothingKeepsBooks
<1>3. ASSUME NEW i \in IntentNo, GuestPays(i) \/ PaymentSettles(i) \/ OnPaymentFailed(i)
      PROVE  Books'
  <2>1. EntersNothing /\ UNCHANGED payout
    BY <1>3 DEF EntersNothing, GuestPays, PaymentSettles, OnPaymentFailed
  <2> QED
    BY <2>1, NothingKeepsBooks
<1>4. ASSUME NEW i \in IntentNo, OnPaymentSucceeded(i)
      PROVE  Books'
  BY <1>4, SuccessKeepsBooks
<1>5. ASSUME NEW n \in StripeNo, RefundSettles(n) \/ KeyExpires(n)
      PROVE  Books'
  <2>1. EntersNothing /\ UNCHANGED payout
    BY <1>5 DEF EntersNothing, RefundSettles, KeyExpires
  <2> QED
    BY <2>1, NothingKeepsBooks
<1>6. ASSUME NEW n \in StripeNo, OnRefundFailed(n)
      PROVE  Books'
  <2>1. PICK r \in RefundNo :
          Matched(r, n) /\ refunds' = [refunds EXCEPT ![r].status = "failed"]
    BY <1>6 DEF OnRefundFailed
  <2>2. EntersNothing /\ UNCHANGED payout
    BY <1>6, <2>1 DEF EntersNothing, OnRefundFailed, Matched, TypeOK, Refunds
  <2> QED
    BY <2>2, NothingKeepsBooks
<1>7. ASSUME NEW n \in StripeNo, OnRefundEvent(n)
      PROVE  Books'
  <2>1. CASE UNCHANGED <<booking, refunds, bookVars>>
    <3>1. EntersNothing /\ UNCHANGED payout
      BY <2>1 DEF EntersNothing
    <3> QED
      BY <3>1, NothingKeepsBooks
  <2>2. ASSUME NEW r \in RefundNo, Matched(r, n), RecordRefund(r)
        PROVE  Books'
    BY <1>7, <2>2, RecordKeepsBooks DEF OnRefundEvent
  <2> QED
    BY <1>7, <2>1, <2>2 DEF OnRefundEvent
<1>8. ASSUME NEW u \in Refunders,
             \/ CancelBooking(u) \/ AdminRefund(u) \/ FindAttempt(u) \/ ListRefunds(u)
             \/ CreateRefund(u) \/ RefunderDies(u)
      PROVE  Books'
  <2>1. EntersNothing /\ UNCHANGED payout
    BY <1>8 DEF EntersNothing, CancelBooking, AdminRefund, FindAttempt, ListRefunds,
                CreateRefund, RefunderDies
  <2> QED
    BY <2>1, NothingKeepsBooks
<1>9. ASSUME NEW u \in Refunders, InsertRefund(u)
      PROVE  Books'
  <2>1. PICK r \in RefundNo :
          /\ IsNext(refunds, r)
          /\ refunds' = [refunds EXCEPT ![r] = [status |-> "pending",
               amount |-> refunder[u].amount, reason |-> refunder[u].reason, link |-> 0]]
    BY <1>9 DEF InsertRefund
  <2>2. refunds[r].status = "none"
    BY <2>1, NextIsUnused DEF RefundNo
  <2>3. EntersNothing /\ UNCHANGED payout
    BY <1>9, <2>1, <2>2 DEF EntersNothing, InsertRefund, TypeOK
  <2> QED
    BY <2>3, NothingKeepsBooks
<1>10. ASSUME NEW u \in Refunders, LinkRefund(u)
       PROVE  Books'
  <2>1. EntersNothing /\ UNCHANGED payout
    BY <1>10 DEF EntersNothing, LinkRefund, TypeOK, Refunds
  <2> QED
    BY <2>1, NothingKeepsBooks
<1>11. CASE OnDisputeCreated
  <2>1. EntersNothing
    BY <1>11 DEF EntersNothing, OnDisputeCreated
  <2>2. \/ UNCHANGED payout
        \/ payout.status = "scheduled" /\ payout' = [payout EXCEPT !.status = "cancelled"]
    BY <1>11 DEF OnDisputeCreated
  <2> QED
    BY <2>1, <2>2, NothingKeepsBooks
<1>12. CASE LetGo \/ CompleteStay
  <2>1. EntersNothing /\ UNCHANGED payout
    BY <1>12 DEF EntersNothing, LetGo, CompleteStay
  <2> QED
    BY <2>1, NothingKeepsBooks
<1> QED
  BY <1>1, <1>2, <1>3, <1>4, <1>5, <1>6, <1>7, <1>8, <1>9, <1>10, <1>11, <1>12 DEF Next

-----------------------------------------------------------------------------
(* The invariant and the theorems.                                         *)

LEMMA InitIInv == Init => IInv
<1> SUFFICES ASSUME Init PROVE IInv
  OBVIOUS
<1>1. TypeOK
  BY InitTypes
<1>2. Links /\ KeysHeld /\ RefundMadeOnce
  BY DEF Init, Links, PaidHasIntent, RowsLinked, StripeKnown, RequestsKnown, KeysHeld,
         RefundMadeOnce, RefundsOf, NoRefund, NoStripeRefund, NoRequest
<1>3. Fresh /\ ChargeRecordedOnce
  BY DEF Init, Fresh, ChargeRecordedOnce
<1>4. RefundsRecordedOnce
  <2>1. Units({"succeeded"}) = {}
    BY DEF Init, NoRefund, Units
  <2>2. RefundedBy({"succeeded"}) = 0
    BY <2>1, FS_EmptySet DEF RefundedBy
  <2> QED
    BY <2>2 DEF Init, NoRefund, RefundsRecordedOnce
<1>5. ReversalMatches
  BY NothingReversed DEF Init, ReversalMatches, Share
<1> QED
  BY <1>1, <1>2, <1>3, <1>4, <1>5 DEF IInv

LEMMA StepKeepsIInv == IInv /\ [Next]_vars => IInv'
<1> SUFFICES ASSUME IInv, [Next]_vars PROVE IInv'
  OBVIOUS
<1>1. TypeOK'
  BY StepKeepsTypes DEF IInv
<1>2. Links' /\ KeysHeld'
  BY StepKeepsLinks DEF IInv
<1>3. RefundMadeOnce'
  BY StepMakesOnce DEF IInv
<1>4. Books'
  BY StepKeepsBooks DEF IInv, Books
<1> QED
  BY <1>1, <1>2, <1>3, <1>4 DEF IInv, Books

LEMMA IInvAlways == Spec => []IInv
BY InitIInv, StepKeepsIInv, PTL DEF Spec

\* For any number of checkouts, intents, refund requests and refunds: the booking's
\* charge enters the ledger at most once, with one payout, and only when the booking
\* leaves pending_payment (onPaymentSucceeded under redelivery and double payment).
THEOREM ChargeOnceInLedger == Spec => []ChargeRecordedOnce
<1>1. IInv => ChargeRecordedOnce
  BY DEF IInv
<1> QED
  BY <1>1, IInvAlways, PTL

\* The ledger's refunds add up to the rows recorded as succeeded, however often and in
\* whatever order Stripe's events come, and Stripe has made each of these refunds
\* (onRefundEvent).
THEOREM RefundsOnceInLedger == Spec => []RefundsRecordedOnce
<1>1. IInv => RefundsRecordedOnce
  BY DEF IInv
<1> QED
  BY <1>1, IInvAlways, PTL

\* Whatever the amounts, after any refunds in any order the host's reversed share is
\* the rounded share of all that was refunded, and a payout still scheduled is the rest
\* of the host's part (computeRefundReversalEntries).
THEOREM ReversalAddsUp == Spec => []ReversalMatches
<1>1. IInv => ReversalMatches
  BY DEF IInv
<1> QED
  BY <1>1, IInvAlways, PTL

\* However many requests try the same refund, and whenever Stripe forgets an idempotency
\* key, a charge has one refund at Stripe for a row, unless Stripe had made more refunds
\* of the charge before than the retry's list holds (initiateRefund, refund.ts:84).
THEOREM RefundNotRepeated == Spec => []RefundMadeOnce
<1>1. IInv => RefundMadeOnce
  BY DEF IInv
<1> QED
  BY <1>1, IInvAlways, PTL
=============================================================================
