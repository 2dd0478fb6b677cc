---- MODULE PlatformProofs ----
(* What MCPlatform's run checks of the platform's smaller parts on one instance,
   proved for every value of their constants.  Each section proves that a
   part's own steps keep its invariant Inv; the theorems at the end carry the
   invariant to the composition, where every part keeps its state in the same
   slots v1..v10 and only the part that is running takes steps. *)
EXTENDS MCPlatform, FiniteSetTheorems, TLAPS

-----------------------------------------------------------------------------
(* A guest's trip: what its cancellations ask to refund fits what was paid, *)
(* as long as no administrator has refunded.                               *)

LEMMA TripInit == Trip!Init => Trip!Inv
<1> SUFFICES ASSUME Trip!Init PROVE Trip!Inv
  OBVIOUS
<1> USE DEF Trip!Init
<1>1. v1 \in Trip!Trips /\ v2 \in Trip!Refunds /\ v3 \in Trip!Percents /\ v4 \in Trip!Percents
  BY DEF Trip!Trips, Trip!Refunds, Trip!Flows, Trip!Percents, Trip!Statuses, Trip!Payments,
    Trip!RefundRows
<1>2. v5 \in Trip!Views /\ v6 \in Trip!Quotes /\ v7 \in Trip!Calls /\ v8 \in Trip!Outcomes
  BY DEF Trip!Views, Trip!Quotes, Trip!Calls, Trip!Outcomes, Trip!NoQuote, Trip!Idle,
    Trip!Statuses, Trip!Percents, Trip!Answers
<1>3. v9 \in [Trip!Cancellers -> Trip!Payments \cup {Trip!Unread}] /\ v10 \in BOOLEAN
  OBVIOUS
<1>4. Trip!Covered /\ Trip!RefundsFit
  <2>1. PICK p \in Trip!Percents :
          /\ v1.status = "pending_payment" /\ v1.percent = p /\ v2.row = "none"
          /\ v3 = 0 /\ v4 = 0
    OBVIOUS
  <2> QED BY <2>1 DEF Trip!Covered, Trip!RefundsFit, Trip!PendingPercent, Trip!Percents
<1> QED BY <1>1, <1>2, <1>3, <1>4 DEF Trip!Inv, Trip!TypeOK

(* What the page changes is its own and has its type. *)
LEMMA TripPageTyped ==
  ASSUME Trip!TypeOK, Trip!TripDetailPage \/ Trip!CancelAnswered \/ Trip!HistoryAnswered
  PROVE  /\ v5' \in Trip!Views /\ v6' \in Trip!Quotes /\ v7' \in Trip!Calls
         /\ UNCHANGED Trip!server
<1> USE DEF Trip!TypeOK
<1>1. CASE Trip!RequestQuote \/ Trip!KeepBooking
  <2>1. v1.percent \in Trip!Percents
    BY DEF Trip!Trips
  <2>2. Trip!CancellationQuote \in Trip!Quotes
    BY <2>1 DEF Trip!CancellationQuote, Trip!Quotes
  <2>3. [v6 EXCEPT !.open = FALSE] \in Trip!Quotes
    BY DEF Trip!Quotes
  <2> QED BY <1>1, <2>2, <2>3 DEF Trip!RequestQuote, Trip!KeepBooking
<1>2. CASE \E kind \in {"cancel", "discard", "archive"} : Trip!Ask(kind)
  BY <1>2 DEF Trip!Ask, Trip!Calls, Trip!Answers
<1>3. CASE Trip!CancelAnswered \/ Trip!HistoryAnswered
  <2>1. v7' \in Trip!Calls
    BY <1>3 DEF Trip!CancelAnswered, Trip!HistoryAnswered, Trip!Idle, Trip!Calls, Trip!Answers
  <2>2. v6' \in Trip!Quotes
    BY <1>3 DEF Trip!CancelAnswered, Trip!HistoryAnswered, Trip!Quotes
  <2>3. v5' \in Trip!Views
    BY <1>3 DEF Trip!CancelAnswered, Trip!HistoryAnswered, Trip!Views
  <2> QED BY <1>3, <2>1, <2>2, <2>3 DEF Trip!CancelAnswered, Trip!HistoryAnswered
<1> QED BY <1>1, <1>2, <1>3 DEF Trip!TripDetailPage, Trip!ConfirmCancel, Trip!ManageHistory

LEMMA TripAnswerTyped ==
  ASSUME v7 \in Trip!Calls, NEW a \in Trip!Answers, Trip!Answer(a)
  PROVE  v7' \in Trip!Calls
BY DEF Trip!Answer, Trip!Calls, Trip!Answers

(* What happens to a booking, field by field. *)
LEMMA TripChanged ==
  ASSUME v1 \in Trip!Trips, NEW s \in Trip!Statuses, NEW p \in Trip!Payments,
         NEW a \in BOOLEAN, NEW pc \in Trip!Percents,
         v1' = [v1 EXCEPT !.status = s, !.payment = p, !.archived = a, !.percent = pc]
  PROVE  /\ v1' \in Trip!Trips
         /\ v1'.status = s /\ v1'.payment = p /\ v1'.percent = pc
BY DEF Trip!Trips

(* What a cancellation reads is a status of the payment. *)
LEMMA TripReads ==
  ASSUME v9 \in [Trip!Cancellers -> Trip!Payments \cup {Trip!Unread}], v1 \in Trip!Trips,
         NEW c \in Trip!Cancellers, Trip!ReadsPayment(c) \/ Trip!Ends(c)
  PROVE  v9' \in [Trip!Cancellers -> Trip!Payments \cup {Trip!Unread}]
BY DEF Trip!ReadsPayment, Trip!Ends, Trip!Trips

LEMMA TripStep == Trip!Inv /\ [Trip!Next]_(Trip!tripPageVars) => Trip!Inv'
<1> SUFFICES ASSUME Trip!Inv, [Trip!Next]_(Trip!tripPageVars) PROVE Trip!Inv'
  OBVIOUS
<1> USE DEF Trip!Inv, Trip!TypeOK, Trip!Covered, Trip!RefundsFit, Trip!PendingPercent
<1>0. /\ v1.status \in Trip!Statuses /\ v1.payment \in Trip!Payments /\ v1.archived \in BOOLEAN
      /\ v1.percent \in Trip!Percents /\ v2.percent \in Trip!Percents
  BY DEF Trip!Trips, Trip!Refunds
<1>a. /\ v1.percent \in Int /\ v2.percent \in Int /\ v3 \in Int /\ v4 \in Int
      /\ 0 <= v1.percent /\ v1.percent <= 100 /\ 0 <= v2.percent /\ 0 <= v3 /\ 0 <= v4
  BY <1>0 DEF Trip!Percents
<1>1. CASE Trip!LoadBooking \/ Trip!Reload
  <2>1. v5' \in Trip!Views
    BY <1>0, <1>1 DEF Trip!LoadBooking, Trip!GetBookingDetail, Trip!Reload, Trip!Views,
      Trip!Refunds
  <2>2. v6' \in Trip!Quotes
    <3>1. Trip!NoQuote \in Trip!Quotes
      BY DEF Trip!NoQuote, Trip!Quotes, Trip!Percents
    <3> QED BY <1>1, <3>1 DEF Trip!LoadBooking, Trip!Reload
  <2> QED BY <1>1, <2>1, <2>2 DEF Trip!LoadBooking, Trip!Reload, Trip!server
<1>2. CASE Trip!TripDetailPage \/ Trip!CancelAnswered \/ Trip!HistoryAnswered
  BY <1>2, TripPageTyped DEF Trip!server
<1>3. ASSUME NEW c \in Trip!Cancellers, Trip!Cancel(c)
      PROVE  /\ v1' \in Trip!Trips /\ v3' \in Trip!Percents
             /\ Trip!Covered' /\ Trip!RefundsFit' /\ UNCHANGED <<v2, v4, v10>>
  <2>1. v1' = [v1 EXCEPT !.status = "cancelled", !.payment = v1.payment,
                         !.archived = v1.archived, !.percent = v1.percent]
    BY <1>3 DEF Trip!Cancel, Trip!Trips
  <2>2. v1' \in Trip!Trips /\ v1'.status = "cancelled" /\ v1'.percent = v1.percent
    BY <1>0, <2>1, TripChanged DEF Trip!Statuses
  <2>3. v3' \in {0, v1.percent} /\ UNCHANGED <<v2, v4, v10>>
    BY <1>0, <1>3 DEF Trip!Cancel, Trip!RefundedPercent
  <2>4. v3' \in Trip!Percents
    BY <1>0, <2>3 DEF Trip!Percents
  <2>5. ~v10 => v3 = 0 /\ v2.row # "pending" /\ v4 + v1.percent <= 100
    BY <1>3 DEF Trip!Cancel, Trip!Cancellable
  <2>6. Trip!Covered'
    BY <1>a, <2>2, <2>3, <2>5
  <2>7. Trip!RefundsFit'
    <3> SUFFICES ASSUME ~v10' PROVE v4' + 0 + v3' <= 100 /\ v2'.row # "pending"
      OBVIOUS
    <3>1. ~v10
      BY <2>3
    <3>2. v4' = v4 /\ v2'.row # "pending" /\ (v3' = 0 \/ v3' = v1.percent)
      BY <2>3, <2>5, <3>1
    <3>3. v4 + v1.percent <= 100
      BY <2>5, <3>1
    <3>4. v4' + 0 + v3' <= 100
      BY <1>a, <3>2, <3>3
    <3> QED BY <3>2, <3>4
  <2> QED BY <2>2, <2>3, <2>4, <2>6, <2>7
<1>4. CASE Trip!CancelRoute
  <2>0. "guest" \in Trip!Cancellers
    BY DEF Trip!Cancellers
  <2>1. v9' \in [Trip!Cancellers -> Trip!Payments \cup {Trip!Unread}]
    BY <1>4, <2>0, TripReads DEF Trip!CancelRoute
  <2>2. CASE Trip!ReadsPayment("guest")
    BY <2>1, <2>2 DEF Trip!ReadsPayment
  <2>3. ASSUME Trip!Cancel("guest"), Trip!Answer("success"), UNCHANGED <<v5, v6>>,
               v8' = [done |-> TRUE, quoted |-> v6.percent,
                      refunded |-> Trip!RefundedPercent(v9["guest"])]
        PROVE  Trip!Inv'
    <3>1. v6.percent \in Trip!Percents /\ Trip!RefundedPercent(v9["guest"]) \in Trip!Percents
      BY <1>0 DEF Trip!RefundedPercent, Trip!Percents, Trip!Quotes
    <3>2. v8' \in Trip!Outcomes
      BY <2>3, <3>1 DEF Trip!Outcomes
    <3>3. v7' \in Trip!Calls
      BY <2>3, TripAnswerTyped DEF Trip!Answers
    <3> QED BY <1>3, <2>0, <2>1, <2>3, <3>2, <3>3
  <2>4. CASE Trip!Answer("error") /\ UNCHANGED <<v1, v2, v3, v4, v8, v10, v5, v6>>
    <3>1. v7' \in Trip!Calls
      BY <2>4, TripAnswerTyped DEF Trip!Answers
    <3> QED BY <2>1, <2>4, <3>1
  <2> QED BY <1>4, <2>2, <2>3, <2>4 DEF Trip!CancelRoute
<1>5. CASE Trip!HostCancels
  <2>0. "host" \in Trip!Cancellers
    BY DEF Trip!Cancellers
  <2>1. v9' \in [Trip!Cancellers -> Trip!Payments \cup {Trip!Unread}]
    BY <1>5, <2>0, TripReads DEF Trip!HostCancels
  <2>2. CASE Trip!Cancel("host") /\ UNCHANGED <<v8, v5, v6, v7>>
    BY <1>3, <2>0, <2>1, <2>2
  <2>3. CASE UNCHANGED <<v1, v2, v3, v4, v8, v10, v5, v6, v7>>
    BY <2>1, <2>3
  <2> QED BY <1>5, <2>2, <2>3 DEF Trip!HostCancels, Trip!ReadsPayment
<1>6. CASE Trip!InitiateRefund
  <2>1. v2' \in Trip!Refunds /\ v3' = 0 /\ v3' \in Trip!Percents
    BY <1>6 DEF Trip!InitiateRefund, Trip!Refunds, Trip!RefundRows, Trip!Percents
  <2>2. v2' = v2 \/ (v2'.row = "pending" /\ v2'.percent = v3)
    BY <1>6 DEF Trip!InitiateRefund
  <2>3. ~v10 =>
          v1.status \notin {"pending_payment", "confirmed", "completed"} /\ v2.row # "pending"
    BY <1>6 DEF Trip!InitiateRefund
  <2>4. UNCHANGED <<v1, v4, v8, v9, v10, v5, v6, v7>>
    BY <1>6 DEF Trip!InitiateRefund
  <2> QED BY <1>0, <1>a, <2>1, <2>2, <2>3, <2>4
<1>7. CASE Trip!DiscardRoute \/ Trip!ArchiveRoute
  <2>1. v7' \in Trip!Calls
    BY <1>7, TripAnswerTyped DEF Trip!DiscardRoute, Trip!ArchiveRoute, Trip!Answers
  <2>2. CASE UNCHANGED v1
    BY <1>7, <2>1, <2>2 DEF Trip!DiscardRoute, Trip!ArchiveRoute
  <2>3. CASE v1' # v1
    <3>1. PICK s \in Trip!Statuses :
            /\ v1' = [v1 EXCEPT !.status = s, !.payment = v1.payment, !.archived = TRUE,
                                !.percent = v1.percent]
            /\ s \in Trip!Archivable /\ (s = v1.status \/ s = "cancelled")
      BY <1>0, <1>7, <2>3 DEF Trip!DiscardRoute, Trip!ArchiveRoute, Trip!Archivable,
        Trip!Trips, Trip!Statuses
    <3>2. v1' \in Trip!Trips /\ v1'.status = s /\ v1'.payment = v1.payment
      BY <1>0, <3>1, TripChanged, ZenonT(60)
    <3> QED BY <1>7, <2>1, <3>1, <3>2 DEF Trip!DiscardRoute, Trip!ArchiveRoute, Trip!Archivable
  <2> QED BY <2>2, <2>3
<1>b. ASSUME NEW st \in Trip!Statuses, NEW p \in Trip!Payments, NEW pc \in Trip!Percents,
             v1' = [v1 EXCEPT !.status = st, !.payment = p, !.archived = v1.archived,
                              !.percent = pc],
             st = v1.status \/ (v1.status = "pending_payment" /\ st = "confirmed")
               \/ (v1.status = "confirmed" /\ st = "completed") \/ st = "disputed",
             pc \in Int, pc <= v1.percent, UNCHANGED <<v2, v3, v4, v5, v6, v7, v8, v9, v10>>
      PROVE  Trip!Inv'
  <2>1. v1' \in Trip!Trips /\ v1'.status = st /\ v1'.percent = pc
    BY <1>0, <1>b, TripChanged
  <2>2. Trip!Covered' /\ Trip!RefundsFit'
    BY <1>a, <1>b, <2>1
  <2> QED BY <1>b, <2>1, <2>2
<1>8. CASE \/ Trip!PaymentSucceeds \/ Trip!PaymentFails \/ Trip!DisputeCreated
           \/ Trip!StayEnds \/ Trip!NextTier
  <2> USE DEF Trip!page
  <2>1. CASE Trip!PaymentSucceeds \/ Trip!PaymentFails
    <3>1. PICK st \in {v1.status, Trip!Paying}, p \in {v1.payment, "paid", "failed"} :
            v1' = [v1 EXCEPT !.status = st, !.payment = p, !.archived = v1.archived,
                             !.percent = v1.percent]
      BY <2>1, ZenonT(60) DEF Trip!PaymentSucceeds, Trip!PaymentFails, Trip!Paying, Trip!Trips
    <3>2. st \in Trip!Statuses /\ p \in Trip!Payments
      BY <1>0 DEF Trip!Paying, Trip!Statuses, Trip!Payments
    <3>3. st = v1.status \/ (v1.status = "pending_payment" /\ st = "confirmed")
      BY DEF Trip!Paying
    <3>4. v1.percent \in Int /\ v1.percent <= v1.percent
      BY <1>a
    <3>5. UNCHANGED <<v2, v3, v4, v5, v6, v7, v8, v9, v10>>
      BY <2>1 DEF Trip!PaymentSucceeds, Trip!PaymentFails
    <3> QED BY <1>0, <1>b, <3>1, <3>2, <3>3, <3>4, <3>5
  <2>2. CASE Trip!StayEnds \/ Trip!DisputeCreated
    <3>1. PICK st \in {"completed", "disputed"} :
            /\ v1' = [v1 EXCEPT !.status = st, !.payment = v1.payment,
                                !.archived = v1.archived, !.percent = v1.percent]
            /\ st = "completed" => v1.status = "confirmed"
      BY <2>2 DEF Trip!StayEnds, Trip!DisputeCreated, Trip!Trips
    <3>2. st \in Trip!Statuses
      BY DEF Trip!Statuses
    <3>3. v1.percent \in Int /\ v1.percent <= v1.percent
      BY <1>a
    <3>4. UNCHANGED <<v2, v3, v4, v5, v6, v7, v8, v9, v10>>
      BY <2>2 DEF Trip!StayEnds, Trip!DisputeCreated
    <3> QED BY <1>0, <1>b, <3>1, <3>2, <3>3, <3>4
  <2>3. CASE Trip!NextTier
    <3>1. PICK pc \in Trip!Percents : pc = v1.percent - 50
      BY <1>0, <2>3 DEF Trip!NextTier, Trip!Percents
    <3>2. v1' = [v1 EXCEPT !.status = v1.status, !.payment = v1.payment,
                           !.archived = v1.archived, !.percent = pc]
      BY <2>3, <3>1 DEF Trip!NextTier, Trip!Trips
    <3>3. pc \in Int /\ pc <= v1.percent
      BY <1>0, <3>1 DEF Trip!Percents
    <3>4. UNCHANGED <<v2, v3, v4, v5, v6, v7, v8, v9, v10>>
      BY <2>3 DEF Trip!NextTier
    <3> QED BY <1>0, <1>b, <3>1, <3>2, <3>3, <3>4
  <2> QED BY <1>8, <2>1, <2>2, <2>3
<1>c. ASSUME NEW percent \in Trip!Percents, Trip!Settles(percent)
      PROVE  /\ v1' \in Trip!Trips /\ v4' \in Trip!Percents
             /\ v4' = v4 + percent /\ v4' <= 100 /\ v1'.percent = v1.percent
             /\ v1'.status \in {"refunded", "confirmed"}
             /\ v1'.status = "confirmed" => ~(v4' >= 100)
  <2>1. v4' = v4 + percent /\ v4' <= 100 /\ v1' = Trip!Refunded(v4 + percent)
    BY <1>c DEF Trip!Settles
  <2>2. v4' \in Trip!Percents
    BY <1>0, <2>1 DEF Trip!Percents
  <2>3. PICK s \in {"refunded", "confirmed"}, p \in {"refunded", "partially_refunded"} :
          /\ v1' = [v1 EXCEPT !.status = s, !.payment = p, !.archived = v1.archived,
                              !.percent = v1.percent]
          /\ s = "confirmed" => ~(v4 + percent >= 100)
    BY <2>1, ZenonT(60) DEF Trip!Refunded, Trip!Trips
  <2>4. v1' \in Trip!Trips /\ v1'.status = s /\ v1'.percent = v1.percent
    BY <1>0, <2>3, TripChanged, ZenonT(60) DEF Trip!Statuses, Trip!Payments
  <2> QED BY <2>1, <2>2, <2>3, <2>4
<1>9. CASE Trip!RefundSettles
  <2> USE DEF Trip!page
  <2>0. /\ v2.row = "pending" /\ v2'.row # "pending"
        /\ ~v10 => v3 = 0 /\ v4 + v2.percent <= 100
        /\ ~v10 /\ v2.percent > 0 => v1.percent <= v2.percent
        /\ UNCHANGED <<v3, v5, v6, v7, v8, v9, v10>>
    BY <1>0, <1>a, <1>9 DEF Trip!RefundSettles, Trip!Refunds
  <2>1. v2' \in Trip!Refunds
    BY <1>9 DEF Trip!RefundSettles, Trip!Refunds, Trip!RefundRows
  <2>2. CASE UNCHANGED <<v1, v4>>
    <3>1. ~v10 => v1.status \notin {"pending_payment", "confirmed", "completed"}
      BY <2>0
    <3>2. Trip!Covered' /\ Trip!RefundsFit'
      BY <1>a, <2>0, <2>1, <2>2, <3>1
    <3> QED BY <2>0, <2>1, <2>2, <3>2
  <2>3. CASE Trip!Settles(v2.percent)
    <3>1. /\ v1' \in Trip!Trips /\ v4' \in Trip!Percents
          /\ v4' = v4 + v2.percent /\ v4' <= 100 /\ v1'.percent = v1.percent
          /\ v1'.status \in {"refunded", "confirmed"}
          /\ v1'.status = "confirmed" => ~(v4' >= 100)
      BY <1>0, <1>c, <2>3
    <3>2. ~v10 /\ v1'.status = "confirmed" => v4' + v1.percent <= 100
      <4>1. CASE v4' = 0
        BY <1>a, <4>1
      <4>2. CASE v4' = 50
        <5>1. ~v10 => v1.percent <= 50
          BY <1>a, <2>0, <3>1, <4>2
        <5> QED BY <1>a, <4>2, <5>1
      <4>3. v4' = 100 => v4' >= 100
        OBVIOUS
      <4> QED BY <3>1, <4>1, <4>2, <4>3 DEF Trip!Percents
    <3>3. ~v10 /\ v4' > 0 => v1.percent <= v4'
      BY <1>a, <2>0, <3>1
    <3>4. Trip!Covered' /\ Trip!RefundsFit'
      BY <1>a, <2>0, <3>1, <3>2, <3>3
    <3> QED BY <2>0, <2>1, <3>1, <3>4
  <2> QED BY <1>9, <2>2, <2>3 DEF Trip!RefundSettles
<1>10. CASE Trip!AdminRefunds
  <2>1. v1' \in Trip!Trips /\ v4' \in Trip!Percents
    <3>1. PICK percent \in Trip!Percents : Trip!Settles(percent)
      BY <1>10 DEF Trip!AdminRefunds
    <3> QED BY <1>c, <3>1
  <2>2. v10' = TRUE /\ UNCHANGED <<v2, v3, v5, v6, v7, v8, v9>>
    BY <1>10 DEF Trip!AdminRefunds, Trip!page
  <2> QED BY <2>1, <2>2
<1>11. CASE UNCHANGED Trip!tripPageVars
  BY <1>11 DEF Trip!tripPageVars
<1> QED BY <1>1, <1>2, <1>4, <1>5, <1>6, <1>7, <1>8, <1>9, <1>10, <1>11 DEF Trip!Next

-----------------------------------------------------------------------------
(* The Save button says what the server last did or answered for it.       *)

(* The rows a step may leave. *)
LEMMA SavingRows ==
  ASSUME Saving!TypeOK
  PROVE  /\ Saving!InitialFavouriteState \in Saving!Controls /\ Saving!NoAct \in Saving!Acts
         /\ \A s \in {"saved", "unsaved"} :
              [status |-> s, busy |-> FALSE, error |-> FALSE] \in Saving!Controls
         /\ \A b, e \in BOOLEAN :
              [v4 EXCEPT !.busy = b, !.error = e] \in Saving!Controls
         /\ \A w \in BOOLEAN : [wants |-> w, answer |-> "sent"] \in Saving!Acts
         /\ \A a \in {"success", "unauthorized", "error"} : [v6 EXCEPT !.answer = a] \in Saving!Acts
         /\ Saving!ListSavedProperties \in Saving!Answers
         /\ \A w \in BOOLEAN :
              /\ Saving!Perform(w).row \in BOOLEAN
              /\ Saving!Perform(w).answer \in {"success", "unauthorized", "error"}
BY DEF Saving!TypeOK, Saving!InitialFavouriteState, Saving!NoAct, Saving!Controls, Saving!Acts,
  Saving!ListSavedProperties, Saving!Answers, Saving!Perform

LEMMA SavingInit == Saving!Init => Saving!Inv
<1> SUFFICES ASSUME Saving!Init PROVE Saving!Inv
  OBVIOUS
<1>1. Saving!TypeOK
  <2>1. Saving!InitialFavouriteState \in Saving!Controls /\ Saving!NoAct \in Saving!Acts
        /\ [state |-> "closed", has |-> FALSE, removing |-> FALSE] \in Saving!Pages
    BY DEF Saving!InitialFavouriteState, Saving!NoAct, Saving!Controls, Saving!Acts, Saving!Pages
  <2>2. 0 \in 0..Clicks
    BY PlatformAssumption DEF Saving!FavouritesAssumption
  <2> QED BY <2>1, <2>2 DEF Saving!Init, Saving!TypeOK
<1>2. Saving!AnswersStand /\ Saving!ControlIsTrue
  BY DEF Saving!Init, Saving!AnswersStand, Saving!ControlIsTrue, Saving!InitialFavouriteState,
    Saving!NoAct
<1> QED BY <1>1, <1>2 DEF Saving!Inv

(* The button's own steps. *)
LEMMA SavingButton ==
  ASSUME Saving!Inv,
         \/ Saving!LoadFavourite \/ Saving!ReadFavourites \/ Saving!InterpretFavouritesLoad
         \/ Saving!BeginFavouriteAction \/ Saving!ServeFavourite
         \/ Saving!CompleteFavouriteAction
  PROVE  Saving!Inv'
<1>1. CASE Saving!LoadFavourite \/ Saving!ReadFavourites
  <2>1. Saving!TypeOK'
    BY <1>1, SavingRows DEF Saving!LoadFavourite, Saving!ReadFavourites, Saving!Inv, Saving!TypeOK,
      Saving!Answers
  <2>2. /\ UNCHANGED <<v4, v6>> /\ v5 # "done" /\ v5' # "done"
        /\ v5' \in {"signedOut", "saved", "unsaved"} => v7' = (v5' = "saved")
    BY <1>1, SavingRows DEF Saving!LoadFavourite, Saving!ReadFavourites, Saving!Inv, Saving!Answers
  <2>3. v4 = Saving!InitialFavouriteState /\ v6 = Saving!NoAct
    BY <2>2 DEF Saving!Inv, Saving!AnswersStand
  <2>4. Saving!AnswersStand' /\ Saving!ControlIsTrue'
    BY <2>2, <2>3 DEF Saving!AnswersStand, Saving!ControlIsTrue, Saving!InitialFavouriteState,
      Saving!NoAct
  <2> QED BY <2>1, <2>4 DEF Saving!Inv
<1>2. CASE Saving!InterpretFavouritesLoad
  <2>1. Saving!TypeOK'
    BY <1>2, SavingRows DEF Saving!InterpretFavouritesLoad, Saving!Inv, Saving!TypeOK
  <2>2. Saving!AnswersStand' /\ Saving!ControlIsTrue'
    BY <1>2 DEF Saving!InterpretFavouritesLoad, Saving!Inv, Saving!NoAct, Saving!Answers,
      Saving!AnswersStand, Saving!ControlIsTrue, Saving!InitialFavouriteState
  <2> QED BY <2>1, <2>2 DEF Saving!Inv
<1>3. CASE Saving!BeginFavouriteAction
  <2>1. v4' = [v4 EXCEPT !.busy = TRUE, !.error = FALSE]
        /\ v6' = [wants |-> v4.status # "saved", answer |-> "sent"]
        /\ v4.status # "unknown" /\ v9 < Clicks /\ v9' = v9 + 1
        /\ UNCHANGED <<v1, v2, v3, v5, v7, v8>>
    BY <1>3 DEF Saving!BeginFavouriteAction, Saving!MayToggle
  <2>2. Saving!TypeOK /\ (v4.status # "saved") \in BOOLEAN
    BY DEF Saving!Inv
  <2>3. v4' \in Saving!Controls /\ v6' \in Saving!Acts
    BY <2>1, <2>2, SavingRows
  <2>4. Saving!TypeOK'
    BY <2>1, <2>2, <2>3, PlatformAssumption DEF Saving!TypeOK, Saving!FavouritesAssumption
  <2>5. v4'.busy = TRUE /\ v6'.answer = "sent" /\ v5 = "done"
    BY <2>1, <2>2 DEF Saving!Inv, Saving!AnswersStand, Saving!InitialFavouriteState, Saving!TypeOK,
      Saving!Controls
  <2>6. Saving!AnswersStand' /\ Saving!ControlIsTrue'
    BY <2>1, <2>5 DEF Saving!AnswersStand, Saving!ControlIsTrue
  <2> QED BY <2>4, <2>6 DEF Saving!Inv
<1>4. CASE Saving!ServeFavourite
  <2>1. v6.answer = "sent" /\ v6.wants \in BOOLEAN /\ Saving!TypeOK
    BY <1>4 DEF Saving!ServeFavourite, Saving!Inv, Saving!TypeOK, Saving!Acts
  <2>2. /\ v6' \in Saving!Acts /\ v6'.wants = v6.wants /\ v6'.answer # "none"
        /\ v6'.answer = "success" => v7' = v6.wants
        /\ v1' \in BOOLEAN /\ v7' \in BOOLEAN
        /\ UNCHANGED <<v2, v3, v4, v5, v8, v9>>
    BY <1>4, <2>1, SavingRows, ZenonT(60) DEF Saving!ServeFavourite, Saving!TypeOK, Saving!Acts
  <2>3. Saving!TypeOK'
    BY <2>1, <2>2 DEF Saving!TypeOK
  <2>4. Saving!AnswersStand' /\ Saving!ControlIsTrue'
    BY <2>1, <2>2 DEF Saving!Inv, Saving!AnswersStand, Saving!ControlIsTrue, Saving!NoAct
  <2> QED BY <2>3, <2>4 DEF Saving!Inv
<1>5. CASE Saving!CompleteFavouriteAction
  <2>0. v6.wants \in BOOLEAN /\ Saving!TypeOK
    BY DEF Saving!Inv, Saving!TypeOK, Saving!Acts
  <2>1. Saving!TypeOK'
    BY <1>5, <2>0, SavingRows DEF Saving!CompleteFavouriteAction, Saving!TypeOK
  <2>2. Saving!AnswersStand' /\ Saving!ControlIsTrue'
    <3>1. v6' = Saving!NoAct /\ Saving!NoAct.answer = "none" /\ v7' = v7
      BY <1>5 DEF Saving!CompleteFavouriteAction, Saving!NoAct
    <3>2. CASE v6.answer = "success"
      BY <1>5, <3>1, <3>2, <2>0 DEF Saving!CompleteFavouriteAction, Saving!Inv, Saving!AnswersStand,
        Saving!ControlIsTrue, Saving!NoAct
    <3>3. CASE v6.answer = "error"
      <4>1. v4'.error = TRUE /\ v5' = v5
        BY <1>5, <3>3, <2>0 DEF Saving!CompleteFavouriteAction, Saving!TypeOK, Saving!Controls
      <4> QED BY <3>1, <3>3, <4>1 DEF Saving!Inv, Saving!AnswersStand,
            Saving!ControlIsTrue, Saving!NoAct
    <3>4. CASE v6.answer = "unauthorized"
      BY <1>5, <3>1, <3>4 DEF Saving!CompleteFavouriteAction, Saving!Inv, Saving!AnswersStand,
        Saving!ControlIsTrue, Saving!InitialFavouriteState
    <3> QED BY <1>5, <3>2, <3>3, <3>4 DEF Saving!CompleteFavouriteAction
  <2> QED BY <2>1, <2>2 DEF Saving!Inv
<1> QED BY <1>1, <1>2, <1>3, <1>4, <1>5

(* The other page, and what happens elsewhere. *)
LEMMA SavingElsewhere ==
  ASSUME Saving!Inv, Saving!FavouritesPage \/ Saving!SessionEnds \/ Saving!StayUnlisted
  PROVE  Saving!Inv'
<1>1. UNCHANGED <<v4, v5, v6, v7>>
  BY DEF Saving!FavouritesPage, Saving!OpenFavourites, Saving!HandleRemove, Saving!RemoveAnswered,
    Saving!SessionEnds, Saving!StayUnlisted
<1>2. Saving!AnswersStand' /\ Saving!ControlIsTrue'
  BY <1>1 DEF Saving!Inv, Saving!AnswersStand, Saving!ControlIsTrue
<1>3. Saving!TypeOK'
  <2> USE DEF Saving!Inv, Saving!TypeOK
  <2>1. CASE Saving!OpenFavourites
    <3>1. \A s \in {"loaded", "unauthenticated"}, h \in BOOLEAN :
            [state |-> s, has |-> h, removing |-> FALSE] \in Saving!Pages
      BY DEF Saving!Pages
    <3>2. [v8 EXCEPT !.state = "error"] \in Saving!Pages
      BY DEF Saving!Pages
    <3> QED BY <2>1, <3>1, <3>2 DEF Saving!OpenFavourites
  <2>2. CASE Saving!HandleRemove
    <3>1. v8' \in Saving!Pages
      BY <2>2 DEF Saving!HandleRemove, Saving!Pages
    <3>2. v9' \in 0..Clicks
      BY <2>2, PlatformAssumption DEF Saving!HandleRemove, Saving!FavouritesAssumption
    <3> QED BY <2>2, <3>1, <3>2 DEF Saving!HandleRemove
  <2>3. CASE Saving!RemoveAnswered
    <3>1. v8' \in Saving!Pages
      BY <2>3 DEF Saving!RemoveAnswered, Saving!Pages
    <3> QED BY <2>3, <3>1, SavingRows DEF Saving!RemoveAnswered
  <2>4. CASE Saving!SessionEnds \/ Saving!StayUnlisted
    BY <2>4 DEF Saving!SessionEnds, Saving!StayUnlisted
  <2> QED BY <2>1, <2>2, <2>3, <2>4 DEF Saving!FavouritesPage
<1> QED BY <1>2, <1>3 DEF Saving!Inv

LEMMA SavingStep == Saving!Inv /\ [Saving!Next]_(Saving!favouritesVars) => Saving!Inv'
<1> SUFFICES ASSUME Saving!Inv, [Saving!Next]_(Saving!favouritesVars) PROVE Saving!Inv'
  OBVIOUS
<1>1. CASE UNCHANGED Saving!favouritesVars
  BY <1>1 DEF Saving!favouritesVars, Saving!Inv, Saving!TypeOK, Saving!AnswersStand,
    Saving!ControlIsTrue
<1> QED BY <1>1, SavingButton, SavingElsewhere DEF Saving!Next

-----------------------------------------------------------------------------
(* The checkout a guest is sent to is for the dates the guest asked for.   *)

LEMMA StayKeys ==
  /\ Stay!Keys \subseteq Nat /\ 1 \in Stay!Keys /\ Stay!NoKey \notin Stay!Keys
  /\ Stay!Dates \subseteq Nat
BY PlatformAssumption DEF Stay!StayPageAssumption, Stay!Keys, Stay!NoKey, Stay!Dates

LEMMA StayUnavailable == ASSUME Stay!TypeOK PROVE Stay!Unavailable \subseteq Stay!Nights
BY DEF Stay!TypeOK, Stay!Unavailable, Stay!NightsOf

LEMMA StayOpened ==
  ASSUME NEW in \in Stay!Dates \cup {Stay!NoDate}, NEW out \in Stay!Dates \cup {Stay!NoDate},
         NEW k \in Stay!Keys
  PROVE  /\ Stay!Opened(in, out, k) \in Stay!Forms
         /\ Stay!Opened(in, out, k).key = k /\ Stay!Opened(in, out, k).booking = "idle"
BY DEF Stay!Opened, Stay!Forms

LEMMA StayInit == Stay!Init => Stay!Inv
<1> SUFFICES ASSUME Stay!Init PROVE Stay!Inv
  OBVIOUS
<1>1. Stay!NoStay \in Stay!Bookings /\ Stay!NoFetch \in Stay!Reads
      /\ Stay!NoRequest \in Stay!Attempts
  BY DEF Stay!NoStay, Stay!Bookings, Stay!NoFetch, Stay!Reads, Stay!NoRequest, Stay!Attempts
<1>2. v4 \in Stay!Forms /\ v4.key = 1 /\ v4.booking = "idle"
  BY StayOpened, StayKeys DEF Stay!Init
<1>3. Stay!TypeOK
  BY <1>1, <1>2 DEF Stay!Init, Stay!TypeOK
<1>4. Stay!KeysAreFresh /\ Stay!AnswerIsForRequest
  BY <1>2, StayKeys DEF Stay!Init, Stay!KeysAreFresh, Stay!AnswerIsForRequest, Stay!NoRequest
<1> QED BY <1>3, <1>4 DEF Stay!Inv

(* Steps that leave the bookings, the attempt and the page's key alone. *)
LEMMA StayHarmless ==
  ASSUME Stay!Inv, v4' \in Stay!Forms, v4'.key = v4.key, v4'.booking = v4.booking,
         UNCHANGED <<v3, v6, v7>>
  PROVE  Stay!KeysAreFresh' /\ Stay!AnswerIsForRequest'
BY DEF Stay!Inv, Stay!KeysAreFresh, Stay!AnswerIsForRequest

LEMMA StayLoading ==
  ASSUME Stay!Inv,
         \/ Stay!InterpretPropertyResponse \/ Stay!AvailabilityCalendar
         \/ \E f \in Fetches :
              Stay!FetchAvailability(f) \/ Stay!AvailabilityRead(f) \/ Stay!AvailabilityShown(f)
  PROVE  Stay!Inv'
<1> USE DEF Stay!TypeOK
<1>0. Stay!TypeOK
  BY DEF Stay!Inv
<1>1. ASSUME v4' \in Stay!Forms, v4'.key = v4.key, v4'.booking = v4.booking,
             v5' \in [Fetches -> Stay!Reads], UNCHANGED <<v1, v2, v3, v6, v7>>
      PROVE  Stay!Inv'
  BY <1>0, <1>1, StayHarmless DEF Stay!Inv
<1>2. CASE Stay!InterpretPropertyResponse
  BY <1>0, <1>1, <1>2 DEF Stay!InterpretPropertyResponse, Stay!PropertyRoute, Stay!Forms
<1>3. CASE Stay!AvailabilityCalendar
  <2>1. PICK d \in Stay!Dates : Stay!HandleCalendarSelect(d)
    BY <1>3 DEF Stay!AvailabilityCalendar
  <2>2. v4' \in Stay!Forms /\ v4'.key = v4.key /\ v4'.booking = v4.booking
    BY <1>0, <2>1 DEF Stay!HandleCalendarSelect, Stay!Forms
  <2> QED BY <1>0, <1>1, <2>1, <2>2 DEF Stay!HandleCalendarSelect
<1>4. ASSUME NEW f \in Fetches, Stay!FetchAvailability(f) \/ Stay!AvailabilityRead(f)
      PROVE  Stay!Inv'
  <2>1. v5' \in [Fetches -> Stay!Reads]
    BY <1>0, <1>4, StayUnavailable DEF Stay!FetchAvailability, Stay!AvailabilityRead, Stay!Reads
  <2> QED BY <1>0, <1>1, <1>4, <2>1 DEF Stay!FetchAvailability, Stay!AvailabilityRead
<1>5. ASSUME NEW f \in Fetches, Stay!AvailabilityShown(f) PROVE Stay!Inv'
  <2>1. v5' \in [Fetches -> Stay!Reads]
    BY <1>0, <1>5 DEF Stay!AvailabilityShown, Stay!NoFetch, Stay!Reads
  <2>2. v5[f].dates \in SUBSET Stay!Nights
    BY <1>0, <1>5 DEF Stay!Reads
  <2>3. v4' \in Stay!Forms /\ v4'.key = v4.key /\ v4'.booking = v4.booking
    BY <1>0, <1>5, <2>2 DEF Stay!AvailabilityShown, Stay!Forms
  <2> QED BY <1>1, <1>5, <2>1, <2>3 DEF Stay!AvailabilityShown
<1> QED BY <1>2, <1>3, <1>4, <1>5

LEMMA StayReserving ==
  ASSUME Stay!Inv, Stay!HandleReserve \/ Stay!CreateBooking
  PROVE  Stay!Inv'
<1> USE DEF Stay!TypeOK
<1>0. Stay!TypeOK
  BY DEF Stay!Inv
<1>1. CASE Stay!HandleReserve
  <2>1. v4' \in Stay!Forms /\ v4'.key = v4.key /\ v4'.booking = "submitting"
    BY <1>0, <1>1 DEF Stay!HandleReserve, Stay!Forms
  <2>2. v6' \in Stay!Attempts /\ v6'.key = v4.key /\ v6'.answer = "sent"
    BY <1>0, <1>1 DEF Stay!HandleReserve, Stay!Forms, Stay!Attempts
  <2>3. v7 = Stay!NoKey /\ v3[v4.key] = Stay!NoStay /\ UNCHANGED <<v1, v2, v3, v5, v7>>
    BY <1>1 DEF Stay!HandleReserve, Stay!Inv, Stay!KeysAreFresh
  <2>4. Stay!KeysAreFresh' /\ Stay!AnswerIsForRequest'
    BY <2>1, <2>2, <2>3 DEF Stay!Inv, Stay!KeysAreFresh, Stay!AnswerIsForRequest
  <2> QED BY <1>0, <2>1, <2>2, <2>3, <2>4 DEF Stay!Inv
<1>2. CASE Stay!CreateBooking
  <2> DEFINE asked == [checkIn |-> v6.checkIn, checkOut |-> v6.checkOut, live |-> TRUE]
  <2>1. v6.answer = "sent" /\ v6.key = v4.key /\ v4.key \in Stay!Keys /\ v3[v6.key] = Stay!NoStay
        /\ v4.booking = "submitting" /\ UNCHANGED <<v1, v2, v4, v5, v7>>
    BY <1>0, <1>2 DEF Stay!CreateBooking, Stay!Inv, Stay!KeysAreFresh, Stay!Forms
  <2>2. asked \in Stay!Bookings
    BY <1>0 DEF Stay!Bookings, Stay!Attempts
  <2>3. PICK a \in {"booking", "error", "DATES_UNAVAILABLE", "unauthorized"} :
          /\ v6' = [v6 EXCEPT !.answer = a]
          /\ \/ v3' = [v3 EXCEPT ![v6.key] = asked]
             \/ v3' = v3 /\ a # "booking"
    BY <1>2, <2>1 DEF Stay!CreateBooking, Stay!Answered
  <2>4. /\ v6' \in Stay!Attempts /\ v6'.key = v6.key /\ v6'.answer = a
        /\ v6'.checkIn = v6.checkIn /\ v6'.checkOut = v6.checkOut
    BY <1>0, <2>3 DEF Stay!Attempts
  <2>5. /\ v3' \in [Stay!Keys -> Stay!Bookings]
        /\ \A k \in Stay!Keys \ {v6.key} : v3'[k] = v3[k]
        /\ a = "booking" => v3'[v6.key] = asked
    BY <1>0, <2>1, <2>2, <2>3
  <2>6. v7 = Stay!NoKey
    BY <2>1 DEF Stay!Inv, Stay!AnswerIsForRequest
  <2>7. Stay!KeysAreFresh'
    <3>1. \A k \in Stay!Keys : k > v4.key => v3'[k] = Stay!NoStay
      BY <2>1, <2>5, StayKeys DEF Stay!Inv, Stay!KeysAreFresh
    <3> QED BY <2>1, <2>4, <3>1 DEF Stay!KeysAreFresh
  <2>8. Stay!AnswerIsForRequest'
    BY <2>1, <2>4, <2>5, <2>6 DEF Stay!AnswerIsForRequest
  <2> QED BY <1>0, <2>1, <2>4, <2>5, <2>7, <2>8 DEF Stay!Inv
<1> QED BY <1>1, <1>2

LEMMA StayAnswers ==
  ASSUME Stay!Inv, Stay!ReserveAnswered \/ Stay!OpenAgain
  PROVE  Stay!Inv'
<1> USE DEF Stay!TypeOK
<1>0. Stay!TypeOK /\ v4.key \in Stay!Keys /\ v4.key \in Nat
  BY StayKeys DEF Stay!Inv, Stay!Forms
<1>1. ASSUME v4.key + 1 \in Stay!Keys, v4' \in Stay!Forms, v4'.key = v4.key + 1,
             v4'.booking # "submitting", v7' = Stay!NoKey, v6' \in Stay!Attempts,
             v6'.answer # "sent", v6'.answer # "booking", UNCHANGED <<v1, v2, v3, v5>>
      PROVE  Stay!Inv'
  <2>1. \A k \in Stay!Keys : k >= v4.key + 1 => v3[k] = Stay!NoStay
    BY <1>0, StayKeys DEF Stay!Inv, Stay!KeysAreFresh
  <2>2. Stay!KeysAreFresh'
    BY <1>0, <1>1, <2>1, StayKeys DEF Stay!KeysAreFresh
  <2>3. Stay!AnswerIsForRequest'
    BY <1>1 DEF Stay!AnswerIsForRequest
  <2> QED BY <1>0, <1>1, <2>2, <2>3 DEF Stay!Inv
<1>2. CASE Stay!OpenAgain
  <2>1. Stay!NoRequest \in Stay!Attempts /\ Stay!NoRequest.answer = "none"
    BY DEF Stay!NoRequest, Stay!Attempts
  <2>2. v4' \in Stay!Forms /\ v4'.key = v4.key + 1 /\ v4'.booking = "idle"
    BY <1>2, StayOpened DEF Stay!OpenAgain
  <2> QED BY <1>1, <1>2, <2>1, <2>2 DEF Stay!OpenAgain
<1>3. CASE Stay!ReserveAnswered
  <2>1. CASE v6.answer = "booking"
    <3>1. v7' = v6.key /\ v4.booking = "submitting" /\ UNCHANGED <<v1, v2, v3, v4, v5, v6>>
      BY <1>3, <2>1 DEF Stay!ReserveAnswered
    <3> QED BY <1>0, <2>1, <3>1 DEF Stay!Inv, Stay!KeysAreFresh, Stay!AnswerIsForRequest
  <2>2. CASE v6.answer # "booking"
    <3>1. v7 = Stay!NoKey
      BY <2>2 DEF Stay!Inv, Stay!AnswerIsForRequest
    <3>2. /\ v7' = v7 /\ v4.key + 1 \in Stay!Keys /\ v6.answer # "sent"
          /\ UNCHANGED <<v1, v2, v3, v5, v6>>
          /\ \/ v4' = Stay!Opened(v4.checkIn, v4.checkOut, v4.key + 1)
             \/ \E b \in {"conflict", "error"} :
                  v4' = [v4 EXCEPT !.booking = b, !.key = v4.key + 1]
      BY <1>3, <2>2 DEF Stay!ReserveAnswered, Stay!AfterFailure
    <3>3. v4' \in Stay!Forms /\ v4'.key = v4.key + 1 /\ v4'.booking # "submitting"
      <4>1. CASE v4' = Stay!Opened(v4.checkIn, v4.checkOut, v4.key + 1)
        <5>1. v4.checkIn \in Stay!Dates \cup {Stay!NoDate} /\ v4.checkOut \in Stay!Dates \cup {Stay!NoDate}
          BY <1>0 DEF Stay!Forms
        <5> QED BY <3>2, <4>1, <5>1, StayOpened
      <4>2. ASSUME NEW b \in {"conflict", "error"},
                   v4' = [v4 EXCEPT !.booking = b, !.key = v4.key + 1]
            PROVE  v4' \in Stay!Forms /\ v4'.key = v4.key + 1 /\ v4'.booking # "submitting"
        <5>1. PICK k \in Stay!Keys : k = v4.key + 1
          BY <3>2
        <5>2. v4' = [v4 EXCEPT !.booking = b, !.key = k]
          BY <4>2, <5>1
        <5> QED BY <1>0, <5>1, <5>2 DEF Stay!Forms
      <4> QED BY <3>2, <4>1, <4>2
    <3> QED BY <1>0, <1>1, <2>2, <3>1, <3>2, <3>3
  <2> QED BY <2>1, <2>2
<1> QED BY <1>2, <1>3

LEMMA StayOthers ==
  ASSUME Stay!Inv,
         \/ \E k \in Stay!Keys : Stay!StayReleased(k)
         \/ \E n \in Stay!Nights : Stay!OthersBookOrRelease(n)
         \/ Stay!ListingHidden
  PROVE  Stay!Inv'
<1> USE DEF Stay!TypeOK
<1>0. Stay!TypeOK
  BY DEF Stay!Inv
<1>1. ASSUME NEW k \in Stay!Keys, Stay!StayReleased(k) PROVE Stay!Inv'
  <2>1. v3[k] \in Stay!Bookings /\ v3[k].live = TRUE
    BY <1>0, <1>1 DEF Stay!StayReleased, Stay!Bookings
  <2>2. /\ v3' = [v3 EXCEPT ![k] = [v3[k] EXCEPT !.live = FALSE]]
        /\ UNCHANGED <<v1, v2, v4, v5, v6, v7>>
    BY <1>1 DEF Stay!StayReleased
  <2>3. /\ [v3[k] EXCEPT !.live = FALSE] \in Stay!Bookings
        /\ [v3[k] EXCEPT !.live = FALSE].checkIn = v3[k].checkIn
        /\ [v3[k] EXCEPT !.live = FALSE].checkOut = v3[k].checkOut
    BY <2>1 DEF Stay!Bookings
  <2>4. /\ v3[k] # Stay!NoStay /\ v3' \in [Stay!Keys -> Stay!Bookings]
        /\ \A j \in Stay!Keys : /\ v3'[j].checkIn = v3[j].checkIn /\ v3'[j].checkOut = v3[j].checkOut
                                /\ j # k => v3'[j] = v3[j]
    BY <1>0, <2>1, <2>2, <2>3 DEF Stay!NoStay
  <2>5. v4.key \in Stay!Keys /\ (v6.answer = "sent" => v6.key = v4.key)
    BY <1>0 DEF Stay!Inv, Stay!KeysAreFresh, Stay!Forms
  <2>6. Stay!KeysAreFresh'
    BY <2>2, <2>4, <2>5 DEF Stay!Inv, Stay!KeysAreFresh
  <2>7. Stay!AnswerIsForRequest'
    BY <2>2, <2>4 DEF Stay!Inv, Stay!AnswerIsForRequest
  <2> QED BY <1>0, <2>2, <2>4, <2>6, <2>7 DEF Stay!Inv
<1>2. ASSUME NEW n \in Stay!Nights, Stay!OthersBookOrRelease(n) PROVE Stay!Inv'
  BY <1>0, <1>2, StayHarmless DEF Stay!OthersBookOrRelease, Stay!Inv
<1>3. CASE Stay!ListingHidden
  BY <1>0, <1>3, StayHarmless DEF Stay!ListingHidden, Stay!Inv
<1> QED BY <1>1, <1>2, <1>3

LEMMA StayStep == Stay!Inv /\ [Stay!Next]_(Stay!stayPageVars) => Stay!Inv'
<1> SUFFICES ASSUME Stay!Inv, [Stay!Next]_(Stay!stayPageVars) PROVE Stay!Inv'
  OBVIOUS
<1>1. CASE UNCHANGED Stay!stayPageVars
  BY <1>1, StayHarmless DEF Stay!stayPageVars, Stay!Inv, Stay!TypeOK
<1> QED BY <1>1, StayLoading, StayReserving, StayAnswers, StayOthers DEF Stay!Next, Stay!BookingPanel

LEMMA StayCheckout == Stay!Inv => Stay!CheckoutIsForRequest
BY DEF Stay!Inv, Stay!CheckoutIsForRequest, Stay!AnswerIsForRequest

-----------------------------------------------------------------------------
(* The search shows what a booking would take, and nothing else.           *)

LEMMA SearchInit == Searching!Init => Searching!Inv
<1> SUFFICES ASSUME Searching!Init PROVE Searching!Inv
  OBVIOUS
<1>1. PICK c \in Searching!Criteria :
        v3 = [criteria |-> c, state |-> "loading", shown |-> FALSE, crowded |-> FALSE]
  BY DEF Searching!Init
<1>2. v3 \in Searching!Pages /\ v3.state = "loading"
  BY <1>1 DEF Searching!Pages
<1>3. Searching!Closed \in Searching!Visits
  <2>1. 0 \in 0..MostGuests
    BY PlatformAssumption DEF Searching!SearchAssumption
  <2>2. Searching!NoCriteria \in Searching!Criteria
    BY <2>1 DEF Searching!NoCriteria, Searching!Criteria, Searching!Absent
  <2> QED BY <2>2 DEF Searching!Closed, Searching!Visits, Searching!VisitAnswers
<1>4. Searching!LinksAreDated
  BY DEF Searching!Init, Searching!LinksAreDated, Searching!Closed
<1> QED BY <1>2, <1>3, <1>4 DEF Searching!Init, Searching!Inv, Searching!TypeOK, Searching!ShownIsSo

(* A booking, and what changes meanwhile. *)
LEMMA SearchElsewhere ==
  ASSUME Searching!Inv,
         \/ Searching!OpenStay \/ Searching!CreateBooking \/ Searching!PropertyChanges
         \/ \E n \in Searching!AllNights : Searching!NightChanges(n)
  PROVE  Searching!Inv'
<1>0. Searching!TypeOK
  BY DEF Searching!Inv
<1>1. v4' \in Searching!Visits
  <2>1. CASE Searching!OpenStay
    <3>1. Searching!DetailHref(v3.criteria) \in Searching!Criteria
      <4>1. v3.criteria \in Searching!Criteria /\ 1 \in 0..MostGuests
        BY <1>0, PlatformAssumption
           DEF Searching!TypeOK, Searching!Pages, Searching!SearchAssumption
      <4> QED BY <4>1 DEF Searching!DetailHref, Searching!Criteria
    <3> QED BY <2>1, <3>1 DEF Searching!OpenStay, Searching!Visits, Searching!VisitAnswers
  <2>2. CASE Searching!CreateBooking
    <3>1. Searching!BookingError(v4.form) \in Searching!VisitAnswers
      BY DEF Searching!BookingError, Searching!VisitAnswers
    <3> QED BY <1>0, <2>2, <3>1 DEF Searching!CreateBooking, Searching!TypeOK, Searching!Visits
  <2>3. CASE UNCHANGED v4
    BY <1>0, <2>3 DEF Searching!TypeOK
  <2> QED BY <2>1, <2>2, <2>3 DEF Searching!PropertyChanges, Searching!NightChanges
<1>2. v1' \in Searching!Properties
  BY <1>0 DEF Searching!OpenStay, Searching!CreateBooking, Searching!PropertyChanges,
    Searching!NightChanges, Searching!TypeOK
<1>3. v2' \subseteq Searching!AllNights /\ v5' \in BOOLEAN /\ v3' = v3
  <2>1. CASE Searching!CreateBooking
    <3>1. v5' \in BOOLEAN /\ v3' = v3
      BY <1>0, <2>1 DEF Searching!CreateBooking, Searching!TypeOK
    <3>2. v4.form.checkIn \in 1..LastDay /\ v4.form.checkOut \in 1..LastDay
      BY <1>0, <2>1 DEF Searching!CreateBooking, Searching!Inv, Searching!LinksAreDated,
        Searching!Dated, Searching!TypeOK, Searching!Visits, Searching!Criteria,
        Searching!Days, Searching!Absent
    <3>3. Searching!EnumerateDates(v4.form) \subseteq Searching!AllNights
      BY <3>2, PlatformAssumption
         DEF Searching!EnumerateDates, Searching!AllNights, Searching!SearchAssumption
    <3> QED BY <1>0, <2>1, <3>1, <3>3 DEF Searching!CreateBooking, Searching!TypeOK
  <2> QED BY <1>0, <2>1 DEF Searching!OpenStay, Searching!PropertyChanges,
            Searching!NightChanges, Searching!TypeOK
<1>4. ~v5' => UNCHANGED <<v1, v2>> /\ ~v5
  BY <1>0 DEF Searching!OpenStay, Searching!CreateBooking, Searching!PropertyChanges,
    Searching!NightChanges, Searching!TypeOK
<1>5. Searching!TypeOK'
  BY <1>0, <1>1, <1>2, <1>3 DEF Searching!TypeOK
<1>6. Searching!ShownIsSo'
  BY <1>3, <1>4 DEF Searching!Inv, Searching!ShownIsSo, Searching!ValidQuery, Searching!Dated,
    Searching!Conditions, Searching!SearchBlocks, Searching!StayLimits, Searching!SearchNights
<1>7. Searching!LinksAreDated'
  <2>1. CASE Searching!OpenStay
    <3>1. v4'.form = Searching!DetailHref(v3.criteria) /\ Searching!Dated(v3.criteria)
      BY <2>1 DEF Searching!OpenStay
    <3>2. /\ Searching!DetailHref(v3.criteria).checkIn = v3.criteria.checkIn
          /\ Searching!DetailHref(v3.criteria).checkOut = v3.criteria.checkOut
      BY <1>0 DEF Searching!TypeOK, Searching!Pages, Searching!Criteria, Searching!DetailHref
    <3> QED BY <3>1, <3>2 DEF Searching!LinksAreDated, Searching!Dated
  <2>2. CASE Searching!CreateBooking
    <3>1. v4'.form = v4.form /\ v4.answer = "open"
      BY <1>0, <2>2 DEF Searching!CreateBooking, Searching!TypeOK, Searching!Visits
    <3> QED BY <3>1 DEF Searching!Inv, Searching!LinksAreDated, Searching!Dated
  <2>3. CASE UNCHANGED v4
    BY <2>3 DEF Searching!Inv, Searching!LinksAreDated, Searching!Dated
  <2> QED BY <2>1, <2>2, <2>3 DEF Searching!PropertyChanges, Searching!NightChanges
<1> QED BY <1>5, <1>6, <1>7 DEF Searching!Inv

LEMMA SearchStep == Searching!Inv /\ [Searching!Next]_(Searching!searchVars) => Searching!Inv'
<1> SUFFICES ASSUME Searching!Inv, [Searching!Next]_(Searching!searchVars) PROVE Searching!Inv'
  OBVIOUS
<1>0. Searching!TypeOK
  BY DEF Searching!Inv
<1>1. CASE Searching!SearchRoute
  <2>1. UNCHANGED <<v1, v2, v4, v5>>
    BY <1>1 DEF Searching!SearchRoute
  <2>2. CASE v3' = [v3 EXCEPT !.state = "error"] \/ v3' = [v3 EXCEPT !.state = "invalid"]
    <3>1. v3' \in Searching!Pages /\ v3'.state # "results"
      BY <1>0, <2>2 DEF Searching!TypeOK, Searching!Pages
    <3> QED BY <1>0, <2>1, <3>1 DEF Searching!Inv, Searching!TypeOK, Searching!ShownIsSo,
              Searching!LinksAreDated, Searching!Dated
  <2>3. CASE /\ Searching!ValidQuery(v3.criteria)
             /\ \E crowded \in BOOLEAN :
                  v3' = [v3 EXCEPT !.state = "results", !.crowded = crowded,
                                   !.shown = Searching!Conditions(v3.criteria) /\ ~crowded]
    <3>1. PICK full \in BOOLEAN :
            v3' = [v3 EXCEPT !.state = "results", !.crowded = full,
                             !.shown = Searching!Conditions(v3.criteria) /\ ~full]
      BY <2>3
    <3>2. PICK b \in BOOLEAN : b <=> Searching!Conditions(v3.criteria) /\ ~full
      OBVIOUS
    <3>3. v3' = [v3 EXCEPT !.state = "results", !.crowded = full, !.shown = b]
      BY <3>1, <3>2 DEF Searching!Conditions
    <3>4. /\ v3' \in Searching!Pages /\ v3'.criteria = v3.criteria
          /\ v3'.shown = b /\ v3'.crowded = full
      BY <1>0, <3>3 DEF Searching!TypeOK, Searching!Pages
    <3>5. Searching!ShownIsSo'
      BY <2>1, <2>3, <3>2, <3>4 DEF Searching!ShownIsSo, Searching!ValidQuery, Searching!Dated,
        Searching!Conditions, Searching!SearchBlocks, Searching!StayLimits, Searching!SearchNights
    <3> QED BY <1>0, <2>1, <3>4, <3>5 DEF Searching!Inv, Searching!TypeOK,
              Searching!LinksAreDated, Searching!Dated
  <2> QED BY <1>1, <2>2, <2>3 DEF Searching!SearchRoute
<1>2. CASE UNCHANGED Searching!searchVars
  BY <1>0, <1>2 DEF Searching!searchVars, Searching!Inv, Searching!TypeOK, Searching!ShownIsSo,
    Searching!ValidQuery, Searching!Dated, Searching!Conditions, Searching!SearchBlocks,
    Searching!StayLimits, Searching!SearchNights, Searching!LinksAreDated
<1> QED BY <1>1, <1>2, SearchElsewhere DEF Searching!Next

LEMMA SearchCount == \A S : Searching!Cardinality(S) = Cardinality(S)
BY DEF Searching!Cardinality, Cardinality

(* What a valid dated query inside the booking window shows is booked, of as many
   nights, or has no price; what would be booked is shown or crowded out. *)
LEMMA SearchAgrees == Searching!Inv => Searching!SearchAgreesWithBooking
<1> SUFFICES ASSUME Searching!Inv, v3.state = "results", ~v5, Searching!Dated(v3.criteria),
                    Searching!InBookingWindow(v3.criteria)
             PROVE  /\ v3.shown =>
                         /\ Searching!BookingError(Searching!DetailHref(v3.criteria))
                              \in {"booked", "unpriced"}
                         /\ Searching!Cardinality(
                              Searching!EnumerateDates(Searching!DetailHref(v3.criteria)))
                              = Searching!SearchNights(v3.criteria)
                    /\ Searching!BookingError(Searching!DetailHref(v3.criteria)) = "booked" =>
                         v3.shown \/ v3.crowded
  BY DEF Searching!SearchAgreesWithBooking
<1> DEFINE c == v3.criteria
           d == Searching!DetailHref(c)
<1>1. /\ c \in Searching!Criteria /\ c.guests \in Nat /\ c.checkIn \in Nat /\ c.checkOut \in Nat
      /\ v1.maxGuests \in Nat /\ v1.maxGuests >= 1 /\ v1.minStay \in Nat /\ v1.maxStay \in Nat
  BY PlatformAssumption DEF Searching!Inv, Searching!TypeOK, Searching!Pages, Searching!Criteria,
    Searching!Properties, Searching!SearchAssumption, Searching!Days, Searching!Absent
<1>2. /\ d.checkIn = c.checkIn /\ d.checkOut = c.checkOut
      /\ d.guests = IF c.guests = Searching!Absent THEN 1 ELSE c.guests
  BY <1>1 DEF Searching!DetailHref, Searching!Criteria
<1>3. /\ Searching!Blocked(d) = Searching!SearchBlocks(c)
      /\ Searching!NightsBetween(d) = Searching!SearchNights(c)
      /\ Searching!SearchNights(c) \in Int /\ Searching!InBookingWindow(d)
  <2>1. v2 \subseteq Int
    BY PlatformAssumption DEF Searching!Inv, Searching!TypeOK, Searching!AllNights
  <2>2. Searching!Blocked(d) = Searching!SearchBlocks(c)
    BY <1>1, <1>2, <2>1 DEF Searching!Blocked, Searching!SearchBlocks
  <2> QED BY <1>1, <1>2, <2>2 DEF Searching!NightsBetween, Searching!SearchNights,
            Searching!InBookingWindow
<1>4. /\ v3.shown <=> Searching!Conditions(c) /\ ~v3.crowded
      /\ c.checkOut > c.checkIn
  BY DEF Searching!Inv, Searching!ShownIsSo, Searching!ValidQuery
<1>5. d.guests > v1.maxGuests <=> ~(c.guests # Searching!Absent => v1.maxGuests >= c.guests)
  BY <1>1, <1>2 DEF Searching!Absent
<1> HIDE DEF c, d
<1>6. Searching!BookingError(d) \in {"booked", "unpriced"} <=>
        /\ v1.state = "shown" /\ ~(d.guests > v1.maxGuests)
        /\ ~(Searching!NightsBetween(d) < v1.minStay)
        /\ ~(Searching!NightsBetween(d) > v1.maxStay)
        /\ Searching!Blocked(d) = {}
  BY <1>3 DEF Searching!BookingError
<1>7. Searching!Cardinality(Searching!EnumerateDates(d)) = Searching!SearchNights(c)
  <2>1. Searching!Cardinality(Searching!EnumerateDates(d))
          = Cardinality(c.checkIn .. (c.checkOut - 1))
    BY <1>2, SearchCount DEF Searching!EnumerateDates
  <2>2. c.checkIn \in Int /\ c.checkOut - 1 \in Int /\ ~(c.checkIn > c.checkOut - 1)
    BY <1>1, <1>4
  <2>3. Cardinality(c.checkIn .. (c.checkOut - 1)) = (c.checkOut - 1) - c.checkIn + 1
    BY <2>2, FS_Interval
  <2> QED BY <1>1, <2>1, <2>3 DEF Searching!SearchNights
<1>8. Searching!StayLimits(c) <=> /\ ~(Searching!NightsBetween(d) < v1.minStay)
                                  /\ ~(Searching!NightsBetween(d) > v1.maxStay)
  BY <1>1, <1>3 DEF Searching!StayLimits
<1>9. Searching!Conditions(c) <=> Searching!BookingError(d) \in {"booked", "unpriced"}
  BY <1>3, <1>5, <1>6, <1>8 DEF Searching!Conditions, c
<1> QED BY <1>4, <1>7, <1>9 DEF c, d

-----------------------------------------------------------------------------
(* A recorded migration of the manifest is complete, and those before it   *)
(* are recorded.                                                           *)

LEMMA MigrationFiles ==
  /\ LastFile \in Nat \ {0} /\ 1 \in 1..(LastFile + 1)
  /\ \A f \in Migrations!Files :
       f \in Nat /\ f + 1 \in 1..(LastFile + 1) /\ 1..f \subseteq Migrations!Files
BY PlatformAssumption DEF Migrations!MigrationsAssumption, Migrations!Files

LEMMA MigrationsInit == Migrations!Init => Migrations!Inv
<1> SUFFICES ASSUME Migrations!Init PROVE Migrations!Inv
  OBVIOUS
<1>1. Migrations!Idle \in Migrations!RunnerStates /\ Migrations!Idle.step = "idle"
      /\ Migrations!Idle.applied = {}
  BY MigrationFiles DEF Migrations!Idle, Migrations!RunnerStates
<1> QED BY <1>1 DEF Migrations!Init, Migrations!Inv, Migrations!TypeOK,
      Migrations!BehindIsRecorded, Migrations!RecordedIsComplete

(* Where a runner may go: to a file whose predecessors are recorded. *)
LEMMA MigrationsGo ==
  ASSUME Migrations!Inv, NEW r \in Twins, NEW x \in Migrations!RunnerStates,
         v3' = [v3 EXCEPT ![r] = x],
         v2 \subseteq v2', v2' \subseteq Migrations!Files, x.applied \subseteq v2',
         x.step \in {"next", "again"} => \A f \in Migrations!Files : f < x.file => f \in v2'
  PROVE  v3' \in [Twins -> Migrations!RunnerStates] /\ Migrations!BehindIsRecorded'
<1>1. v3' \in [Twins -> Migrations!RunnerStates]
  BY DEF Migrations!Inv, Migrations!TypeOK
<1>2. v3'[r] = x /\ \A q \in Twins \ {r} : v3'[q] = v3[q]
  BY DEF Migrations!Inv, Migrations!TypeOK
<1>3. Migrations!BehindIsRecorded'
  BY <1>2 DEF Migrations!Inv, Migrations!BehindIsRecorded
<1> QED BY <1>1, <1>3

LEMMA MigrationsGoes ==
  ASSUME Migrations!TypeOK, NEW r \in Twins, NEW s \in {"idle", "next", "again", "ended"},
         NEW n \in 1..(LastFile + 1), Migrations!Goes(r, s, n)
  PROVE  \E x \in Migrations!RunnerStates :
           v3' = [v3 EXCEPT ![r] = x] /\ x.step = s /\ x.file = n /\ x.applied = v3[r].applied
<1>1. v3[r] \in Migrations!RunnerStates
  BY DEF Migrations!TypeOK
<1>2. v3' = [v3 EXCEPT ![r] = [v3[r] EXCEPT !.step = s, !.file = n]]
  BY DEF Migrations!Goes, Migrations!TypeOK
<1>3. /\ [v3[r] EXCEPT !.step = s, !.file = n] \in Migrations!RunnerStates
      /\ [v3[r] EXCEPT !.step = s, !.file = n].step = s
      /\ [v3[r] EXCEPT !.step = s, !.file = n].file = n
      /\ [v3[r] EXCEPT !.step = s, !.file = n].applied = v3[r].applied
  BY <1>1 DEF Migrations!RunnerStates
<1> QED BY <1>2, <1>3

(* A file that ran and was found to satisfy the manifest. *)
LEMMA MigrationRuns ==
  ASSUME Migrations!Inv, NEW r \in Twins, Migrations!Runs(r),
         v3[r].step \in {"next", "again"}
  PROVE  Migrations!Inv'
<1> DEFINE n == v3[r].file
<1>0. Migrations!TypeOK
  BY DEF Migrations!Inv
<1>1. /\ n \in Migrations!Files
      /\ v1' = Migrations!After(n) /\ v2' = v2 \cup {n}
      /\ Migrations!Goes(r, "next", n + 1)
      /\ Migrations!SchemaSatisfies(Migrations!After(n), n)
  <2>1. n \in 1..(LastFile + 1)
    BY <1>0 DEF Migrations!TypeOK, Migrations!RunnerStates
  <2> QED BY <2>1, MigrationFiles DEF Migrations!Runs, Migrations!Files
<1> HIDE DEF n
<1>2. v1' \in [Objects -> {"absent", "partial", "whole"}]
      /\ \A o \in Objects : v1[o] = "whole" => v1'[o] = "whole"
  BY <1>0, <1>1 DEF Migrations!After, Migrations!TypeOK
<1>3. v2 \subseteq v2' /\ v2' \subseteq Migrations!Files
  BY <1>0, <1>1 DEF Migrations!TypeOK
<1>4. v3[r].applied \subseteq v2 /\ \A f \in Migrations!Files : f < n => f \in v2
  BY DEF Migrations!Inv, Migrations!BehindIsRecorded, n
<1>5. n \in Nat /\ n + 1 \in 1..(LastFile + 1) /\ 1..n \subseteq Migrations!Files
      /\ \A f \in Migrations!Files : f \in Nat /\ (f < n + 1 => f < n \/ f = n)
  BY <1>1, MigrationFiles
<1>6. v3' \in [Twins -> Migrations!RunnerStates] /\ Migrations!BehindIsRecorded'
  <2>1. \A f \in Migrations!Files : f < n + 1 => f \in v2'
    BY <1>1, <1>4, <1>5
  <2>2. PICK x \in Migrations!RunnerStates :
          v3' = [v3 EXCEPT ![r] = x] /\ x.file = n + 1 /\ x.applied = v3[r].applied
    BY <1>0, <1>1, <1>5, MigrationsGoes
  <2> QED BY <1>3, <1>4, <2>1, <2>2, MigrationsGo
<1>7. Migrations!RecordedIsComplete'
  <2> SUFFICES ASSUME NEW f \in v2'
               PROVE  1..f \subseteq v2'
                      /\ (f \in ManifestFiles => \A o \in Migrations!Makes(f) : v1'[o] = "whole")
    BY DEF Migrations!RecordedIsComplete, Migrations!Makes
  <2>1. CASE f \in v2
    BY <1>2, <1>3, <2>1 DEF Migrations!Inv, Migrations!RecordedIsComplete, Migrations!Makes
  <2>2. CASE f = n
    <3>1. 1..n \subseteq v2'
      <4> SUFFICES ASSUME NEW g \in 1..n PROVE g \in v2'
        OBVIOUS
      <4>1. g \in Migrations!Files /\ (g < n \/ g = n)
        BY <1>5
      <4> QED BY <1>1, <1>4, <4>1
    <3> QED BY <1>1, <2>2, <3>1 DEF Migrations!SchemaSatisfies
  <2> QED BY <1>1, <2>1, <2>2
<1> QED BY <1>2, <1>3, <1>6, <1>7 DEF Migrations!Inv, Migrations!TypeOK

LEMMA MigrationsStep == Migrations!Inv /\ [Migrations!Next]_(Migrations!vars) => Migrations!Inv'
<1> SUFFICES ASSUME Migrations!Inv, [Migrations!Next]_(Migrations!vars) PROVE Migrations!Inv'
  OBVIOUS
<1>0. Migrations!TypeOK
  BY DEF Migrations!Inv
<1>1. ASSUME UNCHANGED <<v1, v2>>, v3' \in [Twins -> Migrations!RunnerStates],
             Migrations!BehindIsRecorded'
      PROVE  Migrations!Inv'
  BY <1>1 DEF Migrations!Inv, Migrations!TypeOK, Migrations!RecordedIsComplete, Migrations!Makes
<1>2. ASSUME NEW r \in Twins, NEW x \in Migrations!RunnerStates,
             v3' = [v3 EXCEPT ![r] = x],
             UNCHANGED <<v1, v2>>, x.applied \subseteq v2,
             x.step \in {"next", "again"} => \A f \in Migrations!Files : f < x.file => f \in v2
      PROVE  Migrations!Inv'
  BY <1>0, <1>1, <1>2, MigrationsGo DEF Migrations!TypeOK
<1>3. ASSUME NEW r \in Twins, Migrations!Begin(r) \/ Migrations!Restart(r)
      PROVE  Migrations!Inv'
  <2>1. PICK s \in {"idle", "next"}, a \in {v2, {}} :
          v3' = [v3 EXCEPT ![r] = [step |-> s, file |-> 1, applied |-> a]]
    BY <1>3 DEF Migrations!Begin, Migrations!Restart, Migrations!Idle
  <2>2. \A f \in Migrations!Files : ~(f < 1)
    BY DEF Migrations!Files
  <2>3. a \in SUBSET Migrations!Files /\ a \subseteq v2 /\ 1 \in 1..(LastFile + 1)
    BY <1>0, MigrationFiles DEF Migrations!TypeOK
  <2>4. [step |-> s, file |-> 1, applied |-> a] \in Migrations!RunnerStates
    BY <2>3 DEF Migrations!RunnerStates
  <2> QED BY <1>2, <1>3, <2>1, <2>2, <2>3, <2>4 DEF Migrations!Begin, Migrations!Restart
<1>4. ASSUME NEW r \in Twins, NEW s \in {"again", "ended"}, Migrations!Goes(r, s, v3[r].file),
             v3[r].step \in {"next", "again"}, UNCHANGED <<v1, v2>>
      PROVE  Migrations!Inv'
  <2>1. v3[r].applied \subseteq v2 /\ \A f \in Migrations!Files : f < v3[r].file => f \in v2
    BY <1>4 DEF Migrations!Inv, Migrations!BehindIsRecorded
  <2>2. v3[r].file \in 1..(LastFile + 1)
    BY <1>0 DEF Migrations!TypeOK, Migrations!RunnerStates
  <2> QED BY <1>0, <1>2, <1>4, <2>1, <2>2, MigrationsGoes
<1>5. ASSUME NEW r \in Twins, Migrations!FindDuplicate(r) \/ Migrations!End(r)
      PROVE  Migrations!Inv'
  BY <1>4, <1>5 DEF Migrations!FindDuplicate, Migrations!End, Migrations!At
<1>6. ASSUME NEW r \in Twins, Migrations!Skip(r) PROVE Migrations!Inv'
  <2> DEFINE n == v3[r].file
  <2>1. n \in v3[r].applied /\ v3[r].applied \subseteq v2 /\ v2 \subseteq Migrations!Files
        /\ \A f \in Migrations!Files : f < n => f \in v2
    BY <1>0, <1>6 DEF Migrations!Skip, Migrations!At, Migrations!Inv, Migrations!TypeOK,
      Migrations!BehindIsRecorded
  <2> HIDE DEF n
  <2>2. n + 1 \in 1..(LastFile + 1) /\ \A f \in Migrations!Files : f < n + 1 => f \in v2
    BY <2>1, MigrationFiles
  <2>3. PICK x \in Migrations!RunnerStates :
          v3' = [v3 EXCEPT ![r] = x] /\ x.file = n + 1 /\ x.applied = v3[r].applied
    BY <1>0, <1>6, <2>2, MigrationsGoes DEF Migrations!Skip, n
  <2> QED BY <1>2, <1>6, <2>1, <2>2, <2>3 DEF Migrations!Skip
<1>7. ASSUME NEW r \in Twins, Migrations!RunWholeFile(r) \/ Migrations!VerifyOrComplete(r)
      PROVE  Migrations!Inv'
  BY <1>7, MigrationRuns DEF Migrations!RunWholeFile, Migrations!VerifyOrComplete, Migrations!At
<1>8. CASE UNCHANGED Migrations!vars
  BY <1>8 DEF Migrations!vars, Migrations!Inv, Migrations!TypeOK, Migrations!RecordedIsComplete,
    Migrations!Makes, Migrations!BehindIsRecorded
<1> QED BY <1>3, <1>5, <1>6, <1>7, <1>8 DEF Migrations!Next

-----------------------------------------------------------------------------
(* No account goes by a deletion that was cancelled or blocked.            *)

LEMMA DeletionInit == Deletion!Init => Deletion!Inv
BY DEF Deletion!Init, Deletion!Inv, Deletion!TypeOK, Deletion!Expected, Deletion!TakenIsPending

(* The guest and the calendar: requests come, are cancelled and fall due. *)
LEMMA DeletionAsked ==
  ASSUME Deletion!Inv, NEW a \in Asks, Deletion!PrivacyPanel(a) \/ Deletion!ThirtyDaysPass(a)
  PROVE  Deletion!Inv' /\ Deletion!CancelledIsKept
<1> USE DEF Deletion!Inv, Deletion!TypeOK, Deletion!Expected, Deletion!TakenIsPending, Deletion!CancelledIsKept
<1>1. CASE Deletion!AskDeletion(a)
  BY <1>1 DEF Deletion!AskDeletion
<1>2. CASE Deletion!InsertRequest(a)
  BY <1>2 DEF Deletion!InsertRequest, Deletion!Becomes
<1>3. CASE Deletion!CancelDeletion(a)
  BY <1>3 DEF Deletion!CancelDeletion, Deletion!Becomes, Deletion!Pending, Deletion!Locked
<1>4. CASE Deletion!ThirtyDaysPass(a)
  BY <1>4 DEF Deletion!ThirtyDaysPass
<1> QED BY <1>1, <1>2, <1>3, <1>4 DEF Deletion!PrivacyPanel, Deletion!RequestDeletion

(* The sweep: what it takes it finds pending, and what it executes it has taken. *)
LEMMA DeletionSwept ==
  ASSUME Deletion!Inv, NEW s \in Twins, Deletion!ExecuteDuePrivacyDeletions(s)
  PROVE  Deletion!Inv' /\ Deletion!CancelledIsKept
<1> USE DEF Deletion!Inv, Deletion!TypeOK, Deletion!Expected, Deletion!TakenIsPending,
            Deletion!CancelledIsKept
<1>1. CASE Deletion!ListDue(s) \/ Deletion!SweepDies(s)
  BY <1>1 DEF Deletion!ListDue, Deletion!SweepDies, Deletion!Pending
<1>2. ASSUME NEW a \in Asks, Deletion!TakeDue(s, a)
      PROVE  Deletion!Inv' /\ Deletion!CancelledIsKept
  <2>1. a \in v3
    BY <1>2 DEF Deletion!TakeDue
  <2>2. CASE v2' = v2 /\ v6' = v6
    BY <1>2, <2>2 DEF Deletion!TakeDue
  <2>3. CASE Deletion!StillPending(a) /\ Deletion!Becomes(a, "blocked") /\ v6' = v6
    BY <1>2, <2>3 DEF Deletion!TakeDue, Deletion!StillPending, Deletion!Becomes, Deletion!Locked
  <2>4. CASE Deletion!StillPending(a) /\ v6' = [v6 EXCEPT ![s] = {a}] /\ v2' = v2
    BY <1>2, <2>1, <2>4 DEF Deletion!TakeDue, Deletion!StillPending, Deletion!Locked
  <2> QED BY <1>2, <2>2, <2>3, <2>4 DEF Deletion!TakeDue
<1>3. ASSUME NEW a \in Asks, Deletion!ExecuteDue(s, a)
      PROVE  Deletion!Inv' /\ Deletion!CancelledIsKept
  <2>1. a \in v3 /\ v2[a] = "pending" /\ \A t \in Twins : t # s => a \notin v6[t]
    BY <1>3 DEF Deletion!ExecuteDue
  <2> QED BY <1>3, <2>1 DEF Deletion!ExecuteDue, Deletion!Becomes
<1> QED BY <1>1, <1>2, <1>3 DEF Deletion!ExecuteDuePrivacyDeletions

LEMMA DeletionStep ==
  Deletion!Inv /\ [Deletion!Next]_(Deletion!vars) => Deletion!Inv' /\ Deletion!CancelledIsKept
<1> SUFFICES ASSUME Deletion!Inv, [Deletion!Next]_(Deletion!vars)
             PROVE  Deletion!Inv' /\ Deletion!CancelledIsKept
  OBVIOUS
<1>1. CASE Deletion!StartBooking \/ Deletion!EndBooking \/ UNCHANGED Deletion!vars
  BY <1>1 DEF Deletion!StartBooking, Deletion!EndBooking, Deletion!vars, Deletion!Inv,
    Deletion!TypeOK, Deletion!Expected, Deletion!TakenIsPending, Deletion!CancelledIsKept
<1> QED BY <1>1, DeletionAsked, DeletionSwept DEF Deletion!Next

-----------------------------------------------------------------------------
(* The rating of a property counts the review committed last.              *)

LEMMA AftercareInit == Aftercare!Init => Aftercare!Inv
<1> SUFFICES ASSUME Aftercare!Init PROVE Aftercare!Inv
  OBVIOUS
<1>1. Aftercare!NoTx \in Aftercare!Transactions /\ Aftercare!NoTx.step = "none"
      /\ Aftercare!NoTx.seen = {}
  BY DEF Aftercare!NoTx, Aftercare!Transactions
<1>2. [stay |-> {}, by |-> "system", found |-> FALSE, step |-> "none"] \in Aftercare!Rows
  BY DEF Aftercare!Rows, Aftercare!Senders
<1> QED BY <1>1, <1>2 DEF Aftercare!Init, Aftercare!Inv, Aftercare!TypeOK, Aftercare!ReviewsSee,
      Aftercare!LastReviewCounts

(* A message is begun, made or read, and nothing of the reviews changes. *)
LEMMA AftercareBegin ==
  ASSUME Aftercare!TypeOK, NEW m \in Messages, NEW b \in Things, NEW by \in Aftercare!Senders,
         Aftercare!Begin(m, b, by)
  PROVE  v10' \in [Messages -> Aftercare!Rows] /\ v9' = v9
<1>1. [stay |-> {b}, by |-> by, found |-> b \in v9, step |-> "begun"] \in Aftercare!Rows
  BY DEF Aftercare!Rows
<1> QED BY <1>1 DEF Aftercare!Begin, Aftercare!TypeOK

LEMMA AftercareMessages ==
  ASSUME Aftercare!TypeOK,
         \/ \E m \in Messages : Aftercare!MessageThread(m)
         \/ \E b \in Things : Aftercare!ReadRoute(b)
  PROVE  /\ v10' \in [Messages -> Aftercare!Rows] /\ v9' \subseteq Things
         /\ v2' \in [Twins -> SUBSET Things] /\ UNCHANGED <<v1, Aftercare!reviewing>>
<1> USE DEF Aftercare!TypeOK
<1>1. ASSUME NEW m \in Messages, NEW b \in Things, NEW by \in Aftercare!Senders,
             Aftercare!HandleSend(m, b, by)
      PROVE  /\ v10' \in [Messages -> Aftercare!Rows] /\ v9' \subseteq Things
             /\ v2' \in [Twins -> SUBSET Things] /\ UNCHANGED <<v1, Aftercare!reviewing>>
  BY <1>1, AftercareBegin DEF Aftercare!HandleSend
<1>2. ASSUME NEW m \in Messages, Aftercare!FinishMessage(m)
      PROVE  /\ v10' \in [Messages -> Aftercare!Rows] /\ v9' \subseteq Things
             /\ v2' \in [Twins -> SUBSET Things] /\ UNCHANGED <<v1, Aftercare!reviewing>>
  <2>1. v10[m] \in Aftercare!Rows
    OBVIOUS
  <2>2. PICK b \in v10[m].stay, s \in {"sent", "failed"} :
          /\ v10' = [v10 EXCEPT ![m] = [v10[m] EXCEPT !.step = s]]
          /\ v9' \in {v9, v9 \cup {b}}
          /\ v2' \in {v2, [t \in Twins |-> {}]}
          /\ UNCHANGED <<v1, Aftercare!reviewing>>
    BY <1>2, <2>1 DEF Aftercare!FinishMessage
  <2>3. b \in Things
    BY <2>1 DEF Aftercare!Rows
  <2>4. [v10[m] EXCEPT !.step = s] \in Aftercare!Rows
    BY <2>1 DEF Aftercare!Rows
  <2> QED BY <2>2, <2>3, <2>4
<1>3. ASSUME NEW b \in Things, NEW viewer, Aftercare!MarkConversationRead(b, viewer)
      PROVE  /\ v10' \in [Messages -> Aftercare!Rows] /\ v9' \subseteq Things
             /\ v2' \in [Twins -> SUBSET Things] /\ UNCHANGED <<v1, Aftercare!reviewing>>
  <2>1. \A m \in Messages :
          v10[m] \in Aftercare!Rows /\ [v10[m] EXCEPT !.step = "read"] \in Aftercare!Rows
    BY DEF Aftercare!Rows
  <2> QED BY <1>3, <2>1 DEF Aftercare!MarkConversationRead
<1> QED BY <1>1, <1>2, <1>3 DEF Aftercare!MessageThread, Aftercare!ReadRoute

(* The sweep. *)
LEMMA AftercareSweep ==
  ASSUME Aftercare!Inv, NEW s \in Twins, Aftercare!CompleteStaysAndRequestReviews(s)
  PROVE  Aftercare!Inv'
<1>0. Aftercare!TypeOK
  BY DEF Aftercare!Inv
<1>1. ASSUME v1 \subseteq v1', v1' \subseteq Things, UNCHANGED Aftercare!reviewing,
             v2' \in [Twins -> SUBSET Things], v9' \subseteq Things,
             v10' \in [Messages -> Aftercare!Rows]
      PROVE  Aftercare!Inv'
  BY <1>1 DEF Aftercare!Inv, Aftercare!TypeOK, Aftercare!ReviewsSee, Aftercare!LastReviewCounts,
    Aftercare!reviewing
<1>2. CASE Aftercare!CompleteStays(s)
  BY <1>0, <1>1, <1>2 DEF Aftercare!CompleteStays, Aftercare!TypeOK, Aftercare!Unfinished,
    Aftercare!writing
<1>3. CASE Aftercare!SweepDies(s)
  BY <1>0, <1>1, <1>3 DEF Aftercare!SweepDies, Aftercare!TypeOK, Aftercare!writing
<1>4. ASSUME NEW b \in Things, NEW m \in Messages, Aftercare!RequestReview(s, b, m)
      PROVE  Aftercare!Inv'
  <2>1. v10' \in [Messages -> Aftercare!Rows] /\ v9' = v9
    BY <1>0, <1>4, AftercareBegin DEF Aftercare!RequestReview, Aftercare!Senders
  <2>2. v2' \in [Twins -> SUBSET Things]
    BY <1>0, <1>4 DEF Aftercare!RequestReview, Aftercare!TypeOK
  <2> QED BY <1>0, <1>1, <1>4, <2>1, <2>2 DEF Aftercare!RequestReview, Aftercare!TypeOK
<1> QED BY <1>2, <1>3, <1>4 DEF Aftercare!CompleteStaysAndRequestReviews

(* The transaction of one review. *)
LEMMA AftercareReview ==
  ASSUME Aftercare!Inv, NEW b \in Things, Aftercare!CreateReview(b)
  PROVE  Aftercare!Inv'
<1> USE DEF Aftercare!TypeOK
<1>0. Aftercare!TypeOK /\ UNCHANGED <<v1, v2, v8, v9, v10>>
  BY DEF Aftercare!Inv, Aftercare!CreateReview, Aftercare!InsertReview, Aftercare!AggregateRatings,
    Aftercare!UpdateRating, Aftercare!FailReview, Aftercare!writing
<1>1. ASSUME NEW x \in Aftercare!Transactions, v3' = [v3 EXCEPT ![b] = x],
             x.step # "none" => b \in v1, x.seen \subseteq v4 \cup {b},
             x.step = "aggregated" => b \in x.seen, UNCHANGED <<v4, v5, v6, v7>>
      PROVE  Aftercare!Inv'
  <2>1. v3' \in [Things -> Aftercare!Transactions] /\ v3'[b] = x
        /\ \A c \in Things \ {b} : v3'[c] = v3[c]
    BY <1>0, <1>1
  <2>2. Aftercare!ReviewsSee'
    BY <1>0, <1>1, <2>1 DEF Aftercare!Inv, Aftercare!ReviewsSee
  <2> QED BY <1>0, <1>1, <2>1, <2>2 DEF Aftercare!Inv, Aftercare!LastReviewCounts
<1>2. Aftercare!NoTx \in Aftercare!Transactions /\ Aftercare!NoTx.step = "none"
      /\ Aftercare!NoTx.seen = {}
  BY DEF Aftercare!NoTx, Aftercare!Transactions
<1>3. CASE Aftercare!InsertReview(b)
  <2>1. [step |-> "inserted", seen |-> {}] \in Aftercare!Transactions
    BY DEF Aftercare!Transactions
  <2> QED BY <1>1, <1>3, <2>1 DEF Aftercare!InsertReview, Aftercare!Reviewable
<1>4. CASE Aftercare!AggregateRatings(b)
  <2>1. Aftercare!Seen(b) \in SUBSET Things /\ b \in v1
    BY <1>0, <1>4 DEF Aftercare!Seen, Aftercare!AggregateRatings, Aftercare!Inv, Aftercare!ReviewsSee
  <2>2. [step |-> "aggregated", seen |-> Aftercare!Seen(b)] \in Aftercare!Transactions
    BY <2>1 DEF Aftercare!Transactions
  <2> QED BY <1>1, <1>4, <2>1, <2>2 DEF Aftercare!AggregateRatings, Aftercare!Seen
<1>5. CASE Aftercare!FailReview(b)
  BY <1>1, <1>2, <1>5 DEF Aftercare!FailReview
<1>6. CASE Aftercare!UpdateRating(b)
  <2>1. /\ v3[b].step = "aggregated" /\ v5' = v3[b].seen /\ v4' = v4 \cup {b} /\ v6' = {b}
        /\ v7' = [r \in v4' |-> IF r = b THEN {} ELSE v7[r]]
        /\ v3' = [v3 EXCEPT ![b] = Aftercare!NoTx]
    BY <1>6 DEF Aftercare!UpdateRating
  <2>2. b \in v1 /\ v3[b].seen \subseteq v4 \cup {b} /\ b \in v3[b].seen
    BY <2>1 DEF Aftercare!Inv, Aftercare!ReviewsSee
  <2>3. v7' \in [v4' -> SUBSET Replies]
    BY <1>0, <2>1
  <2>4. v3' \in [Things -> Aftercare!Transactions] /\ v3'[b] = Aftercare!NoTx
        /\ \A c \in Things \ {b} : v3'[c] = v3[c]
    BY <1>0, <1>2, <2>1
  <2>5. Aftercare!TypeOK'
    BY <1>0, <2>1, <2>2, <2>3, <2>4
  <2>6. Aftercare!ReviewsSee' /\ Aftercare!LastReviewCounts'
    BY <1>0, <1>2, <2>1, <2>2, <2>4 DEF Aftercare!Inv, Aftercare!ReviewsSee,
      Aftercare!LastReviewCounts
  <2> QED BY <2>5, <2>6 DEF Aftercare!Inv
<1> QED BY <1>3, <1>4, <1>5, <1>6 DEF Aftercare!CreateReview

LEMMA AftercareStep == Aftercare!Inv /\ [Aftercare!Next]_(Aftercare!vars) => Aftercare!Inv'
<1> SUFFICES ASSUME Aftercare!Inv, [Aftercare!Next]_(Aftercare!vars) PROVE Aftercare!Inv'
  OBVIOUS
<1>1. ASSUME NEW p \in Replies, Aftercare!ReplyForm(p) PROVE Aftercare!Inv'
  <2>1. v7' \in [v4 -> SUBSET Replies] /\ v8' \in [Replies -> SUBSET Things]
        /\ UNCHANGED <<v1, v2, v3, v4, v5, v6, v9, v10>>
    BY <1>1 DEF Aftercare!ReplyForm, Aftercare!WriteReply, Aftercare!ReadReply, Aftercare!Inv,
      Aftercare!TypeOK, Aftercare!writing
  <2> QED BY <2>1 DEF Aftercare!Inv, Aftercare!TypeOK, Aftercare!ReviewsSee,
        Aftercare!LastReviewCounts
<1>2. CASE \/ \E m \in Messages : Aftercare!MessageThread(m)
           \/ \E b \in Things : Aftercare!ReadRoute(b)
  BY <1>2, AftercareMessages DEF Aftercare!Inv, Aftercare!TypeOK, Aftercare!ReviewsSee,
    Aftercare!LastReviewCounts, Aftercare!reviewing
<1>3. CASE UNCHANGED Aftercare!vars
  BY <1>3 DEF Aftercare!vars, Aftercare!Inv, Aftercare!TypeOK, Aftercare!ReviewsSee,
    Aftercare!LastReviewCounts
<1> QED BY <1>1, <1>2, <1>3, AftercareSweep, AftercareReview DEF Aftercare!Next

-----------------------------------------------------------------------------
(* After its own handlers, the panel lists the calendars as they are.      *)

LEMMA FeedsIdle ==
  /\ Feeds!Nothing \in Feeds!Listed /\ Feeds!Idle \in Feeds!HandlerStates
  /\ Feeds!Idle.step = "idle" /\ Feeds!ListCalendarFeeds \in Feeds!Listed
<1>1. Feeds!Nothing \in Feeds!Listed
  BY DEF Feeds!Nothing, Feeds!Listed
<1>2. \A f \in Things : f \in Feeds!Connected => v1[f] \in {"active", "disabled"}
  BY DEF Feeds!Connected
<1>3. Feeds!ListCalendarFeeds \in Feeds!Listed
  BY <1>2 DEF Feeds!ListCalendarFeeds, Feeds!Listed
<1> QED BY <1>1, <1>3 DEF Feeds!Idle, Feeds!HandlerStates

LEMMA FeedsInit == Feeds!Init => Feeds!Inv
<1> SUFFICES ASSUME Feeds!Init PROVE Feeds!Inv
  OBVIOUS
<1>1. v2 \in Feeds!Panels
  BY FeedsIdle DEF Feeds!Init, Feeds!Panels
<1>2. Feeds!TypeOK
  BY <1>1, FeedsIdle DEF Feeds!Init, Feeds!TypeOK
<1> QED BY <1>2, FeedsIdle DEF Feeds!Init, Feeds!Inv, Feeds!AtMostOne, Feeds!ListFollows

(* Rows that stay are listed the same. *)
LEMMA FeedsSame == ASSUME v1' = v1 PROVE Feeds!ListCalendarFeeds' = Feeds!ListCalendarFeeds
BY DEF Feeds!ListCalendarFeeds, Feeds!Connected

(* While nothing disturbs the list, the handler under way is the only one. *)
LEMMA FeedsAlone ==
  ASSUME Feeds!Inv, NEW h \in Twins, v3[h].step # "idle", ~v4
  PROVE  Feeds!Alone(h)
<1>1. v3[h] # Feeds!Idle
  BY FeedsIdle
<1> QED BY <1>1 DEF Feeds!Inv, Feeds!AtMostOne, Feeds!Alone

(* A handler that is waiting for its first answer, or was refused, has changed nothing. *)
LEMMA FeedsCurrent ==
  ASSUME Feeds!Inv, NEW h \in Twins, v3[h].step \in {"sent", "error"}, ~v4
  PROVE  v2.feeds = Feeds!ListCalendarFeeds
<1>1. Feeds!Alone(h)
  BY FeedsAlone
<1>2. \A g \in Twins : v3[g].step \in {"idle", "sent", "error"}
  BY <1>1, FeedsIdle DEF Feeds!Alone
<1> QED BY <1>2 DEF Feeds!Inv, Feeds!ListFollows

(* A handler starts: it is alone, or the list has a reason not to be the rows. *)
LEMMA FeedsBegin ==
  ASSUME Feeds!Inv, NEW h \in Twins, NEW f \in Things \cup {NoFeed},
         NEW do \in {"open", "add"} \cup Feeds!Actions, NEW step \in {"load", "sent"},
         Feeds!Begin(h, do, f, step), v2' \in Feeds!Panels, v2'.feeds = v2.feeds
  PROVE  Feeds!Inv'
<1> DEFINE x == [Feeds!Idle EXCEPT !.do = do, !.feed = f, !.step = step]
<1>1. x \in Feeds!HandlerStates /\ x.step = step
  BY FeedsIdle DEF Feeds!Idle, Feeds!HandlerStates
<1>2. v3' = [v3 EXCEPT ![h] = x] /\ v1' = v1
  BY DEF Feeds!Begin
<1> HIDE DEF x
<1>3. /\ v3 \in [Twins -> Feeds!HandlerStates] /\ v4' \in BOOLEAN
      /\ v1' \in [Things -> {"unused", "active", "disabled", "removed"}]
  BY <1>2 DEF Feeds!Inv, Feeds!TypeOK, Feeds!Begin
<1>4. v3' \in [Twins -> Feeds!HandlerStates] /\ v3'[h] = x
      /\ \A g \in Twins \ {h} : v3'[g] = v3[g]
  BY <1>1, <1>2, <1>3
<1>5. Feeds!TypeOK'
  BY <1>3, <1>4 DEF Feeds!TypeOK
<1>6. ASSUME ~v4'
      PROVE  ~v4 /\ v3[h] = Feeds!Idle /\ \A g \in Twins \ {h} : v3[g] = Feeds!Idle
  BY <1>6 DEF Feeds!Begin, Feeds!Alone
<1>7. ASSUME ~v4' PROVE v2'.feeds = Feeds!ListCalendarFeeds'
  <2>1. \A g \in Twins : v3[g].step \in {"idle", "sent", "error"}
    BY <1>6, <1>7, FeedsIdle
  <2> QED BY <1>2, <1>6, <1>7, <2>1, FeedsSame DEF Feeds!Inv, Feeds!ListFollows
<1>8. Feeds!AtMostOne'
  BY <1>1, <1>4, <1>6, FeedsIdle DEF Feeds!Inv, Feeds!AtMostOne, Feeds!Idle
<1>9. \A g \in Twins : v3'[g].step = "failed" => v4'
  BY <1>1, <1>4, <1>6, FeedsIdle
<1>10. ~v4' => \A g \in Twins : v3'[g].step # "read"
  BY <1>1, <1>4, <1>6, FeedsIdle
<1> QED BY <1>5, <1>7, <1>8, <1>9, <1>10 DEF Feeds!Inv, Feeds!ListFollows

LEMMA FeedsClicks ==
  ASSUME Feeds!Inv, NEW h \in Twins,
         \/ Feeds!Open(h) \/ Feeds!AddCalendar(h)
         \/ \E f \in Things : Feeds!SyncFeed(h, f) \/ Feeds!SetActive(h, f) \/ Feeds!RemoveFeed(h, f)
  PROVE  Feeds!Inv'
<1>0. v2 \in Feeds!Panels
  BY DEF Feeds!Inv, Feeds!TypeOK
<1>1. CASE Feeds!Open(h)
  <2>1. v2' \in Feeds!Panels /\ v2'.feeds = v2.feeds
    BY <1>0, <1>1 DEF Feeds!Open, Feeds!Panels
  <2> QED BY <1>1, <2>1, FeedsBegin DEF Feeds!Open
<1>2. CASE Feeds!AddCalendar(h)
  <2>1. v2' \in Feeds!Panels /\ v2'.feeds = v2.feeds
    BY <1>0, <1>2 DEF Feeds!AddCalendar, Feeds!Panels
  <2> QED BY <1>2, <2>1, FeedsBegin DEF Feeds!AddCalendar
<1>3. ASSUME NEW f \in Things, NEW do \in Feeds!Actions, Feeds!Click(h, f, do)
      PROVE  Feeds!Inv'
  <2>1. v2' \in Feeds!Panels /\ v2'.feeds = v2.feeds
    BY <1>0, <1>3 DEF Feeds!Click, Feeds!Panels
  <2> QED BY <1>3, <2>1, FeedsBegin DEF Feeds!Click
<1> QED BY <1>1, <1>2, <1>3 DEF Feeds!SyncFeed, Feeds!SetActive, Feeds!RemoveFeed, Feeds!Actions

(* A handler goes on, or ends. *)
LEMMA FeedsMoves ==
  ASSUME Feeds!Inv, NEW h \in Twins, v3[h].step # "idle",
         NEW x \in Feeds!HandlerStates, v3' = [v3 EXCEPT ![h] = x],
         x.step = "idle" => x = Feeds!Idle,
         v1' \in [Things -> {"unused", "active", "disabled", "removed"}],
         v2' \in Feeds!Panels, v4' \in BOOLEAN,
         ~v4' => ~v4 \/ Feeds!Alone(h), x.step = "failed" => v4',
         ~v4' /\ x.step \in {"idle", "sent", "error"} => v2'.feeds = Feeds!ListCalendarFeeds',
         ~v4' /\ x.step = "read" => x.list = Feeds!ListCalendarFeeds'
  PROVE  Feeds!Inv'
<1>1. v3 \in [Twins -> Feeds!HandlerStates]
  BY DEF Feeds!Inv, Feeds!TypeOK
<1>2. v3' \in [Twins -> Feeds!HandlerStates] /\ v3'[h] = x
      /\ \A g \in Twins \ {h} : v3'[g] = v3[g]
  BY <1>1
<1>3. Feeds!TypeOK'
  BY <1>2 DEF Feeds!TypeOK
<1>4. ASSUME ~v4' PROVE \A g \in Twins \ {h} : v3'[g] = Feeds!Idle
  BY <1>2, <1>4, FeedsAlone DEF Feeds!Alone
<1>5. Feeds!AtMostOne'
  BY <1>2, <1>4 DEF Feeds!Inv, Feeds!AtMostOne, Feeds!Idle
<1>6. \A g \in Twins : v3'[g].step = "failed" => v4'
  BY <1>2, <1>4, FeedsIdle
<1>7. ~v4' => \A g \in Twins : v3'[g].step = "read" => v3'[g].list = Feeds!ListCalendarFeeds'
  BY <1>2, <1>4, FeedsIdle
<1>8. ASSUME ~v4', \A g \in Twins : v3'[g].step \in {"idle", "sent", "error"}
      PROVE  v2'.feeds = Feeds!ListCalendarFeeds'
  BY <1>2, <1>8
<1> QED BY <1>3, <1>5, <1>6, <1>7, <1>8 DEF Feeds!Inv, Feeds!ListFollows

LEMMA FeedsStepped ==
  ASSUME Feeds!Inv, NEW h \in Twins,
         NEW s \in {"sent", "done", "error", "first", "load", "read", "failed"}, Feeds!Step(h, s)
  PROVE  \E x \in Feeds!HandlerStates : v3' = [v3 EXCEPT ![h] = x] /\ x.step = s
<1>1. v3[h] \in Feeds!HandlerStates
  BY DEF Feeds!Inv, Feeds!TypeOK
<1>2. [v3[h] EXCEPT !.step = s] \in Feeds!HandlerStates /\ [v3[h] EXCEPT !.step = s].step = s
  BY <1>1 DEF Feeds!HandlerStates
<1> QED BY <1>2 DEF Feeds!Step

LEMMA FeedsRoutes ==
  ASSUME Feeds!Inv, NEW h \in Twins, Feeds!CalendarRoutes(h)
  PROVE  Feeds!Inv'
<1> DEFINE Row == [Things -> {"unused", "active", "disabled", "removed"}]
<1>0. v1 \in Row /\ v2 \in Feeds!Panels /\ v3 \in [Twins -> Feeds!HandlerStates] /\ v4 \in BOOLEAN
  BY DEF Feeds!Inv, Feeds!TypeOK
<1>1. v3[h].step = "sent" /\ UNCHANGED v2
  BY DEF Feeds!CalendarRoutes, Feeds!CreateCalendarFeed, Feeds!SyncRoute,
    Feeds!SetCalendarFeedActive, Feeds!DeleteCalendarFeed, Feeds!Refused, Feeds!At
<1>2. CASE Feeds!Refused(h)
  <2>1. v1' = v1 /\ v4' = v4 /\ Feeds!Step(h, "error")
    BY <1>2 DEF Feeds!Refused
  <2>2. PICK x \in Feeds!HandlerStates : v3' = [v3 EXCEPT ![h] = x] /\ x.step = "error"
    BY <2>1, FeedsStepped
  <2>3. ~v4' => v2'.feeds = Feeds!ListCalendarFeeds'
    BY <1>1, <2>1, FeedsCurrent, FeedsSame
  <2> QED BY <1>0, <1>1, <2>1, <2>2, <2>3, FeedsMoves
<1>4. ASSUME v1' \in Row, Feeds!Answer(h) PROVE Feeds!Inv'
  <2>1. CASE Feeds!Step(h, "done") /\ v4' = v4
    <3>1. PICK x \in Feeds!HandlerStates : v3' = [v3 EXCEPT ![h] = x] /\ x.step = "done"
      BY <2>1, FeedsStepped
    <3> QED BY <1>0, <1>1, <1>4, <2>1, <3>1, FeedsMoves
  <2>2. CASE Feeds!Step(h, "error") /\ v4' = TRUE
    <3>1. PICK x \in Feeds!HandlerStates : v3' = [v3 EXCEPT ![h] = x] /\ x.step = "error"
      BY <2>2, FeedsStepped
    <3> QED BY <1>0, <1>1, <1>4, <2>2, <3>1, FeedsMoves
  <2> QED BY <1>4, <2>1, <2>2 DEF Feeds!Answer
<1>5. CASE Feeds!SyncRoute(h)
  <2>1. v1' = v1 /\ Feeds!Answer(h)
    BY <1>5 DEF Feeds!SyncRoute, Feeds!Answer
  <2> QED BY <1>0, <1>4, <2>1
<1>6. CASE Feeds!SetCalendarFeedActive(h)
  <2>1. v1' \in Row /\ Feeds!Answer(h)
    BY <1>0, <1>6 DEF Feeds!SetCalendarFeedActive
  <2> QED BY <1>4, <2>1
<1>7. CASE Feeds!DeleteCalendarFeed(h)
  <2>1. v1' \in Row /\ Feeds!Answer(h)
    BY <1>0, <1>7 DEF Feeds!DeleteCalendarFeed
  <2> QED BY <1>4, <2>1
<1>8. ASSUME NEW f \in Things, Feeds!CreateCalendarFeed(h, f) PROVE Feeds!Inv'
  <2>1. v1' \in Row
    BY <1>0, <1>8 DEF Feeds!CreateCalendarFeed
  <2>2. CASE v3' = [v3 EXCEPT ![h].step = "done", ![h].feed = f] /\ v4' = v4
    <3>1. v3[h] \in Feeds!HandlerStates
      BY <1>0
    <3> DEFINE x == [v3[h] EXCEPT !.step = "done", !.feed = f]
    <3>2. x \in Feeds!HandlerStates /\ x.step = "done"
      BY <3>1 DEF Feeds!HandlerStates
    <3>3. v3' = [v3 EXCEPT ![h] = x]
      BY <1>0, <2>2
    <3> HIDE DEF x
    <3> QED BY <1>0, <1>1, <2>1, <2>2, <3>2, <3>3, FeedsMoves
  <2>3. CASE Feeds!Step(h, "error") /\ v4' = TRUE
    BY <1>4, <2>1, <2>3 DEF Feeds!Answer
  <2> QED BY <1>8, <2>2, <2>3 DEF Feeds!CreateCalendarFeed
<1> QED BY <1>2, <1>5, <1>6, <1>7, <1>8 DEF Feeds!CalendarRoutes

(* The end of a handler changes its buttons only. *)
LEMMA FeedsEnded ==
  ASSUME v2 \in Feeds!Panels, NEW do
  PROVE  Feeds!Ended(do) \in Feeds!Panels /\ Feeds!Ended(do).feeds = v2.feeds
<1>1. [v2 EXCEPT !.adding = FALSE] \in Feeds!Panels
      /\ [v2 EXCEPT !.adding = FALSE].feeds = v2.feeds
  BY DEF Feeds!Panels
<1>2. [v2 EXCEPT !.busyId = NoFeed] \in Feeds!Panels
      /\ [v2 EXCEPT !.busyId = NoFeed].feeds = v2.feeds
  BY DEF Feeds!Panels
<1>3. do = "add" => do \notin Feeds!Actions
  BY DEF Feeds!Actions
<1> QED BY <1>1, <1>2, <1>3 DEF Feeds!Ended

LEMMA FeedsLoading ==
  ASSUME Feeds!Inv, NEW h \in Twins,
         Feeds!AddAnswered(h) \/ Feeds!FirstSyncAnswered(h) \/ Feeds!ActionAnswered(h)
  PROVE  Feeds!Inv'
<1>0. /\ v1 \in [Things -> {"unused", "active", "disabled", "removed"}]
      /\ v2 \in Feeds!Panels /\ v4 \in BOOLEAN
  BY DEF Feeds!Inv, Feeds!TypeOK
<1>1. PICK s \in {"first", "load"} : Feeds!Step(h, s)
  BY DEF Feeds!AddAnswered, Feeds!FirstSyncAnswered, Feeds!ActionAnswered, Feeds!Reloads
<1>2. PICK x \in Feeds!HandlerStates : v3' = [v3 EXCEPT ![h] = x] /\ x.step = s
  BY <1>1, FeedsStepped
<1>3. [v2 EXCEPT !.loading = TRUE] \in Feeds!Panels
  BY <1>0 DEF Feeds!Panels
<1>4. v2' \in Feeds!Panels
  BY <1>0, <1>3 DEF Feeds!AddAnswered, Feeds!FirstSyncAnswered, Feeds!ActionAnswered, Feeds!Reloads
<1>5. v3[h].step \in {"done", "first"} /\ v1' = v1 /\ v4' = v4
  BY DEF Feeds!AddAnswered, Feeds!FirstSyncAnswered, Feeds!ActionAnswered, Feeds!At
<1> QED BY <1>0, <1>2, <1>4, <1>5, FeedsMoves

LEMMA FeedsFailing ==
  ASSUME Feeds!Inv, NEW h \in Twins, Feeds!RequestFailed(h)
  PROVE  Feeds!Inv'
<1>0. /\ v1 \in [Things -> {"unused", "active", "disabled", "removed"}]
      /\ v2 \in Feeds!Panels /\ v4 \in BOOLEAN
  BY DEF Feeds!Inv, Feeds!TypeOK
<1>1. /\ v3[h].step \in {"error", "first"} /\ v3' = [v3 EXCEPT ![h] = Feeds!Idle]
      /\ v4' = (v4 \/ v3[h].step = "first") /\ v1' = v1
  BY DEF Feeds!RequestFailed, Feeds!At
<1>2. v2' \in Feeds!Panels /\ v2'.feeds = v2.feeds
  BY <1>0, FeedsEnded DEF Feeds!RequestFailed
<1>3. ~v4' => v2'.feeds = Feeds!ListCalendarFeeds'
  BY <1>1, <1>2, FeedsCurrent, FeedsSame
<1>4. v4' \in BOOLEAN /\ (~v4' => ~v4)
  BY <1>0, <1>1
<1> QED BY <1>0, <1>1, <1>2, <1>3, <1>4, FeedsIdle, FeedsMoves

LEMMA FeedsLoads ==
  ASSUME Feeds!Inv, NEW h \in Twins,
         Feeds!LoadServed(h) \/ Feeds!LoadFailed(h) \/ Feeds!LoadShown(h)
  PROVE  Feeds!Inv'
<1>0. /\ v1 \in [Things -> {"unused", "active", "disabled", "removed"}]
      /\ v2 \in Feeds!Panels /\ v3 \in [Twins -> Feeds!HandlerStates] /\ v4 \in BOOLEAN
  BY DEF Feeds!Inv, Feeds!TypeOK
<1>1. CASE Feeds!LoadServed(h)
  <2>1. /\ v3[h].step = "load" /\ v1' = v1 /\ v2' = v2 /\ v4' = (v4 /\ ~Feeds!Alone(h))
        /\ v3' = [v3 EXCEPT ![h].step = "read", ![h].list = Feeds!ListCalendarFeeds]
    BY <1>1 DEF Feeds!LoadServed, Feeds!At
  <2> DEFINE l == Feeds!ListCalendarFeeds
             x == [v3[h] EXCEPT !.step = "read", !.list = l]
  <2>2. l \in Feeds!Listed
    BY FeedsIdle
  <2>3. v3' = [v3 EXCEPT ![h] = x]
    BY <1>0, <2>1
  <2> HIDE DEF l
  <2>4. x \in Feeds!HandlerStates /\ x.step = "read" /\ x.list = l
    BY <1>0, <2>2 DEF Feeds!HandlerStates
  <2> HIDE DEF x
  <2>5. x.list = Feeds!ListCalendarFeeds'
    BY <2>1, <2>4, FeedsSame DEF l
  <2>6. v4' \in BOOLEAN /\ (~v4' => ~v4 \/ Feeds!Alone(h))
    BY <1>0, <2>1
  <2> QED BY <1>0, <2>1, <2>3, <2>4, <2>5, <2>6, FeedsMoves
<1>2. CASE Feeds!LoadFailed(h)
  <2>1. /\ v3[h].step = "load" /\ v1' = v1 /\ v2' = v2 /\ v4' = TRUE /\ Feeds!Step(h, "failed")
    BY <1>2 DEF Feeds!LoadFailed, Feeds!At
  <2>2. PICK x \in Feeds!HandlerStates : v3' = [v3 EXCEPT ![h] = x] /\ x.step = "failed"
    BY <2>1, FeedsStepped
  <2> QED BY <1>0, <2>1, <2>2, FeedsMoves
<1>3. CASE Feeds!LoadShown(h)
  <2>1. /\ v3[h].step \in {"read", "failed"} /\ v1' = v1 /\ v4' = v4
        /\ v3' = [v3 EXCEPT ![h] = Feeds!Idle]
    BY <1>3 DEF Feeds!LoadShown, Feeds!At
  <2> DEFINE p == Feeds!Ended(v3[h].do)
  <2>2. p \in Feeds!Panels
    BY <1>0, FeedsEnded
  <2>3. v2' = [p EXCEPT !.loading = FALSE,
                        !.feeds = IF v3[h].step = "read" THEN v3[h].list ELSE @]
    BY <1>3 DEF Feeds!LoadShown, Feeds!At
  <2> HIDE DEF p
  <2>4. v3[h].list \in Feeds!Listed
    BY <1>0 DEF Feeds!HandlerStates
  <2>5. v2' \in Feeds!Panels /\ (v3[h].step = "read" => v2'.feeds = v3[h].list)
    BY <2>2, <2>3, <2>4 DEF Feeds!Panels
  <2>6. ~v4' => v2'.feeds = Feeds!ListCalendarFeeds'
    <3>1. ~v4 => v3[h].step = "read" /\ v3[h].list = Feeds!ListCalendarFeeds
      BY <2>1 DEF Feeds!Inv, Feeds!ListFollows
    <3> QED BY <2>1, <2>5, <3>1, FeedsSame
  <2> QED BY <1>0, <2>1, <2>5, <2>6, FeedsIdle, FeedsMoves
<1> QED BY <1>1, <1>2, <1>3

LEMMA FeedsOtherTab ==
  ASSUME Feeds!Inv, NEW f \in Things, Feeds!OtherTab(f)
  PROVE  Feeds!Inv'
<1>0. Feeds!TypeOK'
  BY DEF Feeds!Inv, Feeds!TypeOK, Feeds!OtherTab
<1>1. v4' = TRUE /\ v3' = v3
  BY DEF Feeds!OtherTab
<1> QED BY <1>0, <1>1 DEF Feeds!Inv, Feeds!AtMostOne, Feeds!ListFollows

LEMMA FeedsStep == Feeds!Inv /\ [Feeds!Next]_(Feeds!feedPanelVars) => Feeds!Inv'
<1> SUFFICES ASSUME Feeds!Inv, [Feeds!Next]_(Feeds!feedPanelVars) PROVE Feeds!Inv'
  OBVIOUS
<1>1. CASE UNCHANGED Feeds!feedPanelVars
  <2>1. v1' = v1 /\ v2' = v2 /\ v3' = v3 /\ v4' = v4
    BY <1>1 DEF Feeds!feedPanelVars
  <2> QED BY <2>1, FeedsSame DEF Feeds!Inv, Feeds!TypeOK, Feeds!AtMostOne, Feeds!ListFollows
<1>2. CASE Feeds!Next
  BY <1>2, FeedsClicks, FeedsRoutes, FeedsLoading, FeedsFailing, FeedsLoads, FeedsOtherTab
    DEF Feeds!Next
<1> QED BY <1>1, <1>2

LEMMA FeedsListed == Feeds!Inv => Feeds!ListIsCurrent
BY FeedsIdle DEF Feeds!Inv, Feeds!ListFollows, Feeds!ListIsCurrent

-----------------------------------------------------------------------------
(* An answered challenge, or a recovery code, brings one sign-in.          *)

LEMMA PasskeysInit == Passkeys!Init => Passkeys!Inv
<1> SUFFICES ASSUME Passkeys!Init PROVE Passkeys!Inv
  OBVIOUS
<1>1. Passkeys!TypeOK
  BY DEF Passkeys!Init, Passkeys!TypeOK, Passkeys!Idle, Passkeys!Steps, Passkeys!Proofs
<1>2. \A p \in Passkeys!Proofs : v10[p] = 0
  BY DEF Passkeys!Init
<1>3. \A r \in Twins : v7[r] = "none" /\ v6[r] = "none"
  BY DEF Passkeys!Init
<1>4. Passkeys!ProofsUnspent
  BY <1>2, <1>3 DEF Passkeys!ProofsUnspent, Passkeys!Unspent, Passkeys!Proofs
<1> QED BY <1>1, <1>2, <1>3, <1>4 DEF Passkeys!Inv, Passkeys!OneGrantPerProof, Passkeys!OneSignInPerProof

(* Steps that earn no grant, redeem none, and free nothing that is spent. *)
LEMMA PasskeysKept ==
  ASSUME Passkeys!Inv, Passkeys!TypeOK', UNCHANGED <<v8, v10>>,
         \A r \in Twins : v7'[r] = "live" => v7[r] = "live",
         \A c \in Things : v4'[c] # "used" => v4[c] # "used",
         \A b \in Twins : v6'[b] = "live" \/ v9'[b].step # "done"
                            => v6[b] = "live" \/ v9[b].step # "done",
         \A b \in Twins : v6'[b] # "none" => v9'[b].step = "done"
  PROVE  Passkeys!Inv'
<1>1. \A p \in Passkeys!Proofs : Passkeys!Unspent(p) => Passkeys!Unspent(p)'
  BY DEF Passkeys!Unspent
<1>2. Passkeys!ProofsUnspent'
  BY <1>1 DEF Passkeys!Inv, Passkeys!ProofsUnspent, Passkeys!Proofs
<1>3. Passkeys!OneGrantPerProof'
  BY DEF Passkeys!Inv, Passkeys!OneGrantPerProof
<1>4. Passkeys!OneSignInPerProof'
  BY DEF Passkeys!Inv, Passkeys!OneSignInPerProof
<1> QED BY <1>2, <1>3, <1>4 DEF Passkeys!Inv

(* A proof that is unspent earns a grant, and is spent by it. *)
LEMMA PasskeysGrants ==
  ASSUME Passkeys!Inv, Passkeys!TypeOK', NEW r \in Twins, NEW p \in Passkeys!Proofs,
         Passkeys!Unspent(p), v7' = [v7 EXCEPT ![r] = "live"], v8' = [v8 EXCEPT ![r] = p],
         v10' = v10, p \in Things => v4'[p] = "used",
         p \in Twins => v6'[p] # "live" /\ v9'[p].step = "done",
         \A c \in Things : v4'[c] # "used" => v4[c] # "used",
         \A b \in Twins : v6'[b] = "live" \/ v9'[b].step # "done"
                            => v6[b] = "live" \/ v9[b].step # "done",
         \A b \in Twins : v6'[b] # "none" => v9'[b].step = "done"
  PROVE  Passkeys!Inv'
<1>0. v7 \in [Twins -> {"none", "live", "used"}] /\ v8 \in [Twins -> Passkeys!Proofs]
  BY DEF Passkeys!Inv, Passkeys!TypeOK
<1>1. /\ v7'[r] = "live" /\ v8'[r] = p
      /\ \A q \in Twins \ {r} : v7'[q] = v7[q] /\ v8'[q] = v8[q]
  BY <1>0
<1>2. \A x \in Passkeys!Proofs \ {p} : Passkeys!Unspent(x) => Passkeys!Unspent(x)'
  BY <1>1 DEF Passkeys!Unspent
<1>3. Passkeys!ProofsUnspent'
  BY <1>2 DEF Passkeys!Inv, Passkeys!ProofsUnspent, Passkeys!Proofs
<1>4. Passkeys!OneGrantPerProof'
  BY <1>1 DEF Passkeys!Inv, Passkeys!OneGrantPerProof, Passkeys!Unspent
<1>5. Passkeys!OneSignInPerProof'
  BY DEF Passkeys!Inv, Passkeys!OneSignInPerProof
<1> QED BY <1>3, <1>4, <1>5 DEF Passkeys!Inv

(* What a request's next step does to the requests. *)
LEMMA PasskeysGoes ==
  ASSUME Passkeys!TypeOK, NEW r \in Twins, NEW step \in Passkeys!Steps,
         NEW of \in SUBSET (Passkeys!Proofs \cup DeviceKeys), Passkeys!Goes(r, step, of)
  PROVE  /\ v9' \in [Twins -> [step : Passkeys!Steps, of : SUBSET (Passkeys!Proofs \cup DeviceKeys)]]
         /\ v9'[r].step = step /\ \A q \in Twins \ {r} : v9'[q] = v9[q]
BY DEF Passkeys!TypeOK, Passkeys!Goes

LEMMA PasskeysSetup ==
  ASSUME Passkeys!Inv, Passkeys!AddPasskey PROVE Passkeys!Inv'
<1>0. Passkeys!TypeOK
  BY DEF Passkeys!Inv
<1>1. ASSUME NEW c \in Things, Passkeys!RegistrationOptions(c) PROVE Passkeys!Inv'
  <2>1. Passkeys!TypeOK'
    BY <1>0, <1>1 DEF Passkeys!RegistrationOptions, Passkeys!TypeOK
  <2>2. \A d \in Things : v4'[d] # "used" => v4[d] # "used"
    BY <1>0, <1>1 DEF Passkeys!RegistrationOptions, Passkeys!TypeOK
  <2> QED BY <1>1, <2>1, <2>2, PasskeysKept
    DEF Passkeys!RegistrationOptions, Passkeys!Inv, Passkeys!ProofsUnspent
<1>2. ASSUME NEW r \in Twins, NEW c \in Things, NEW k \in DeviceKeys,
             Passkeys!ReadRegistration(r, c, k)
      PROVE  Passkeys!Inv'
  <2>0. {c, k} \in SUBSET (Passkeys!Proofs \cup DeviceKeys)
    BY DEF Passkeys!Proofs
  <2>1. /\ v9' \in [Twins -> [step : Passkeys!Steps, of : SUBSET (Passkeys!Proofs \cup DeviceKeys)]]
        /\ v9'[r].step = "registering" /\ \A q \in Twins \ {r} : v9'[q] = v9[q]
    BY <1>0, <1>2, <2>0, PasskeysGoes DEF Passkeys!ReadRegistration, Passkeys!Steps
  <2>2. Passkeys!TypeOK' /\ v9[r].step = "idle"
    BY <1>0, <1>2, <2>1 DEF Passkeys!ReadRegistration, Passkeys!TypeOK, Passkeys!Doing
  <2> QED BY <1>2, <2>1, <2>2, PasskeysKept
    DEF Passkeys!ReadRegistration, Passkeys!Inv, Passkeys!ProofsUnspent
<1>3. ASSUME NEW r \in Twins, Passkeys!StoreRegistration(r) PROVE Passkeys!Inv'
  <2>1. /\ v9' \in [Twins -> [step : Passkeys!Steps, of : SUBSET (Passkeys!Proofs \cup DeviceKeys)]]
        /\ v9'[r].step = "done" /\ \A q \in Twins \ {r} : v9'[q] = v9[q]
    BY <1>0, <1>3, PasskeysGoes DEF Passkeys!StoreRegistration, Passkeys!Ends, Passkeys!Steps
  <2>2. /\ v4' \in [Things -> {"none", "sign-in", "setup", "used"}] /\ v3' \subseteq DeviceKeys
        /\ \A d \in Things : v4'[d] # "used" => v4[d] # "used"
    BY <1>0, <1>3 DEF Passkeys!StoreRegistration, Passkeys!TypeOK
  <2>3. Passkeys!TypeOK'
    BY <1>0, <1>3, <2>1, <2>2 DEF Passkeys!StoreRegistration, Passkeys!TypeOK
  <2> QED BY <1>3, <2>1, <2>2, <2>3, PasskeysKept
    DEF Passkeys!StoreRegistration, Passkeys!Inv, Passkeys!ProofsUnspent
<1> QED BY <1>1, <1>2, <1>3 DEF Passkeys!AddPasskey

LEMMA PasskeysRemoval ==
  ASSUME Passkeys!Inv, NEW r \in Twins, Passkeys!PasskeyPanel(r) PROVE Passkeys!Inv'
<1>0. Passkeys!TypeOK
  BY DEF Passkeys!Inv
<1>1. PICK step \in {"removing", "done"}, of \in SUBSET (Passkeys!Proofs \cup DeviceKeys) :
        Passkeys!Goes(r, step, of)
  BY DEF Passkeys!PasskeyPanel, Passkeys!CountPasskeys, Passkeys!RemovePasskey, Passkeys!Ends
<1>2. /\ v9' \in [Twins -> [step : Passkeys!Steps, of : SUBSET (Passkeys!Proofs \cup DeviceKeys)]]
      /\ v9'[r].step = step /\ \A q \in Twins \ {r} : v9'[q] = v9[q]
  BY <1>0, <1>1, PasskeysGoes DEF Passkeys!Steps
<1>3. Passkeys!TypeOK'
  BY <1>0, <1>2 DEF Passkeys!PasskeyPanel, Passkeys!CountPasskeys, Passkeys!RemovePasskey, Passkeys!TypeOK
<1>4. v9[r].step # "done" /\ UNCHANGED <<v4, v6, v7, v8, v10>>
  BY DEF Passkeys!PasskeyPanel, Passkeys!CountPasskeys, Passkeys!RemovePasskey, Passkeys!Doing
<1> QED BY <1>2, <1>3, <1>4, PasskeysKept DEF Passkeys!Inv, Passkeys!ProofsUnspent

LEMMA PasskeysCodes ==
  ASSUME Passkeys!Inv, NEW r \in Twins, Passkeys!GenerateRecovery(r) PROVE Passkeys!Inv'
<1>0. Passkeys!TypeOK
  BY DEF Passkeys!Inv
<1>1. CASE Passkeys!CheckForCodes(r)
  <2>1. Passkeys!LiveCodes \in SUBSET (Passkeys!Proofs \cup DeviceKeys)
    BY DEF Passkeys!LiveCodes, Passkeys!Proofs
  <2>2. /\ v9' \in [Twins -> [step : Passkeys!Steps, of : SUBSET (Passkeys!Proofs \cup DeviceKeys)]]
        /\ v9'[r].step = "generating" /\ \A q \in Twins \ {r} : v9'[q] = v9[q]
    BY <1>0, <1>1, <2>1, PasskeysGoes DEF Passkeys!CheckForCodes, Passkeys!Steps
  <2>3. Passkeys!TypeOK' /\ v9[r].step = "idle"
    BY <1>0, <1>1, <2>2 DEF Passkeys!CheckForCodes, Passkeys!TypeOK, Passkeys!Doing
  <2> QED BY <1>1, <2>2, <2>3, PasskeysKept
    DEF Passkeys!CheckForCodes, Passkeys!Inv, Passkeys!ProofsUnspent
<1>2. CASE Passkeys!ReplaceCodes(r)
  <2>1. /\ v9' \in [Twins -> [step : Passkeys!Steps, of : SUBSET (Passkeys!Proofs \cup DeviceKeys)]]
        /\ v9'[r].step = "done" /\ \A q \in Twins \ {r} : v9'[q] = v9[q]
    BY <1>0, <1>2, PasskeysGoes DEF Passkeys!ReplaceCodes, Passkeys!Ends, Passkeys!Steps
  <2>2. /\ v6' \in [Twins -> {"none", "live", "used"}]
        /\ \A b \in Twins \ {r} : v6'[b] = v6[b] \/ v6'[b] = "none"
    BY <1>0, <1>2 DEF Passkeys!ReplaceCodes, Passkeys!TypeOK
  <2>3. Passkeys!TypeOK' /\ v9[r].step # "done"
    BY <1>0, <1>2, <2>1, <2>2 DEF Passkeys!ReplaceCodes, Passkeys!TypeOK, Passkeys!Doing
  <2>4. \A b \in Twins : v6'[b] # "none" => v9'[b].step = "done"
    BY <2>1, <2>2 DEF Passkeys!Inv, Passkeys!ProofsUnspent
  <2>5. \A b \in Twins : v6'[b] = "live" \/ v9'[b].step # "done"
                           => v6[b] = "live" \/ v9[b].step # "done"
    BY <2>1, <2>2, <2>3
  <2> QED BY <1>2, <2>3, <2>4, <2>5, PasskeysKept DEF Passkeys!ReplaceCodes
<1> QED BY <1>1, <1>2 DEF Passkeys!GenerateRecovery

LEMMA PasskeysAnswer ==
  ASSUME Passkeys!Inv, NEW r \in Twins,
         \/ \E c \in Things : Passkeys!AuthenticationOptions(c) \/ Passkeys!ReadAnswer(r, c)
         \/ Passkeys!GrantForAnswer(r)
  PROVE  Passkeys!Inv'
<1>0. Passkeys!TypeOK
  BY DEF Passkeys!Inv
<1>1. ASSUME NEW c \in Things, Passkeys!AuthenticationOptions(c) PROVE Passkeys!Inv'
  <2>1. Passkeys!TypeOK'
    BY <1>0, <1>1 DEF Passkeys!AuthenticationOptions, Passkeys!TypeOK
  <2>2. \A d \in Things : v4'[d] # "used" => v4[d] # "used"
    BY <1>0, <1>1 DEF Passkeys!AuthenticationOptions, Passkeys!TypeOK
  <2> QED BY <1>1, <2>1, <2>2, PasskeysKept
    DEF Passkeys!AuthenticationOptions, Passkeys!Inv, Passkeys!ProofsUnspent
<1>2. ASSUME NEW c \in Things, Passkeys!ReadAnswer(r, c) PROVE Passkeys!Inv'
  <2>0. {c} \in SUBSET (Passkeys!Proofs \cup DeviceKeys)
    BY DEF Passkeys!Proofs
  <2>1. /\ v9' \in [Twins -> [step : Passkeys!Steps, of : SUBSET (Passkeys!Proofs \cup DeviceKeys)]]
        /\ v9'[r].step = "answering" /\ \A q \in Twins \ {r} : v9'[q] = v9[q]
    BY <1>0, <1>2, <2>0, PasskeysGoes DEF Passkeys!ReadAnswer, Passkeys!Steps
  <2>2. Passkeys!TypeOK' /\ v9[r].step = "idle"
    BY <1>0, <1>2, <2>1 DEF Passkeys!ReadAnswer, Passkeys!TypeOK, Passkeys!Doing
  <2> QED BY <1>2, <2>1, <2>2, PasskeysKept
    DEF Passkeys!ReadAnswer, Passkeys!Inv, Passkeys!ProofsUnspent
<1>3. ASSUME NEW c \in Things, v9[r].step = "answering", Passkeys!Ends(r),
             UNCHANGED <<v1, v2, v3, v5, v6, v10>>,
             IF Passkeys!Consumed(c)
             THEN /\ v4' = [v4 EXCEPT ![c] = "used"]
                  /\ v7' = [v7 EXCEPT ![r] = "live"]
                  /\ v8' = [v8 EXCEPT ![r] = c]
             ELSE UNCHANGED <<v4, v7, v8>>
      PROVE  Passkeys!Inv'
  <2>1. /\ v9' \in [Twins -> [step : Passkeys!Steps, of : SUBSET (Passkeys!Proofs \cup DeviceKeys)]]
        /\ v9'[r].step = "done" /\ \A q \in Twins \ {r} : v9'[q] = v9[q]
    BY <1>0, <1>3, PasskeysGoes DEF Passkeys!Ends, Passkeys!Steps
  <2>a. /\ v4' \in [Things -> {"none", "sign-in", "setup", "used"}]
        /\ v7' \in [Twins -> {"none", "live", "used"}] /\ v8' \in [Twins -> Passkeys!Proofs]
    <3>1. c \in Passkeys!Proofs
      BY DEF Passkeys!Proofs
    <3> QED BY <1>0, <1>3, <3>1 DEF Passkeys!TypeOK
  <2>2. Passkeys!TypeOK'
    BY <1>0, <1>3, <2>1, <2>a DEF Passkeys!TypeOK
  <2>3. \A b \in Twins : v9'[b].step # "done" => v9[b].step # "done"
    BY <2>1
  <2>4. \A b \in Twins : v6'[b] # "none" => v9'[b].step = "done"
    BY <1>3, <2>1 DEF Passkeys!Inv, Passkeys!ProofsUnspent
  <2>5. CASE ~Passkeys!Consumed(c)
    BY <1>3, <2>2, <2>3, <2>4, <2>5, PasskeysKept
  <2>6. CASE Passkeys!Consumed(c)
    <3>1. v4'[c] = "used" /\ \A d \in Things : v4'[d] # "used" => v4[d] # "used"
      BY <1>0, <1>3, <2>6 DEF Passkeys!TypeOK
    <3>2. c \in Passkeys!Proofs /\ c \notin Twins /\ Passkeys!Unspent(c)
      BY <2>6, PlatformAssumption
      DEF Passkeys!PasskeysAssumption, Passkeys!Consumed, Passkeys!Inv, Passkeys!ProofsUnspent, Passkeys!Proofs
    <3> QED BY <1>3, <2>2, <2>3, <2>4, <2>6, <3>1, <3>2, PasskeysGrants
  <2> QED BY <2>5, <2>6
<1>4. CASE Passkeys!GrantForAnswer(r)
  BY <1>3, <1>4 DEF Passkeys!GrantForAnswer, Passkeys!Doing
<1> QED BY <1>1, <1>2, <1>4

LEMMA PasskeysRecovers ==
  ASSUME Passkeys!Inv, NEW r \in Twins, NEW b \in Twins, Passkeys!GrantForCode(r, b)
  PROVE  Passkeys!Inv'
<1>0. Passkeys!TypeOK
  BY DEF Passkeys!Inv
<1>1. /\ v9' \in [Twins -> [step : Passkeys!Steps, of : SUBSET (Passkeys!Proofs \cup DeviceKeys)]]
      /\ v9'[r].step = "done" /\ \A q \in Twins \ {r} : v9'[q] = v9[q]
  BY <1>0, PasskeysGoes DEF Passkeys!GrantForCode, Passkeys!Ends, Passkeys!Steps
<1>2. Passkeys!TypeOK'
  BY <1>0, <1>1 DEF Passkeys!GrantForCode, Passkeys!TypeOK, Passkeys!Proofs
<1>3. v6[b] = "live" /\ v9[b].step = "done" /\ Passkeys!Unspent(b)
  BY DEF Passkeys!GrantForCode, Passkeys!Inv, Passkeys!ProofsUnspent
<1>4. b \in Passkeys!Proofs /\ b \notin Things
  BY PlatformAssumption DEF Passkeys!PasskeysAssumption, Passkeys!Proofs
<1>5. v6'[b] = "used" /\ \A a \in Twins \ {b} : v6'[a] = v6[a]
  BY <1>0 DEF Passkeys!GrantForCode, Passkeys!TypeOK
<1>6. \A a \in Twins : v6'[a] = "live" \/ v9'[a].step # "done"
                         => v6[a] = "live" \/ v9[a].step # "done"
  BY <1>1, <1>5
<1>7. \A a \in Twins : v6'[a] # "none" => v9'[a].step = "done"
  BY <1>1, <1>3, <1>5 DEF Passkeys!Inv, Passkeys!ProofsUnspent
<1>8. v9'[b].step = "done"
  BY <1>1, <1>3
<1> QED BY <1>2, <1>3, <1>4, <1>5, <1>6, <1>7, <1>8, PasskeysGrants DEF Passkeys!GrantForCode

(* The one grant of its proof brings the one sign-in. *)
LEMMA PasskeysRedeems ==
  ASSUME Passkeys!Inv, NEW r \in Twins, Passkeys!RedeemGrant(r) PROVE Passkeys!Inv'
<1>0. Passkeys!TypeOK
  BY DEF Passkeys!Inv
<1>1. v8[r] \in Passkeys!Proofs /\ v10[v8[r]] = 0 /\ v7[r] = "live"
  BY <1>0 DEF Passkeys!RedeemGrant, Passkeys!TypeOK, Passkeys!Inv, Passkeys!OneGrantPerProof
<1>2. /\ v10' \in [Passkeys!Proofs -> Nat] /\ v10'[v8[r]] = 1
      /\ \A p \in Passkeys!Proofs \ {v8[r]} : v10'[p] = v10[p]
  BY <1>0, <1>1 DEF Passkeys!RedeemGrant, Passkeys!TypeOK
<1>3. Passkeys!TypeOK'
  BY <1>0, <1>2 DEF Passkeys!RedeemGrant, Passkeys!TypeOK
<1>4. /\ v7'[r] = "used" /\ \A q \in Twins \ {r} : v7'[q] = v7[q]
      /\ UNCHANGED <<v4, v6, v8, v9>>
  BY <1>0 DEF Passkeys!RedeemGrant, Passkeys!TypeOK
<1>5. \A p \in Passkeys!Proofs : Passkeys!Unspent(p) => Passkeys!Unspent(p)'
  BY <1>1, <1>2, <1>4 DEF Passkeys!Unspent
<1>6. Passkeys!ProofsUnspent'
  BY <1>4, <1>5 DEF Passkeys!Inv, Passkeys!ProofsUnspent, Passkeys!Proofs
<1>7. Passkeys!OneGrantPerProof'
  <2>1. ASSUME NEW q \in Twins, v7'[q] = "live"
        PROVE  v7[q] = "live" /\ v8[q] \in Passkeys!Proofs \ {v8[r]}
    BY <1>0, <1>1, <1>4, <2>1 DEF Passkeys!Inv, Passkeys!OneGrantPerProof, Passkeys!TypeOK
  <2> QED BY <1>2, <1>4, <2>1 DEF Passkeys!Inv, Passkeys!OneGrantPerProof
<1>8. Passkeys!OneSignInPerProof'
  BY <1>2 DEF Passkeys!Inv, Passkeys!OneSignInPerProof
<1> QED BY <1>3, <1>6, <1>7, <1>8 DEF Passkeys!Inv

LEMMA PasskeysVoided ==
  ASSUME Passkeys!Inv,
         \/ Passkeys!Expire \/ Passkeys!ResetPassword
         \/ Passkeys!ChangePassword \/ Passkeys!DeleteAccount
  PROVE  Passkeys!Inv'
<1>0. Passkeys!TypeOK
  BY DEF Passkeys!Inv
<1>1. UNCHANGED <<v8, v9, v10>>
  BY DEF Passkeys!Expire, Passkeys!ResetPassword, Passkeys!ChangePassword, Passkeys!DeleteAccount
<1>2. /\ v7' \in [Twins -> {"none", "live", "used"}]
      /\ \A r \in Twins : v7'[r] = "live" => v7[r] = "live"
  BY <1>0 DEF Passkeys!Expire, Passkeys!ResetPassword, Passkeys!ChangePassword,
    Passkeys!DeleteAccount, Passkeys!TypeOK
<1>3. /\ v4' \in [Things -> {"none", "sign-in", "setup", "used"}]
      /\ \A c \in Things : v4'[c] # "used" => v4[c] # "used"
  BY <1>0 DEF Passkeys!Expire, Passkeys!ResetPassword, Passkeys!ChangePassword,
    Passkeys!DeleteAccount, Passkeys!TypeOK
<1>4. /\ v6' \in [Twins -> {"none", "live", "used"}]
      /\ \A b \in Twins : v6'[b] = "live" => v6[b] = "live"
      /\ \A b \in Twins : v6'[b] # "none" => v6[b] # "none"
  BY <1>0 DEF Passkeys!Expire, Passkeys!ResetPassword, Passkeys!ChangePassword,
    Passkeys!DeleteAccount, Passkeys!TypeOK
<1>5. v1' \in BOOLEAN /\ v2' \in BOOLEAN /\ v3' \subseteq DeviceKeys /\ v5' \subseteq Things
  BY <1>0 DEF Passkeys!Expire, Passkeys!ResetPassword, Passkeys!ChangePassword,
    Passkeys!DeleteAccount, Passkeys!TypeOK
<1>6. Passkeys!TypeOK'
  BY <1>0, <1>1, <1>2, <1>3, <1>4, <1>5 DEF Passkeys!TypeOK
<1>7. \A b \in Twins : v6'[b] # "none" => v9'[b].step = "done"
  BY <1>1, <1>4 DEF Passkeys!Inv, Passkeys!ProofsUnspent
<1> QED BY <1>1, <1>2, <1>3, <1>4, <1>6, <1>7, PasskeysKept

LEMMA PasskeysStep == Passkeys!Inv /\ [Passkeys!Next]_(Passkeys!vars) => Passkeys!Inv'
<1> SUFFICES ASSUME Passkeys!Inv, [Passkeys!Next]_(Passkeys!vars) PROVE Passkeys!Inv'
  OBVIOUS
<1>1. CASE UNCHANGED Passkeys!vars
  BY <1>1 DEF Passkeys!vars, Passkeys!Inv, Passkeys!TypeOK, Passkeys!ProofsUnspent,
    Passkeys!Unspent, Passkeys!OneGrantPerProof, Passkeys!OneSignInPerProof
<1>2. ASSUME NEW r \in Twins, Passkeys!HandlePasskeySignIn(r) PROVE Passkeys!Inv'
  BY <1>2, PasskeysAnswer, PasskeysRedeems DEF Passkeys!HandlePasskeySignIn
<1>3. ASSUME NEW r \in Twins, Passkeys!HandleRecoverySignIn(r) PROVE Passkeys!Inv'
  BY <1>3, PasskeysRecovers, PasskeysRedeems DEF Passkeys!HandleRecoverySignIn
<1>4. CASE Passkeys!Next
  BY <1>2, <1>3, <1>4, PasskeysSetup, PasskeysRemoval, PasskeysCodes, PasskeysVoided
    DEF Passkeys!Next
<1> QED BY <1>1, <1>4

-----------------------------------------------------------------------------
(* The amounts of a booking add up, from its price to its last refund.     *)

(* Rounded shares. *)
LEMMA MoneyQuotient ==
  ASSUME NEW n \in Nat, NEW d \in Nat, d > 0
  PROVE  n \div d \in Nat /\ d * (n \div d) <= n /\ n < d * (n \div d) + d
OBVIOUS

LEMMA MoneyRound ==
  ASSUME NEW n \in Nat, NEW d \in Nat, d > 0
  PROVE  /\ Money!Round(n, d) \in Nat
         /\ 2 * (d * Money!Round(n, d)) <= 2 * n + d
         /\ 2 * n < 2 * (d * Money!Round(n, d)) + d
<1> DEFINE m == 2 * n + d
           e == 2 * d
           q == m \div e
<1>1. m \in Nat /\ e \in Nat /\ e > 0 /\ Money!Round(n, d) = q
  BY DEF Money!Round
<1>2. q \in Nat /\ e * q <= m /\ m < e * q + e
  <2> HIDE DEF m, e
  <2> QED BY <1>1, MoneyQuotient
<1>3. e * q = 2 * (d * q)
  <2> HIDE DEF q
  <2> QED BY <1>2
<1> HIDE DEF q
<1>4. d * q \in Nat
  BY <1>2
<1> DEFINE x == d * q
<1> HIDE DEF x
<1>5. 2 * x <= 2 * n + d /\ 2 * n < 2 * x + d
  BY <1>2, <1>3, <1>4 DEF x
<1> QED BY <1>1, <1>2, <1>5 DEF x

LEMMA MoneyOrder ==
  ASSUME NEW p \in Int, NEW q \in Int, NEW d \in Nat, d > 0, d * p < d * q + d
  PROVE  p <= q
<1> SUFFICES ASSUME p >= q + 1 PROVE d * p >= d * q + d
  OBVIOUS
<1>1. d * p >= d * (q + 1)
  OBVIOUS
<1> QED BY <1>1

LEMMA MoneyRoundGrows ==
  ASSUME NEW m \in Nat, NEW n \in Nat, NEW d \in Nat, d > 0, m <= n
  PROVE  Money!Round(m, d) <= Money!Round(n, d)
<1> DEFINE a == Money!Round(m, d)
           b == Money!Round(n, d)
           x == d * a
           y == d * b
<1>1. a \in Nat /\ b \in Nat /\ 2 * x <= 2 * m + d /\ 2 * n < 2 * y + d
  BY MoneyRound
<1> HIDE DEF a, b
<1>2. x \in Nat /\ y \in Nat
  BY <1>1
<1> HIDE DEF x, y
<1>3. x < y + d
  BY <1>1, <1>2
<1>4. a <= b
  BY <1>1, <1>3, MoneyOrder DEF x, y
<1> QED BY <1>4 DEF a, b

LEMMA MoneyRoundExact ==
  ASSUME NEW p \in Nat, NEW d \in Nat, d > 0
  PROVE  Money!Round(p * d, d) = p /\ Money!Round(0, d) = 0
<1> DEFINE n == p * d
           a == Money!Round(n, d)
           x == d * a
<1>1. n \in Nat /\ n = d * p
  OBVIOUS
<1>2. a \in Nat /\ 2 * x <= 2 * n + d /\ 2 * n < 2 * x + d
  <2> HIDE DEF n
  <2> QED BY <1>1, MoneyRound
<1> HIDE DEF n, a
<1>3. x \in Nat
  BY <1>2
<1> HIDE DEF x
<1>4. x < n + d /\ n < x + d
  BY <1>1, <1>2, <1>3
<1>5. a <= p /\ p <= a
  BY <1>1, <1>2, <1>4, MoneyOrder DEF x
<1>6. Money!Round(0, d) = 0
  BY DEF Money!Round
<1> QED BY <1>2, <1>5, <1>6 DEF n, a

LEMMA MoneyNear ==
  ASSUME NEW m \in Int, NEW n \in Int, n <= m + 1, m - 1 <= n
  PROVE  Money!Near(m, n) /\ Money!Near(n, m)
BY DEF Money!Near

(* The shares of a part of the total: together they are that part, to the unit. *)
LEMMA MoneyShares ==
  ASSUME NEW T \in Nat, T > 0, NEW R \in Nat, NEW p \in Nat, NEW q \in Nat, NEW s \in Nat,
         NEW a \in Nat, NEW b \in Nat, NEW c \in Nat, p + q + s = T,
         a = Money!Round(p * R, T), b = Money!Round(q * R, T), c = Money!Round(s * R, T)
  PROVE  Money!Near(R, a + b + c)
<1> DEFINE x == T * a
           y == T * b
           z == T * c
           u == p * R
           v == q * R
           w == s * R
           t == T * R
<1>1. u \in Nat /\ v \in Nat /\ w \in Nat /\ t \in Nat /\ x \in Nat /\ y \in Nat /\ z \in Nat
  OBVIOUS
<1>2. u + v + w = t
  <2>1. (p + q + s) * R = p * R + q * R + s * R
    OBVIOUS
  <2> QED BY <2>1
<1>3. /\ 2 * x <= 2 * u + T /\ 2 * u < 2 * x + T
      /\ 2 * y <= 2 * v + T /\ 2 * v < 2 * y + T
      /\ 2 * z <= 2 * w + T /\ 2 * w < 2 * z + T
  <2> HIDE DEF u, v, w
  <2>1. a = Money!Round(u, T) /\ b = Money!Round(v, T) /\ c = Money!Round(w, T)
    BY DEF u, v, w
  <2> QED BY <1>1, <2>1, MoneyRound
<1>4. T * (a + b + c) = x + y + z /\ T * (R + 1) = t + T /\ T * (R - 1) = t - T
  OBVIOUS
<1> HIDE DEF x, y, z, u, v, w, t
<1>5. T * (a + b + c) < T * (R + 1) + T /\ T * (R - 1) < T * (a + b + c) + T
  BY <1>1, <1>2, <1>3, <1>4
<1>6. a + b + c \in Int /\ R + 1 \in Int /\ R - 1 \in Int
  OBVIOUS
<1>7. a + b + c <= R + 1 /\ R - 1 <= a + b + c
  BY <1>5, <1>6, MoneyOrder
<1> QED BY <1>6, <1>7, MoneyNear

(* What the ledger leaves of a payout, and what the quote says is retained of it. *)
LEMMA MoneyRetained ==
  ASSUME NEW T \in Nat, T > 0, NEW P \in Nat, P <= T, NEW percent \in 0..100,
         NEW R \in Nat, R = Money!Round(T * percent, 100),
         NEW a \in Nat, a = Money!Round(P * R, T),
         NEW k \in Nat, k = Money!Round(P * (100 - percent), 100)
  PROVE  Money!Near(P - a, k)
<1> DEFINE x == T * a
           u == P * R
           f == T * percent
           g == P * percent
           h == P * (100 - percent)
           e == T * g
           w == T * P
<1>0. percent \in Nat /\ 100 - percent \in Nat
  OBVIOUS
<1>1. /\ x \in Nat /\ u \in Nat /\ f \in Nat /\ g \in Nat /\ h \in Nat /\ e \in Nat /\ w \in Nat
      /\ h = 100 * P - g
  BY <1>0
<1>2. 200 * R <= 2 * f + 100 /\ 2 * f < 200 * R + 100
  <2> HIDE DEF f
  <2>1. R = Money!Round(f, 100)
    BY DEF f
  <2>2. 2 * (100 * R) <= 2 * f + 100 /\ 2 * f < 2 * (100 * R) + 100
    BY <1>1, <2>1, MoneyRound
  <2> QED BY <1>1, <2>2
<1>3. 200 * k <= 2 * h + 100 /\ 2 * h < 200 * k + 100
  <2> HIDE DEF h
  <2>0. h \in Nat
    BY <1>1
  <2>1. k = Money!Round(h, 100)
    BY DEF h
  <2>2. 2 * (100 * k) <= 2 * h + 100 /\ 2 * h < 2 * (100 * k) + 100
    BY <2>0, <2>1, MoneyRound
  <2> QED BY <2>0, <2>2
<1>4. 2 * x <= 2 * u + T /\ 2 * u < 2 * x + T
  <2> HIDE DEF u
  <2>1. a = Money!Round(u, T)
    BY DEF u
  <2> QED BY <1>1, <2>1, MoneyRound
<1>5. 200 * u <= 2 * e + 100 * P /\ 2 * e <= 200 * u + 100 * P
  <2>1. P * (200 * R) <= P * (2 * f + 100) /\ P * (2 * f) <= P * (200 * R + 100)
    <3> HIDE DEF f
    <3>1. \A i, j \in Nat : i <= j => P * i <= P * j
      OBVIOUS
    <3>2. 200 * R \in Nat /\ 2 * f + 100 \in Nat /\ 2 * f \in Nat /\ 200 * R + 100 \in Nat
      BY <1>1
    <3> QED BY <1>1, <1>2, <3>1, <3>2
  <2>2. P * (200 * R) = 200 * u /\ P * (200 * R + 100) = 200 * u + 100 * P
    OBVIOUS
  <2>3. P * f = e
    <3>1. percent \in Int /\ P * (T * percent) = T * (P * percent)
      BY <1>0
    <3> QED BY <3>1
  <2>4. P * (2 * f) = 2 * (P * f) /\ P * (2 * f + 100) = 2 * (P * f) + 100 * P
    <3> HIDE DEF f
    <3> QED BY <1>1
  <2> HIDE DEF u, e, f
  <2> QED BY <2>1, <2>2, <2>3, <2>4
<1>6. /\ 200 * (T * k) <= 200 * w - 2 * e + 100 * T
      /\ 200 * w - 2 * e < 200 * (T * k) + 100 * T
  <2> DEFINE l == 200 * k
             m == 200 * P - 2 * g
  <2>1. l \in Nat /\ m \in Int /\ l <= m + 100 /\ m < l + 100
    BY <1>1, <1>3
  <2>2. T * l <= T * (m + 100) /\ T * m < T * (l + 100)
    <3> HIDE DEF l, m
    <3>1. \A i, j \in Int : (i <= j => T * i <= T * j) /\ (i < j => T * i < T * j)
      OBVIOUS
    <3>2. m + 100 \in Int /\ l + 100 \in Int /\ l \in Int
      BY <2>1
    <3> QED BY <2>1, <3>1, <3>2
  <2>3. T * l = 200 * (T * k) /\ T * (l + 100) = 200 * (T * k) + 100 * T
    OBVIOUS
  <2>4. T * m = 200 * w - 2 * e /\ T * (m + 100) = 200 * w - 2 * e + 100 * T
    <3> HIDE DEF g
    <3> QED BY <1>1
  <2> QED BY <2>2, <2>3, <2>4
<1>7. /\ T * (a + k) = x + T * k /\ T * (P + 1) = w + T /\ T * (P - 1) = w - T
      /\ T * k \in Nat
  OBVIOUS
<1> DEFINE y == T * k
           i == T * (a + k)
           j == T * (P + 1)
           o == T * (P - 1)
<1> HIDE DEF x, u, e, w, y, f, g, h, i, j, o
<1>8. 200 * i <= 200 * w + 100 * P + 200 * T /\ 200 * w < 200 * i + 100 * P + 200 * T
  BY <1>1, <1>4, <1>5, <1>6, <1>7 DEF y, i
<1>9. i < j + T /\ o < i + T
  <2>1. i \in Int /\ j = w + T /\ o = w - T
    BY <1>1, <1>7 DEF i, j, o, y
  <2> QED BY <1>1, <1>8, <2>1
<1>10. a + k \in Int /\ P + 1 \in Int /\ P - 1 \in Int
  OBVIOUS
<1>11. a + k <= P + 1 /\ P - 1 <= a + k
  BY <1>9, <1>10, MoneyOrder DEF i, j, o
<1>12. P - a \in Int /\ k <= P - a + 1 /\ P - a - 1 <= k
  BY <1>11
<1> QED BY <1>12, MoneyNear

(* Sums over the rows of refunds: the number of their minor units. *)
LEMMA MoneyUnitsOfRow ==
  ASSUME NEW r, NEW amount \in Nat
  PROVE  IsFiniteSet({r} \X (1..amount)) /\ Cardinality({r} \X (1..amount)) = amount
<1>1. IsFiniteSet({r}) /\ Cardinality({r}) = 1
  BY FS_Singleton
<1>2. IsFiniteSet(1..amount) /\ Cardinality(1..amount) = amount
  BY FS_Interval
<1>3. /\ IsFiniteSet({r} \X (1..amount))
      /\ Cardinality({r} \X (1..amount)) = Cardinality({r}) * Cardinality(1..amount)
  BY <1>1, <1>2, FS_Product
<1> QED BY <1>1, <1>2, <1>3

LEMMA MoneyCount ==
  ASSUME NEW S
  PROVE  /\ Money!Sum(S) = Cardinality(Money!Units(S))
         /\ Money!Sum(S)' = Cardinality(Money!Units(S)')
BY DEF Money!Sum, Money!Cardinality, Cardinality

LEMMA MoneyUnitsAreFinite ==
  ASSUME v4 \in [Money!RefundNo -> Money!Rows], NEW S
  PROVE  IsFiniteSet(Money!Units(S)) /\ Money!Sum(S) \in Nat
<1> DEFINE Q == {q \in Money!RefundNo : v4[q].status \in S}
           F == {{r} \X (1..v4[r].amount) : r \in Q}
           f == [r \in Q |-> {r} \X (1..v4[r].amount)]
<1>1. IsFiniteSet(Money!RefundNo)
  BY FS_Interval, PlatformAssumption DEF Money!MoneyAssumption, Money!RefundNo
<1>2. IsFiniteSet(Q)
  BY <1>1, FS_Subset
<1>3. f \in Surjection(Q, F)
  BY DEF Surjection
<1>4. IsFiniteSet(F)
  <2> HIDE DEF Q, F, f
  <2> QED BY <1>2, <1>3, FS_Surjection
<1>5. \A T \in F : IsFiniteSet(T)
  <2> SUFFICES ASSUME NEW r \in Q PROVE IsFiniteSet({r} \X (1..v4[r].amount))
    OBVIOUS
  <2>1. v4[r].amount \in Nat
    BY DEF Money!Rows
  <2> QED BY <2>1, MoneyUnitsOfRow
<1>6. IsFiniteSet(UNION F)
  <2> HIDE DEF F
  <2> QED BY <1>4, <1>5, FS_UNION
<1>7. Money!Units(S) = UNION F
  BY DEF Money!Units
<1> HIDE DEF F
<1> QED BY <1>6, <1>7, FS_CardinalityType, MoneyCount

LEMMA MoneySame ==
  ASSUME NEW S, v4 \in [Money!RefundNo -> Money!Rows],
         \A r \in Money!RefundNo : /\ v4'[r].status \in S <=> v4[r].status \in S
                                   /\ v4[r].status \in S => v4'[r].amount = v4[r].amount
  PROVE  Money!Sum(S)' = Money!Sum(S)
<1>1. Money!Units(S)' = Money!Units(S)
  BY DEF Money!Units
<1> QED BY <1>1 DEF Money!Sum

LEMMA MoneyNone ==
  ASSUME NEW S, \A r \in Money!RefundNo : v4[r].status \notin S
  PROVE  Money!Sum(S) = 0
<1>1. Money!Units(S) = {}
  BY DEF Money!Units
<1> QED BY <1>1, FS_EmptySet, MoneyCount

LEMMA MoneyOne ==
  ASSUME v4 \in [Money!RefundNo -> Money!Rows], NEW S, NEW r \in Money!RefundNo,
         v4[r].status \in S, \A q \in Money!RefundNo : v4[q].status \in S => q = r
  PROVE  Money!Sum(S) = v4[r].amount
<1>1. Money!Units(S) = {r} \X (1..v4[r].amount)
  BY DEF Money!Units
<1> DEFINE amount == v4[r].amount
<1>2. amount \in Nat
  BY DEF Money!Rows
<1>3. Money!Units(S) = {r} \X (1..amount)
  BY <1>1
<1> HIDE DEF amount
<1>4. Cardinality({r} \X (1..amount)) = amount
  BY <1>2, MoneyUnitsOfRow
<1>5. Money!Sum(S) = amount
  BY <1>3, <1>4, MoneyCount
<1> QED BY <1>5 DEF amount

LEMMA MoneyGrows ==
  ASSUME v4 \in [Money!RefundNo -> Money!Rows], NEW r \in Money!RefundNo,
         v4[r].status # "succeeded", v4' = [v4 EXCEPT ![r].status = "succeeded"]
  PROVE  Money!Sum({"succeeded"})' = Money!Sum({"succeeded"}) + v4[r].amount
<1> DEFINE amount == v4[r].amount
           old == Money!Units({"succeeded"})
           new == {r} \X (1..amount)
<1>1. amount \in Nat
  BY DEF Money!Rows
<1>2. \A q \in Money!RefundNo :
        /\ v4'[q].amount = v4[q].amount
        /\ v4'[q].status = IF q = r THEN "succeeded" ELSE v4[q].status
  BY DEF Money!Rows
<1>3. Money!Units({"succeeded"})' = old \cup new
  BY <1>2 DEF Money!Units
<1>4. old \cap new = {}
  BY DEF Money!Units
<1>5. IsFiniteSet(old) /\ Cardinality(old) \in Nat
  BY MoneyUnitsAreFinite, FS_CardinalityType
<1>6. IsFiniteSet(new) /\ Cardinality(new) = amount
  BY <1>1, MoneyUnitsOfRow
<1>7. Cardinality(old \cup new) = Cardinality(old) + Cardinality(new) - Cardinality({})
  <2> HIDE DEF old, new
  <2> QED BY <1>4, <1>5, <1>6, FS_Union
<1>8. Cardinality({}) = 0
  BY FS_EmptySet
<1>9. /\ Money!Sum({"succeeded"}) = Cardinality(old)
      /\ Money!Sum({"succeeded"})' = Cardinality(old \cup new)
  BY <1>3, MoneyCount
<1> HIDE DEF amount, old, new
<1>10. Money!Sum({"succeeded"})' = Money!Sum({"succeeded"}) + amount
  BY <1>1, <1>5, <1>6, <1>7, <1>8, <1>9
<1> QED BY <1>10 DEF amount

(* What the steps keep. *)
LEMMA MoneyConstants ==
  /\ NightlyPrices \subseteq Nat /\ CleaningFees \subseteq Nat /\ PricedNights \subseteq Nat
  /\ Slices \subseteq Nat /\ MoneyRefunds \in Nat
BY PlatformAssumption DEF Money!MoneyAssumption

LEMMA MoneyInit == Money!Init => Money!Inv
<1> SUFFICES ASSUME Money!Init PROVE Money!Inv
  OBVIOUS
<1>1. v1 \in Money!Offers
  BY DEF Money!Init, Money!Offers
<1>2. v3 = Money!Unpriced /\ v4 \in [Money!RefundNo -> Money!Rows]
  BY DEF Money!Init, Money!Rows
<1>3. \A r \in Money!RefundNo : v4[r].status = "none" /\ ~v4[r].cancels
  BY DEF Money!Init
<1>4. /\ v6 \in [status : {"none", "scheduled", "cancelled"}, amount : Int] /\ v6.status = "none"
      /\ v7 \in Money!Standings /\ v7.booking = "none" /\ v7.payment = "none"
  BY DEF Money!Init, Money!Standings
<1>5. Money!TypeOK
  BY <1>1, <1>2, <1>4 DEF Money!Init, Money!TypeOK
<1>6. Money!Sum({"succeeded"}) = 0
  BY <1>3, MoneyNone
<1>7. Money!ReversedByShare
  BY <1>6 DEF Money!Init, Money!ReversedByShare
<1>8. Money!InOrder /\ Money!PayoutFollows /\ Money!Scheduled /\ Money!QuotedAlike
  BY <1>2, <1>3, <1>4 DEF Money!InOrder, Money!PayoutFollows, Money!Scheduled, Money!QuotedAlike
<1> QED BY <1>2, <1>5, <1>7, <1>8 DEF Money!Inv, Money!TotalIsShared, Money!PartsOfTotal

(* The offer and the fees say nothing of a booking that was priced. *)
LEMMA MoneyOffers ==
  ASSUME Money!Inv, v1' \in Money!Offers, v2' \in {"v1", Money!Launch},
         UNCHANGED <<v3, v4, v5, v6, v7>>
  PROVE  Money!Inv'
<1>1. Money!TypeOK'
  BY DEF Money!Inv, Money!TypeOK
<1>2. \A percent \in 0..100 : /\ Money!Refundable(percent)' = Money!Refundable(percent)
                              /\ Money!HostRetained(percent)' = Money!HostRetained(percent)
  BY DEF Money!Refundable, Money!HostRetained
<1>3. Money!Sum({"succeeded"})' = Money!Sum({"succeeded"})
  BY MoneySame DEF Money!Inv, Money!TypeOK
<1>4. Money!QuotedAlike'
  BY <1>2 DEF Money!Inv, Money!QuotedAlike
<1>5. Money!ReversedByShare' /\ Money!PayoutFollows'
  BY <1>3 DEF Money!Inv, Money!ReversedByShare, Money!PayoutFollows
<1>6. Money!TotalIsShared' /\ Money!PartsOfTotal' /\ Money!InOrder' /\ Money!Scheduled'
  BY DEF Money!Inv, Money!TotalIsShared, Money!Shared, Money!PartsOfTotal, Money!InOrder,
    Money!Scheduled, Money!Otherwise
<1> QED BY <1>1, <1>4, <1>5, <1>6 DEF Money!Inv

(* calculatePrice: every amount is natural, and together they are the total. *)
LEMMA MoneyBreakdown ==
  ASSUME v1.nightly \in Nat, v1.cleaning \in Nat, v2 \in {"v1", Money!Launch},
         NEW nights \in Nat, NEW g \in Nat, NEW t \in Nat, NEW c \in 0..(v1.nightly * nights)
  PROVE  LET p == Money!Breakdown(nights, g, t, c) IN
         /\ p \in Money!Prices
         /\ p.total = p.payout + p.revenue + (IF p.version = "v1" THEN p.taxes ELSE 0)
         /\ \A k \in Money!CategoryKeys : p[k] \in 0..p.total
<1> DEFINE acc == v1.nightly * nights
           share == Money!HostShare(acc, v1.cleaning, t, c)
           rest == IF v2 = "v1" THEN t ELSE 0
           total == acc + v1.cleaning + g + t
<1>1. acc \in Nat /\ c \in Nat /\ c <= acc
  BY DEF acc
<1>2. share = acc + v1.cleaning + (IF v2 = Money!Launch THEN t ELSE 0) - c
  BY DEF Money!HostShare
<1>3. "v1" # Money!Launch
  BY DEF Money!Launch
<1> HIDE DEF acc, share
<1>4. share \in 0..total /\ total = share + (c + g) + rest /\ total \in Nat /\ c + g \in 0..total
  BY <1>1, <1>2, <1>3
<1>5. acc \in 0..total /\ v1.cleaning \in 0..total /\ g \in 0..total /\ t \in 0..total /\ c \in 0..total
  BY <1>1
<1> DEFINE p == Money!Breakdown(nights, g, t, c)
<1>6. p = [version |-> v2, accommodation |-> acc, cleaning |-> v1.cleaning, guestFee |-> g,
           taxes |-> t, total |-> total, commission |-> c, revenue |-> c + g, payout |-> share]
  BY DEF Money!Breakdown, acc, share
<1> HIDE DEF p, total, rest
<1>7. p \in Money!Prices
  BY <1>1, <1>4, <1>5, <1>6 DEF Money!Prices
<1>8. p.total = p.payout + p.revenue + (IF p.version = "v1" THEN p.taxes ELSE 0)
  BY <1>4, <1>6 DEF rest
<1>9. \A k \in Money!CategoryKeys : p[k] \in 0..p.total
  BY <1>4, <1>5, <1>6 DEF Money!CategoryKeys
<1> QED BY <1>7, <1>8, <1>9 DEF p

LEMMA MoneyCreates ==
  ASSUME Money!Inv, NEW n \in PricedNights, Money!CreateBooking(n)
  PROVE  Money!Inv'
<1>0. Money!TypeOK
  BY DEF Money!Inv
<1>1. v1.nightly \in Nat /\ v1.cleaning \in Nat /\ n \in Nat
  BY <1>0, MoneyConstants DEF Money!TypeOK, Money!Offers
<1>2. \A m, rate : Money!Rounded(m, rate) \subseteq 0..m
  BY DEF Money!Rounded
<1>3. \A i, j \in Nat : Money!Taxes(i, j) \subseteq Nat
  BY <1>2 DEF Money!Taxes
<1> DEFINE acc == v1.nightly * n
<1>4. acc \in Nat
  BY <1>1
<1>5. PICK g \in Money!Rounded(acc, Money!FeeConfig[v2].guestFee), t \in Money!Taxes(acc, v1.cleaning),
           c \in Money!Rounded(acc, Money!FeeConfig[v2].commission) :
        v3' = Money!Breakdown(n, g, t, c)
  BY DEF Money!CreateBooking
<1>6. g \in Nat /\ t \in Nat /\ c \in 0..acc
  <2> HIDE DEF acc
  <2> QED BY <1>1, <1>2, <1>3, <1>4
<1>7. v2 \in {"v1", Money!Launch}
  BY <1>0 DEF Money!TypeOK
<1>8. /\ v3' \in Money!Prices
      /\ v3'.total = v3'.payout + v3'.revenue + (IF v3'.version = "v1" THEN v3'.taxes ELSE 0)
      /\ \A k \in Money!CategoryKeys : v3'[k] \in 0..v3'.total
  BY <1>1, <1>5, <1>6, <1>7, MoneyBreakdown
<1>9. /\ v3 = Money!Unpriced /\ UNCHANGED <<v1, v2, v4, v5, v6>>
      /\ v7' = [v7 EXCEPT !.booking = "pending_payment"]
  BY DEF Money!CreateBooking
<1>a. v7' \in Money!Standings /\ v7'.booking = "pending_payment" /\ v7'.payment = v7.payment
  BY <1>0, <1>9 DEF Money!TypeOK, Money!Standings
<1>10. /\ v6.status = "none" /\ v7.payment = "none"
       /\ \A r \in Money!RefundNo : v4[r].status = "none" /\ ~v4[r].cancels
  BY <1>9 DEF Money!Inv, Money!InOrder
<1>11. v3' # Money!Unpriced
  BY <1>8 DEF Money!Prices, Money!Unpriced
<1>12. Money!Sum({"succeeded"}) = 0
  BY <1>10, MoneyNone
<1>13. Money!Sum({"succeeded"})' = 0
  BY <1>0, <1>9, <1>12, MoneySame DEF Money!TypeOK
<1>14. Money!TypeOK'
  BY <1>0, <1>8, <1>9, <1>a DEF Money!TypeOK
<1>15. Money!TotalIsShared' /\ Money!PartsOfTotal'
  BY <1>8 DEF Money!TotalIsShared, Money!Shared, Money!PartsOfTotal
<1>16. Money!ReversedByShare'
  BY <1>9, <1>12, <1>13 DEF Money!Inv, Money!ReversedByShare
<1>17. Money!InOrder' /\ Money!PayoutFollows' /\ Money!Scheduled' /\ Money!QuotedAlike'
  BY <1>9, <1>a, <1>10, <1>11
     DEF Money!InOrder, Money!PayoutFollows, Money!Scheduled, Money!QuotedAlike
<1> QED BY <1>14, <1>15, <1>16, <1>17 DEF Money!Inv

(* The price and the refunds stay as they are. *)
LEMMA MoneyStays ==
  ASSUME Money!Inv, UNCHANGED <<v1, v2, v3, v4, v5>>
  PROVE  /\ Money!Sum({"succeeded"})' = Money!Sum({"succeeded"})
         /\ Money!TotalIsShared' /\ Money!PartsOfTotal' /\ Money!ReversedByShare'
         /\ Money!QuotedAlike' /\ (Money!Otherwise => Money!Otherwise')
<1>1. Money!Sum({"succeeded"})' = Money!Sum({"succeeded"})
  BY MoneySame DEF Money!Inv, Money!TypeOK
<1>2. \A percent \in 0..100 : /\ Money!Refundable(percent)' = Money!Refundable(percent)
                              /\ Money!HostRetained(percent)' = Money!HostRetained(percent)
  BY DEF Money!Refundable, Money!HostRetained
<1>3. Money!QuotedAlike'
  BY <1>2 DEF Money!Inv, Money!QuotedAlike
<1>4. Money!ReversedByShare'
  BY <1>1 DEF Money!Inv, Money!ReversedByShare
<1>5. Money!TotalIsShared' /\ Money!PartsOfTotal' /\ (Money!Otherwise => Money!Otherwise')
  BY DEF Money!Inv, Money!TotalIsShared, Money!Shared, Money!PartsOfTotal, Money!Otherwise
<1> QED BY <1>1, <1>3, <1>4, <1>5

LEMMA MoneyPays == ASSUME Money!Inv, Money!PaymentSucceeds PROVE Money!Inv'
<1>0. Money!TypeOK
  BY DEF Money!Inv
<1>1. v3 # Money!Unpriced /\ UNCHANGED <<v1, v2, v3, v4, v5>>
  BY DEF Money!PaymentSucceeds
<1>2. v3 \in Money!Prices
  BY <1>0, <1>1 DEF Money!TypeOK
<1>3. /\ Money!Sum({"succeeded"})' = Money!Sum({"succeeded"})
      /\ Money!TotalIsShared' /\ Money!PartsOfTotal' /\ Money!ReversedByShare'
      /\ Money!QuotedAlike' /\ (Money!Otherwise => Money!Otherwise')
  BY <1>1, MoneyStays
<1>4. CASE v7.booking = "pending_payment"
  <2>1. v6' = [status |-> "scheduled", amount |-> v3.payout]
        /\ v7' = [v7 EXCEPT !.payment = "paid", !.booking = "confirmed"]
    BY <1>4 DEF Money!PaymentSucceeds
  <2>2. v7' \in Money!Standings /\ v7'.booking = "confirmed" /\ v7'.payment = "paid"
    BY <1>0, <2>1 DEF Money!TypeOK, Money!Standings
  <2>3. /\ v6' \in [status : {"none", "scheduled", "cancelled"}, amount : Int]
        /\ v6'.status = "scheduled" /\ v6'.amount = v3.payout /\ v3.payout \in Nat
    BY <1>2, <2>1 DEF Money!Prices
  <2>4. \A r \in Money!RefundNo : v4[r].status = "none" /\ ~v4[r].cancels
    BY <1>4 DEF Money!Inv, Money!InOrder
  <2>5. v5["payout"] = 0
    BY <2>4, MoneyNone DEF Money!Inv, Money!ReversedByShare, Money!CategoryKeys
  <2>6. Money!TypeOK'
    BY <1>0, <1>1, <2>2, <2>3 DEF Money!TypeOK
  <2>7. Money!PayoutFollows'
    BY <1>1, <2>3, <2>5 DEF Money!PayoutFollows
  <2>8. Money!InOrder' /\ Money!Scheduled'
    BY <1>1, <2>2, <2>3, <2>4 DEF Money!InOrder, Money!Scheduled
  <2> QED BY <1>3, <2>6, <2>7, <2>8 DEF Money!Inv
<1>5. CASE v7.booking # "pending_payment"
  <2>1. v6' = v6 /\ v7' = [v7 EXCEPT !.payment = "paid"]
    BY <1>5 DEF Money!PaymentSucceeds
  <2>2. /\ v7' \in Money!Standings /\ v7'.booking = v7.booking /\ v7'.payment = "paid"
        /\ v7'.disputed = v7.disputed
    BY <1>0, <2>1 DEF Money!TypeOK, Money!Standings
  <2>3. Money!TypeOK'
    BY <1>0, <1>1, <2>1, <2>2 DEF Money!TypeOK
  <2>4. Money!PayoutFollows'
    BY <1>1, <1>3, <2>1, <2>2 DEF Money!Inv, Money!PayoutFollows
  <2>5. Money!InOrder'
    BY <1>1, <1>5, <2>1, <2>2 DEF Money!Inv, Money!InOrder
  <2>6. Money!Scheduled'
    BY <1>1, <1>3, <2>1, <2>2 DEF Money!Inv, Money!Scheduled
  <2> QED BY <1>3, <2>3, <2>4, <2>5, <2>6 DEF Money!Inv
<1> QED BY <1>4, <1>5

(* A payout that a dispute or the last refund cancels. *)
LEMMA MoneyWithout ==
  ASSUME Money!TypeOK, v6' = Money!WithoutPayout
  PROVE  /\ v6' \in [status : {"none", "scheduled", "cancelled"}, amount : Int]
         /\ v6'.status # "scheduled" /\ (v6'.status = "none" <=> v6.status = "none")
BY DEF Money!TypeOK, Money!WithoutPayout

LEMMA MoneyDisputed == ASSUME Money!Inv, Money!DisputeCreated PROVE Money!Inv'
<1>0. Money!TypeOK
  BY DEF Money!Inv
<1>1. /\ v7.payment # "none" /\ UNCHANGED <<v1, v2, v3, v4, v5>> /\ v6' = Money!WithoutPayout
      /\ v7' = [v7 EXCEPT !.booking = "disputed", !.disputed = TRUE]
  BY DEF Money!DisputeCreated
<1>2. /\ v7' \in Money!Standings /\ v7'.booking = "disputed" /\ v7'.disputed
      /\ v7'.payment = v7.payment
  BY <1>0, <1>1 DEF Money!TypeOK, Money!Standings
<1>3. /\ v6' \in [status : {"none", "scheduled", "cancelled"}, amount : Int]
      /\ v6'.status # "scheduled" /\ (v6'.status = "none" <=> v6.status = "none")
  BY <1>0, <1>1, MoneyWithout
<1>4. /\ Money!TotalIsShared' /\ Money!PartsOfTotal' /\ Money!ReversedByShare'
      /\ Money!QuotedAlike' /\ (Money!Otherwise => Money!Otherwise')
  BY <1>1, MoneyStays
<1>5. Money!TypeOK'
  BY <1>0, <1>1, <1>2, <1>3 DEF Money!TypeOK
<1>6. Money!PayoutFollows'
  BY <1>2, <1>3 DEF Money!PayoutFollows
<1>7. Money!InOrder' /\ Money!Scheduled'
  BY <1>1, <1>2, <1>3, <1>4 DEF Money!Inv, Money!InOrder, Money!Scheduled
<1> QED BY <1>4, <1>5, <1>6, <1>7 DEF Money!Inv

(* A refund is asked for: nothing has succeeded by it. *)
LEMMA MoneyAsks ==
  ASSUME Money!TypeOK, NEW amount \in Nat, NEW cancels \in BOOLEAN, NEW kept \in Nat,
         Money!AsksBack(amount, cancels, kept)
  PROVE  /\ v4' \in [Money!RefundNo -> Money!Rows]
         /\ Money!Sum({"succeeded"})' = Money!Sum({"succeeded"})
         /\ \E r \in Money!RefundNo :
              /\ v4[r].status = "none"
              /\ v4'[r] = [status |-> "pending", amount |-> amount, cancels |-> cancels,
                           kept |-> kept]
              /\ \A q \in Money!RefundNo \ {r} : v4'[q] = v4[q]
<1>1. PICK r \in Money!RefundNo : /\ Money!IsNext(r)
        /\ v4' = [v4 EXCEPT ![r] = [status |-> "pending", amount |-> amount, cancels |-> cancels,
                                    kept |-> kept]]
  BY DEF Money!AsksBack
<1>2. v4[r].status = "none"
  <2>1. r \in 1..r
    BY DEF Money!RefundNo
  <2> QED BY <1>1, <2>1 DEF Money!IsNext
<1>3. v4' \in [Money!RefundNo -> Money!Rows]
  BY <1>1 DEF Money!TypeOK, Money!Rows
<1>4. /\ v4'[r] = [status |-> "pending", amount |-> amount, cancels |-> cancels, kept |-> kept]
      /\ \A q \in Money!RefundNo \ {r} : v4'[q] = v4[q]
  BY <1>1 DEF Money!TypeOK
<1>5. Money!Sum({"succeeded"})' = Money!Sum({"succeeded"})
  BY <1>2, <1>4, MoneySame DEF Money!TypeOK
<1> QED BY <1>2, <1>3, <1>4, <1>5

(* What such a step keeps, where it leaves the price and the payout alone. *)
LEMMA MoneyAsked ==
  ASSUME Money!Inv, UNCHANGED <<v1, v2, v3, v5, v6>>, v4' \in [Money!RefundNo -> Money!Rows],
         Money!Sum({"succeeded"})' = Money!Sum({"succeeded"}), v7' \in Money!Standings,
         v7'.disputed = v7.disputed
  PROVE  /\ Money!TypeOK' /\ Money!TotalIsShared' /\ Money!PartsOfTotal'
         /\ Money!ReversedByShare' /\ Money!PayoutFollows'
<1>1. Money!TypeOK'
  BY DEF Money!Inv, Money!TypeOK
<1>2. Money!ReversedByShare' /\ Money!PayoutFollows'
  BY DEF Money!Inv, Money!ReversedByShare, Money!PayoutFollows
<1>3. Money!TotalIsShared' /\ Money!PartsOfTotal'
  BY DEF Money!Inv, Money!TotalIsShared, Money!Shared, Money!PartsOfTotal
<1> QED BY <1>1, <1>2, <1>3

(* The policies give percentages. *)
LEMMA MoneyPercents ==
  ASSUME NEW tiers \in Money!StandardPolicies, NEW hours \in Money!Hours
  PROVE  Money!RefundPercentFor(tiers, hours) \in 0..100
<1> DEFINE met == {i \in DOMAIN tiers : hours >= tiers[i].cutoff}
           first == CHOOSE i \in met : \A j \in met : i <= j
<1>1. DOMAIN tiers \subseteq 1..3 /\ \A i \in DOMAIN tiers : tiers[i].percent \in 0..100
  BY DEF Money!StandardPolicies, Money!Tier
<1>2. CASE met = {}
  BY <1>2 DEF Money!RefundPercentFor
<1>3. CASE met # {}
  <2>1. met \subseteq 1..3 /\ met \subseteq DOMAIN tiers
    BY <1>1
  <2>2. \E i \in met : \A j \in met : i <= j
    <3> HIDE DEF met
    <3>1. \A j \in met : j = 1 \/ j = 2 \/ j = 3
      BY <2>1
    <3>2. CASE 1 \in met
      BY <3>1, <3>2
    <3>3. CASE 1 \notin met /\ 2 \in met
      BY <3>1, <3>3
    <3>4. CASE 1 \notin met /\ 2 \notin met
      BY <1>3, <3>1, <3>4
    <3> QED BY <3>2, <3>3, <3>4
  <2>3. first \in met
    <3> HIDE DEF met
    <3> QED BY <2>2
  <2>4. tiers[first].percent \in 0..100
    <3> HIDE DEF met, first
    <3> QED BY <1>1, <2>1, <2>3
  <2> QED BY <1>3, <2>4 DEF Money!RefundPercentFor
<1> QED BY <1>2, <1>3

LEMMA MoneyCancels ==
  ASSUME Money!Inv, NEW percent \in 0..100, Money!CancelBooking(percent)
  PROVE  Money!Inv'
<1>0. Money!TypeOK
  BY DEF Money!Inv
<1>1. /\ v7.booking \in {"confirmed", "pending_payment"} /\ UNCHANGED <<v1, v2, v3, v5, v6>>
      /\ v7' = [v7 EXCEPT !.booking = "cancelled"]
  BY DEF Money!CancelBooking
<1>2. /\ v7' \in Money!Standings /\ v7'.booking = "cancelled" /\ v7'.payment = v7.payment
      /\ v7'.disputed = v7.disputed
  BY <1>0, <1>1 DEF Money!TypeOK, Money!Standings
<1>3. CASE UNCHANGED v4
  <2>1. /\ Money!Sum({"succeeded"})' = Money!Sum({"succeeded"}) /\ Money!QuotedAlike'
        /\ (Money!Otherwise => Money!Otherwise')
    BY <1>1, <1>3, MoneyStays
  <2>2. v4' \in [Money!RefundNo -> Money!Rows]
    BY <1>0, <1>3 DEF Money!TypeOK
  <2>3. Money!InOrder' /\ Money!Scheduled'
    BY <1>1, <1>2, <1>3, <2>1 DEF Money!Inv, Money!InOrder, Money!Scheduled
  <2> QED BY <1>1, <1>2, <2>1, <2>2, <2>3, MoneyAsked DEF Money!Inv
<1>4. CASE /\ Money!Refundable(percent) > 0 /\ v7.payment = "paid"
           /\ Money!AsksBack(Money!Refundable(percent), TRUE, Money!HostRetained(percent))
  <2>1. v3 \in Money!Prices /\ v7.booking = "confirmed"
    BY <1>0, <1>1, <1>4 DEF Money!TypeOK, Money!Inv, Money!InOrder
  <2>2. v3.total * percent \in Nat /\ v3.payout * (100 - percent) \in Nat
    <3>1. v3.total \in Nat /\ v3.payout \in Nat /\ percent \in Nat /\ 100 - percent \in Nat
      BY <2>1 DEF Money!Prices
    <3> QED BY <3>1
  <2>3. Money!Refundable(percent) \in Nat /\ Money!HostRetained(percent) \in Nat
    <3> DEFINE f == v3.total * percent
               g == v3.payout * (100 - percent)
    <3>1. Money!Refundable(percent) = Money!Round(f, 100)
          /\ Money!HostRetained(percent) = Money!Round(g, 100)
      BY DEF Money!Refundable, Money!HostRetained
    <3>2. f \in Nat /\ g \in Nat
      BY <2>2
    <3> HIDE DEF f, g
    <3> QED BY <3>1, <3>2, MoneyRound
  <2>4. v4' \in [Money!RefundNo -> Money!Rows]
        /\ Money!Sum({"succeeded"})' = Money!Sum({"succeeded"})
    BY <1>0, <1>4, <2>3, MoneyAsks
  <2> DEFINE amount == Money!Refundable(percent)
             kept == Money!HostRetained(percent)
  <2>a. PICK r \in Money!RefundNo :
          /\ v4[r].status = "none"
          /\ v4'[r] = [status |-> "pending", amount |-> amount, cancels |-> TRUE, kept |-> kept]
          /\ \A q \in Money!RefundNo \ {r} : v4'[q] = v4[q]
    <3> HIDE DEF amount, kept
    <3>1. amount \in Nat /\ kept \in Nat /\ Money!AsksBack(amount, TRUE, kept)
      BY <1>4, <2>3 DEF amount, kept
    <3> QED BY <1>0, <3>1, MoneyAsks
  <2>5. /\ v4'[r].status = "pending" /\ v4'[r].amount = Money!Refundable(percent)
        /\ v4'[r].kept = Money!HostRetained(percent)
    BY <2>a
  <2>6. \A p \in 0..100 : /\ Money!Refundable(p)' = Money!Refundable(p)
                          /\ Money!HostRetained(p)' = Money!HostRetained(p)
    BY <1>1 DEF Money!Refundable, Money!HostRetained
  <2>7. Money!QuotedAlike'
    BY <2>a, <2>5, <2>6 DEF Money!Inv, Money!QuotedAlike
  <2>8. Money!InOrder'
    BY <1>1, <1>2, <1>4, <2>1, <2>a, <2>5 DEF Money!Inv, Money!InOrder
  <2>9. Money!Otherwise => Money!Otherwise'
    BY <2>a DEF Money!Otherwise
  <2>10. Money!Scheduled'
    BY <1>1, <1>2, <2>1, <2>9 DEF Money!Inv, Money!Scheduled
  <2> QED BY <1>1, <1>2, <2>4, <2>7, <2>8, <2>10, MoneyAsked DEF Money!Inv
<1> QED BY <1>3, <1>4 DEF Money!CancelBooking

LEMMA MoneyAdminRefunds ==
  ASSUME Money!Inv, v3 # Money!Unpriced, NEW amount \in Slices \cup {Money!Remaining},
         Money!AdminRefund(amount)
  PROVE  Money!Inv'
<1>0. Money!TypeOK
  BY DEF Money!Inv
<1>1. v3.total \in Nat
  BY <1>0 DEF Money!TypeOK, Money!Prices
<1>2. Money!Remaining \in Int
  BY <1>0, <1>1, MoneyUnitsAreFinite DEF Money!Remaining, Money!TypeOK
<1>3. /\ v7.payment # "none" /\ UNCHANGED <<v1, v2, v3, v5, v6, v7>> /\ amount > 0
      /\ Money!AsksBack(amount, FALSE, 0)
  BY DEF Money!AdminRefund
<1>4. amount \in Nat
  BY <1>0, <1>2, <1>3, MoneyConstants
<1>5. v4' \in [Money!RefundNo -> Money!Rows]
      /\ Money!Sum({"succeeded"})' = Money!Sum({"succeeded"})
  BY <1>0, <1>3, <1>4, MoneyAsks
<1>a. PICK r \in Money!RefundNo :
        /\ v4[r].status = "none"
        /\ v4'[r] = [status |-> "pending", amount |-> amount, cancels |-> FALSE, kept |-> 0]
        /\ \A q \in Money!RefundNo \ {r} : v4'[q] = v4[q]
  BY <1>0, <1>3, <1>4, MoneyAsks
<1>6. v4'[r].status = "pending" /\ v4'[r].amount = amount /\ v4'[r].cancels = FALSE
  BY <1>a
<1>7. \A p \in 0..100 : /\ Money!Refundable(p)' = Money!Refundable(p)
                        /\ Money!HostRetained(p)' = Money!HostRetained(p)
  BY <1>3 DEF Money!Refundable, Money!HostRetained
<1>8. Money!QuotedAlike'
  BY <1>a, <1>6, <1>7 DEF Money!Inv, Money!QuotedAlike
<1>9. Money!InOrder'
  BY <1>3, <1>a, <1>6 DEF Money!Inv, Money!InOrder
<1>10. Money!Otherwise => Money!Otherwise'
  BY <1>a, <1>6 DEF Money!Otherwise
<1>11. Money!Scheduled'
  BY <1>3, <1>a, <1>6, <1>10 DEF Money!Inv, Money!Scheduled
<1>12. v7' \in Money!Standings /\ v7'.disputed = v7.disputed
  BY <1>0, <1>3 DEF Money!TypeOK
<1> QED BY <1>3, <1>5, <1>8, <1>9, <1>11, <1>12, MoneyAsked DEF Money!Inv

(* A refund succeeds: what is reversed becomes the share of all that was refunded. *)
LEMMA MoneyRefunded ==
  ASSUME Money!Inv, NEW r \in Money!RefundNo, Money!RefundSucceeds(r)
  PROVE  Money!Inv'
<1> DEFINE T == v3.total
           old == Money!Sum({"succeeded"})
           new == old + v4[r].amount
           share(c, s) == Money!Round(v3[c] * s, T)
<1>0. Money!TypeOK
  BY DEF Money!Inv
<1>1. v4[r].status = "pending" /\ v4[r].amount \in Nat /\ v4[r].amount > 0
  BY <1>0 DEF Money!RefundSucceeds, Money!Inv, Money!TypeOK, Money!InOrder, Money!Rows
<1>2. v7.payment # "none" /\ v7.booking # "none" /\ v3 \in Money!Prices
  BY <1>0, <1>1 DEF Money!Inv, Money!TypeOK, Money!InOrder
<1>3. T \in Nat /\ \A c \in Money!CategoryKeys : v3[c] \in Nat
  BY <1>2 DEF Money!Prices, Money!CategoryKeys
<1>4. old \in Nat /\ new \in Nat /\ new > old /\ new <= T /\ T > 0
  <2>1. old \in Nat /\ new <= T
    BY <1>0, MoneyUnitsAreFinite DEF Money!TypeOK, Money!RefundSucceeds
  <2> HIDE DEF old, T
  <2> QED BY <1>1, <1>3, <2>1
<1>5. UNCHANGED <<v1, v2, v3>> /\ v4' = [v4 EXCEPT ![r].status = "succeeded"]
  BY DEF Money!RefundSucceeds
<1>6. Money!Sum({"succeeded"})' = new
  BY <1>0, <1>1, <1>5, MoneyGrows DEF Money!TypeOK
<1>7. /\ v4' \in [Money!RefundNo -> Money!Rows]
      /\ \A q \in Money!RefundNo :
           /\ v4'[q].amount = v4[q].amount /\ v4'[q].cancels = v4[q].cancels
           /\ v4'[q].kept = v4[q].kept
           /\ v4[q].status = "succeeded" => v4'[q].status = "succeeded"
           /\ v4'[q].status = "none" <=> v4[q].status = "none"
  BY <1>0, <1>1, <1>5 DEF Money!TypeOK, Money!Rows
<1>8. \A c \in Money!CategoryKeys :
        /\ share(c, new) \in Nat /\ v5[c] \in Nat /\ v5[c] <= share(c, new)
  <2> TAKE c \in Money!CategoryKeys
  <2> DEFINE m == v3[c] * old
             n == v3[c] * new
  <2>1. m \in Nat /\ n \in Nat /\ m <= n
    <3> HIDE DEF old, new
    <3> QED BY <1>3, <1>4
  <2>2. Money!Round(m, T) \in Nat /\ Money!Round(n, T) \in Nat
        /\ Money!Round(m, T) <= Money!Round(n, T)
    <3> HIDE DEF m, n, T
    <3> QED BY <1>3, <1>4, <2>1, MoneyRound, MoneyRoundGrows
  <2>3. v5[c] = 0 \/ v5[c] = Money!Round(m, T)
    BY <1>4 DEF Money!Inv, Money!ReversedByShare
  <2> QED BY <2>2, <2>3
<1>9. v5' = [c \in Money!CategoryKeys |-> v5[c] + (share(c, new) - v5[c])]
  BY DEF Money!RefundSucceeds, Money!Increment
<1>10. \A c \in Money!CategoryKeys : v5'[c] = share(c, new)
  <2> TAKE c \in Money!CategoryKeys
  <2>1. v5'[c] = v5[c] + (share(c, new) - v5[c])
    BY <1>9
  <2> HIDE DEF share
  <2> QED BY <1>8, <2>1
<1>11. v5' \in [Money!CategoryKeys -> Int]
  <2>1. DOMAIN v5' = Money!CategoryKeys
    BY <1>9
  <2>2. v5' = [c \in Money!CategoryKeys |-> v5'[c]]
    BY <1>9
  <2>3. \A c \in Money!CategoryKeys : v5'[c] \in Int
    <3> HIDE DEF share
    <3> QED BY <1>8, <1>10
  <2> QED BY <2>2, <2>3
<1>12. Money!ReversedByShare'
  <2>1. v3' # Money!Unpriced /\ v3' = v3
    BY <1>2, <1>5 DEF Money!Prices, Money!Unpriced
  <2> QED BY <1>4, <1>5, <1>6, <1>10, <2>1 DEF Money!ReversedByShare
<1>13. "payout" \in Money!CategoryKeys
  BY DEF Money!CategoryKeys
<1> DEFINE rest == share("payout", new) - v5["payout"]
<1>14. rest \in Nat
  <2> HIDE DEF share
  <2> QED BY <1>8, <1>13
<1>15. v6' = IF new = T THEN Money!WithoutPayout
             ELSE IF v6.status # "scheduled" THEN v6
             ELSE [v6 EXCEPT !.amount = @ - (IF rest > 0 THEN rest ELSE 0)]
  BY <1>13 DEF Money!RefundSucceeds, Money!Increment
<1>16. v6 \in [status : {"none", "scheduled", "cancelled"}, amount : Int]
  BY <1>0 DEF Money!TypeOK
<1>17. v6.status = "scheduled" => v6.amount = v3.payout - v5["payout"]
  BY DEF Money!Inv, Money!PayoutFollows
<1>18. /\ v6' \in [status : {"none", "scheduled", "cancelled"}, amount : Int]
       /\ v6'.status = "none" <=> v6.status = "none"
       /\ v6'.status = "scheduled" => v6.status = "scheduled" /\ v6'.amount = v6.amount - rest
       /\ v6'.status = "cancelled" => new = T \/ v6.status = "cancelled"
  <2> HIDE DEF rest, new, T
  <2>1. CASE new = T
    BY <1>0, <1>15, <2>1, MoneyWithout
  <2>2. CASE new # T /\ v6.status # "scheduled"
    BY <1>15, <1>16, <2>2
  <2>3. CASE new # T /\ v6.status = "scheduled"
    <3>1. PICK left \in Int : left = v6.amount - rest
      BY <1>14, <1>16
    <3>2. v6' = [v6 EXCEPT !.amount = left]
      BY <1>14, <1>15, <1>16, <2>3, <3>1
    <3> QED BY <1>16, <2>3, <3>1, <3>2
  <2> QED BY <2>1, <2>2, <2>3
<1>19. v6.status = "scheduled" => v6.amount - rest = v3.payout - v5'["payout"]
  <2>1. v5'["payout"] = share("payout", new) /\ share("payout", new) \in Int /\ v5["payout"] \in Int
    BY <1>8, <1>10, <1>13
  <2>2. v3.payout \in Int
    BY <1>2 DEF Money!Prices
  <2> HIDE DEF share
  <2> QED BY <1>17, <2>1, <2>2
<1>a. /\ v7' \in Money!Standings /\ v7'.booking \in {"refunded", "confirmed"}
      /\ v7'.payment # "none" /\ v7'.disputed = v7.disputed
  <2>1. PICK bk \in {"refunded", "confirmed"}, pm \in {"refunded", "partially_refunded"} :
          v7' = [v7 EXCEPT !.payment = pm, !.booking = bk]
    BY ZenonT(60) DEF Money!RefundSucceeds
  <2> QED BY <1>0, <2>1 DEF Money!TypeOK, Money!Standings
<1>20. Money!PayoutFollows'
  <2> HIDE DEF rest, share, old, new, T
  <2>1. v6.status = "cancelled" => v7.disputed
    <3>1. old # T
      BY <1>3, <1>4 DEF T
    <3> QED BY <3>1 DEF Money!Inv, Money!PayoutFollows, old, T
  <2>2. v3'.total = T /\ v3'.payout = v3.payout
    BY <1>5 DEF T
  <2> QED BY <1>4, <1>6, <1>18, <1>19, <1>a, <2>1, <2>2 DEF Money!PayoutFollows
<1>21. Money!TypeOK'
  BY <1>0, <1>5, <1>7, <1>11, <1>18, <1>a DEF Money!TypeOK
<1>22. Money!TotalIsShared' /\ Money!PartsOfTotal'
  BY <1>5 DEF Money!Inv, Money!TotalIsShared, Money!Shared, Money!PartsOfTotal
<1>23. Money!InOrder'
  <2>1. v3' # Money!Unpriced
    BY <1>2, <1>5 DEF Money!Prices, Money!Unpriced
  <2> QED BY <1>7, <1>a, <2>1 DEF Money!Inv, Money!InOrder
<1>b. Money!Scheduled'
  <2>1. Money!Otherwise => Money!Otherwise'
    BY <1>7 DEF Money!Otherwise
  <2>2. ~v4[r].cancels => Money!Otherwise'
    <3>1. v4'[r].status = "succeeded"
      BY <1>0, <1>5 DEF Money!TypeOK
    <3> QED BY <1>7, <3>1 DEF Money!Otherwise
  <2>3. v6'.status # "none" \/ Money!Otherwise'
    BY <1>18, <2>1, <2>2 DEF Money!Inv, Money!Scheduled
  <2> QED BY <2>3 DEF Money!Scheduled
<1>24. Money!QuotedAlike'
  <2>1. \A p \in 0..100 : /\ Money!Refundable(p)' = Money!Refundable(p)
                          /\ Money!HostRetained(p)' = Money!HostRetained(p)
    BY <1>5, SMTT(30) DEF Money!Refundable, Money!HostRetained
  <2> QED BY <1>7, <2>1 DEF Money!Inv, Money!QuotedAlike
<1> HIDE DEF T, old, new, share, rest
<1> QED BY <1>12, <1>20, <1>21, <1>22, <1>23, <1>24, <1>b DEF Money!Inv

LEMMA MoneyStep == Money!Inv /\ [Money!Next]_(Money!moneyVars) => Money!Inv'
<1> SUFFICES ASSUME Money!Inv, [Money!Next]_(Money!moneyVars) PROVE Money!Inv'
  OBVIOUS
<1>0. v1 \in Money!Offers /\ v2 \in {"v1", Money!Launch}
  BY DEF Money!Inv, Money!TypeOK
<1>1. CASE UNCHANGED Money!moneyVars
  BY <1>0, <1>1, MoneyOffers DEF Money!moneyVars
<1>2. CASE Money!SetRates \/ Money!Publish \/ Money!ActivateLaunchFees
  <2>1. v1' \in Money!Offers
    BY <1>0, <1>2 DEF Money!SetRates, Money!Publish, Money!ActivateLaunchFees, Money!Offers
  <2> QED BY <1>0, <1>2, <2>1, MoneyOffers
          DEF Money!SetRates, Money!Publish, Money!ActivateLaunchFees
<1>3. ASSUME NEW tiers \in Money!StandardPolicies, NEW hours \in Money!Hours,
             Money!CancelBooking(Money!RefundPercentFor(tiers, hours))
      PROVE  Money!Inv'
  BY <1>3, MoneyPercents, MoneyCancels
<1>4. ASSUME v3 # Money!Unpriced,
             \E amount \in Slices \cup {Money!Remaining} : Money!AdminRefund(amount)
      PROVE  Money!Inv'
  BY <1>4, MoneyAdminRefunds
<1>5. ASSUME NEW n \in PricedNights, Money!CreateBooking(n) PROVE Money!Inv'
  BY <1>5, MoneyCreates
<1>6. ASSUME NEW r \in Money!RefundNo, Money!RefundSucceeds(r) PROVE Money!Inv'
  BY <1>6, MoneyRefunded
<1>7. CASE Money!Next
  BY <1>2, <1>3, <1>4, <1>5, <1>6, <1>7, MoneyPays, MoneyDisputed DEF Money!Next
<1> QED BY <1>1, <1>7

(* What the invariant says of the amounts. *)
LEMMA MoneyReversals == Money!Inv => Money!ReversalsAddUp
<1> DEFINE R == Money!Sum({"succeeded"})
           T == v3.total
<1> SUFFICES ASSUME Money!Inv, v3 # Money!Unpriced
             PROVE  /\ \A c \in Money!CategoryKeys : v5[c] \in 0..v3[c]
                    /\ R = T => \A c \in Money!CategoryKeys : v5[c] = v3[c]
                    /\ Money!Near(R, Money!Shared(v5))
  BY DEF Money!ReversalsAddUp
<1>0. Money!TypeOK
  BY DEF Money!Inv
<1>1. v3 \in Money!Prices /\ R \in Nat
  BY <1>0, MoneyUnitsAreFinite DEF Money!TypeOK
<1>2. T \in Nat /\ \A c \in Money!CategoryKeys : v3[c] \in Nat /\ v3[c] <= T
  BY <1>1 DEF Money!Prices, Money!CategoryKeys, Money!Inv, Money!PartsOfTotal
<1>3. CASE R = 0
  <2>1. \A c \in Money!CategoryKeys : v5[c] = 0
    BY <1>3 DEF Money!Inv, Money!ReversedByShare
  <2>2. Money!Shared(v5) = 0
    BY <2>1 DEF Money!Shared, Money!CategoryKeys
  <2>3. T = 0 => \A c \in Money!CategoryKeys : v3[c] = 0
    BY <1>2
  <2> HIDE DEF R, T
  <2> QED BY <1>2, <1>3, <2>1, <2>2, <2>3, MoneyNear
<1>4. CASE R > 0
  <2>1. R <= T /\ T > 0
    BY <1>1, <1>2, <1>4 DEF Money!Inv, Money!ReversedByShare
  <2>2. \A c \in Money!CategoryKeys : v5[c] = Money!Round(v3[c] * R, T)
    BY <1>4 DEF Money!Inv, Money!ReversedByShare
  <2> HIDE DEF R, T
  <2>3. ASSUME NEW c \in Money!CategoryKeys
        PROVE  v5[c] \in 0..v3[c] /\ (R = T => v5[c] = v3[c])
    <3> DEFINE p == v3[c]
               m == p * R
               n == p * T
    <3>1. p \in Nat
      BY <1>2
    <3>2. m \in Nat /\ n \in Nat /\ m <= n /\ (R = T => m = n)
      <4> HIDE DEF p
      <4> QED BY <1>1, <1>2, <2>1, <3>1
    <3>3. Money!Round(n, T) = p
      <4> HIDE DEF p
      <4> QED BY <1>2, <2>1, <3>1, MoneyRoundExact
    <3>4. v5[c] = Money!Round(m, T)
      BY <2>2
    <3> HIDE DEF p, m, n
    <3>5. Money!Round(m, T) \in Nat /\ Money!Round(m, T) <= Money!Round(n, T)
      BY <1>2, <2>1, <3>2, MoneyRound, MoneyRoundGrows
    <3>6. v5[c] \in 0..p /\ (R = T => v5[c] = p)
      BY <3>1, <3>2, <3>3, <3>4, <3>5
    <3> QED BY <3>6 DEF p
  <2>4. Money!Near(R, Money!Shared(v5))
    <3> DEFINE p == v3["payout"]
               q == v3["revenue"]
               s == IF v3.version = "v1" THEN v3["taxes"] ELSE 0
               a == v5["payout"]
               b == v5["revenue"]
               c == IF v3.version = "v1" THEN v5["taxes"] ELSE 0
    <3>1. p \in Nat /\ q \in Nat /\ s \in Nat /\ p + q + s = T
      BY <1>1 DEF Money!Prices, Money!Inv, Money!TotalIsShared, Money!Shared, T
    <3>2. {"payout", "revenue", "taxes"} \subseteq Money!CategoryKeys
      BY DEF Money!CategoryKeys
    <3>3. a \in Nat /\ b \in Nat /\ v5["taxes"] \in Nat
      BY <1>2, <2>3, <3>2
    <3>4. a = Money!Round(p * R, T) /\ b = Money!Round(q * R, T)
      BY <2>2, <3>2
    <3>5. c \in Nat /\ c = Money!Round(s * R, T)
      <4>1. CASE v3.version = "v1"
        BY <2>2, <3>2, <3>3, <4>1
      <4>2. CASE v3.version # "v1"
        <5>1. 0 * R = 0 /\ Money!Round(0, T) = 0
          BY <1>1, <1>2, <2>1, MoneyRoundExact
        <5> QED BY <4>2, <5>1
      <4> QED BY <4>1, <4>2
    <3>6. Money!Shared(v5) = a + b + c
      BY DEF Money!Shared
    <3> HIDE DEF p, q, s, a, b, c
    <3>7. Money!Near(R, a + b + c)
      BY <1>1, <1>2, <2>1, <3>1, <3>3, <3>4, <3>5, MoneyShares
    <3> QED BY <3>6, <3>7
  <2> QED BY <2>3, <2>4
<1> HIDE DEF R
<1> QED BY <1>1, <1>3, <1>4

LEMMA MoneyKept == Money!Inv => Money!RetainedIsPaid
<1> SUFFICES ASSUME Money!Inv, ~v7.disputed,
                    NEW r \in Money!RefundNo, v4[r].cancels, Money!OnlyRefund(r)
             PROVE  Money!Near(Money!Paid, v4[r].kept)
  BY DEF Money!RetainedIsPaid
<1>0. Money!TypeOK
  BY DEF Money!Inv
<1>1. v4[r].status = "succeeded" /\ \A q \in Money!RefundNo : v4[q].status = "succeeded" => q = r
  BY DEF Money!OnlyRefund
<1>2. PICK percent \in 0..100 :
        v4[r].amount = Money!Refundable(percent) /\ v4[r].kept = Money!HostRetained(percent)
  BY DEF Money!Inv, Money!QuotedAlike
<1> DEFINE T == v3.total
           P == v3["payout"]
           R == v4[r].amount
           a == v5["payout"]
           k == v4[r].kept
<1>3. Money!Sum({"succeeded"}) = R
  BY <1>0, <1>1, MoneyOne DEF Money!TypeOK
<1>4. R \in Nat /\ R > 0 /\ k \in Nat
  BY <1>0 DEF Money!TypeOK, Money!Rows, Money!Inv, Money!InOrder
<1>5. v3 # Money!Unpriced /\ R <= T /\ a = Money!Round(P * R, T)
  BY <1>3, <1>4 DEF Money!Inv, Money!ReversedByShare, Money!CategoryKeys
<1>6. v3 \in Money!Prices
  BY <1>0, <1>5 DEF Money!TypeOK
<1>7. T \in Nat /\ P \in Nat /\ P <= T
  BY <1>5, <1>6 DEF Money!Prices, Money!CategoryKeys, Money!Inv, Money!PartsOfTotal
<1>8. a \in Nat
  BY <1>5, MoneyReversals, <1>6, <1>7 DEF Money!ReversalsAddUp, Money!CategoryKeys
<1>9. R = Money!Round(T * percent, 100) /\ k = Money!Round(P * (100 - percent), 100)
  BY <1>2 DEF Money!Refundable, Money!HostRetained
<1>10. Money!Near(P - a, k)
  <2> HIDE DEF T, P, R, a, k
  <2>1. T > 0
    BY <1>4, <1>5, <1>7
  <2> QED BY <1>4, <1>5, <1>7, <1>8, <1>9, <2>1, MoneyRetained
<1>11. Money!Paid = P - a
  <2>1. v6.status \in {"scheduled", "cancelled"}
    <3>1. ~Money!Otherwise
      BY <1>1 DEF Money!Otherwise
    <3> QED BY <1>0, <3>1 DEF Money!TypeOK, Money!Inv, Money!Scheduled
  <2>2. CASE v6.status = "scheduled"
    BY <2>2 DEF Money!Paid, Money!Inv, Money!PayoutFollows
  <2>3. CASE v6.status = "cancelled"
    <3>1. R = T
      BY <1>3, <2>3 DEF Money!Inv, Money!PayoutFollows
    <3>2. a = P
      <4> HIDE DEF T, P, R, a
      <4> QED BY <1>4, <1>5, <1>7, <3>1, MoneyRoundExact
    <3>3. Money!Paid = 0
      BY <2>3 DEF Money!Paid
    <3> HIDE DEF P, a
    <3> QED BY <1>7, <3>2, <3>3
  <2> QED BY <2>1, <2>2, <2>3
<1> HIDE DEF P, a
<1> QED BY <1>10, <1>11

-----------------------------------------------------------------------------
(* Onboarding.  Its types.                                                 *)

LEMMA OnboardingTypeInit ==
  ASSUME Onboarding!OnboardingAssumption
  PROVE  Onboarding!Init => Onboarding!TypeOK
<1> SUFFICES ASSUME Onboarding!Init PROVE Onboarding!TypeOK
  OBVIOUS
<1>1. v1 \in Onboarding!Profiles
  <2>1. /\ Onboarding!NoProfile \in Onboarding!Profiles
        /\ \A a \in Things : Onboarding!HostOfBefore(a) \in Onboarding!Profiles
    BY
       DEF Onboarding!NoProfile, Onboarding!HostOfBefore, Onboarding!Profiles,
           Onboarding!Readiness
  <2> QED BY <2>1 DEF Onboarding!Init
<1>2. v2 \in [Things -> Onboarding!Readiness \cup {"absent"}]
  BY DEF Onboarding!Init, Onboarding!Readiness
<1>3. v3 \in [Twins -> Onboarding!VisitStates]
  BY
     DEF Onboarding!Init, Onboarding!Idle, Onboarding!VisitStates, Onboarding!Readiness,
         Onboarding!Steps
<1>4. v4 \in [StripeEvents -> [account : Things \cup {NoAccount}, status : Onboarding!Readiness]]
  BY DEF Onboarding!Init, Onboarding!Readiness
<1> QED BY <1>1, <1>2, <1>3, <1>4
           DEF Onboarding!TypeOK, Onboarding!Profiles, Onboarding!VisitStates

(* Moving a request on to another step leaves the rest of it.              *)
LEMMA OnboardingStepTyped ==
  ASSUME Onboarding!TypeOK, NEW v \in Twins, NEW step \in Onboarding!Steps, Onboarding!Step(v, step)
  PROVE  /\ v3' \in [Twins -> Onboarding!VisitStates]
         /\ v3'[v].step = step /\ v3'[v].account = v3[v].account
         /\ \A u \in Twins \ {v} : v3'[u] = v3[u]
<1>1. v3 \in [Twins -> Onboarding!VisitStates] /\ v3[v] \in Onboarding!VisitStates
  BY DEF Onboarding!TypeOK, Onboarding!VisitStates, Onboarding!Profiles
<1>2. [v3[v] EXCEPT !.step = step] \in Onboarding!VisitStates
      /\ [v3[v] EXCEPT !.step = step].step = step
      /\ [v3[v] EXCEPT !.step = step].account = v3[v].account
  BY <1>1 DEF Onboarding!VisitStates
<1>3. v3' = [v3 EXCEPT ![v] = [v3[v] EXCEPT !.step = step]]
  BY DEF Onboarding!Step
<1> QED BY <1>1, <1>2, <1>3

LEMMA OnboardingRoute ==
  ASSUME Onboarding!TypeOK, NEW v \in Twins,
         \/ Onboarding!HandleContinue(v) \/ Onboarding!HandleResume(v)
         \/ Onboarding!ConnectAccountRoute(v)
  PROVE  Onboarding!TypeOK'
<1> USE DEF Onboarding!Steps
<1>1. v3[v] \in Onboarding!VisitStates /\ v1 \in Onboarding!Profiles
  BY DEF Onboarding!TypeOK, Onboarding!VisitStates, Onboarding!Profiles
<1>2. CASE \/ Onboarding!HandleContinue(v) \/ Onboarding!HandleResume(v)
           \/ Onboarding!KeepAccount(v) \/ Onboarding!CreateLink(v) \/ Onboarding!Fail(v)
  BY <1>2, OnboardingStepTyped
     DEF Onboarding!HandleContinue, Onboarding!HandleResume, Onboarding!Post,
         Onboarding!Valid, Onboarding!KeepAccount, Onboarding!CreateLink, Onboarding!Fail,
         Onboarding!TypeOK, Onboarding!VisitStates, Onboarding!Profiles
<1>3. CASE Onboarding!EnsureHostProfile(v) \/ Onboarding!RecordHostAgreementAcceptance(v)
  <2>1. v1' \in Onboarding!Profiles
    BY <1>1, <1>3
       DEF Onboarding!EnsureHostProfile, Onboarding!RecordHostAgreementAcceptance,
           Onboarding!Profiles
  <2>2. v3' \in [Twins -> Onboarding!VisitStates] /\ UNCHANGED <<v2, v4>>
    BY <1>3, OnboardingStepTyped
       DEF Onboarding!EnsureHostProfile, Onboarding!RecordHostAgreementAcceptance
  <2> QED BY <2>1, <2>2 DEF Onboarding!TypeOK, Onboarding!Profiles, Onboarding!VisitStates
<1>4. ASSUME NEW a \in Things, Onboarding!CreateAccount(v, a)
      PROVE  Onboarding!TypeOK'
  <2>1. v2' \in [Things -> Onboarding!Readiness \cup {"absent"}]
    BY <1>4
       DEF Onboarding!CreateAccount, Onboarding!TypeOK, Onboarding!Readiness,
           Onboarding!Profiles, Onboarding!VisitStates
  <2>2. v3' \in [Twins -> Onboarding!VisitStates]
    BY <1>4
       DEF Onboarding!CreateAccount, Onboarding!TypeOK, Onboarding!VisitStates,
           Onboarding!Readiness, Onboarding!Profiles
  <2> QED BY <1>4, <2>1, <2>2
             DEF Onboarding!CreateAccount, Onboarding!TypeOK, Onboarding!VisitStates,
                 Onboarding!Profiles
<1>5. CASE Onboarding!RecordAccount(v)
  <2>1. v1' \in Onboarding!Profiles
    BY <1>1, <1>5
       DEF Onboarding!RecordAccount, Onboarding!Profiles, Onboarding!VisitStates,
           Onboarding!Readiness
  <2>2. v3' \in [Twins -> Onboarding!VisitStates] /\ UNCHANGED <<v2, v4>>
    BY <1>5, OnboardingStepTyped DEF Onboarding!RecordAccount
  <2> QED BY <2>1, <2>2 DEF Onboarding!TypeOK, Onboarding!Profiles, Onboarding!VisitStates
<1>6. CASE Onboarding!Return(v)
  BY <1>6
     DEF Onboarding!Return, Onboarding!Idle, Onboarding!TypeOK, Onboarding!Readiness,
         Onboarding!Profiles, Onboarding!VisitStates
<1> QED BY <1>2, <1>3, <1>4, <1>5, <1>6
           DEF Onboarding!ConnectAccountRoute, Onboarding!StartHostConnectOnboarding

LEMMA OnboardingReadiness ==
  ASSUME Onboarding!OnboardingAssumption, Onboarding!TypeOK, Onboarding!KnownAtStripe,
         \/ \E v \in Twins : Onboarding!GetHostOnboardingStatus(v)
         \/ \E a \in Things, ready \in Onboarding!Readiness : Onboarding!BecomeReady(a, ready)
         \/ \E e \in StripeEvents : Onboarding!HandleStripeV2ThinEvent(e)
  PROVE  Onboarding!TypeOK'
<1>1. v1 \in Onboarding!Profiles
  BY DEF Onboarding!TypeOK, Onboarding!Profiles, Onboarding!VisitStates
<1>2. ASSUME NEW v \in Twins, Onboarding!AskStripe(v)
      PROVE  Onboarding!TypeOK'
  <2>1. v1.account \in Things /\ v2[v1.account] \in Onboarding!Readiness
    BY <1>1, <1>2
       DEF Onboarding!AskStripe, Onboarding!Profiles, Onboarding!KnownAtStripe,
           Onboarding!TypeOK, Onboarding!VisitStates
  <2> QED BY <1>2, <2>1
             DEF Onboarding!AskStripe, Onboarding!TypeOK, Onboarding!Steps,
                 Onboarding!Profiles, Onboarding!VisitStates
<1>3. ASSUME NEW v \in Twins, Onboarding!WriteStatus(v)
      PROVE  Onboarding!TypeOK'
  <2>1. v3[v].status \in Onboarding!Readiness
    BY DEF Onboarding!TypeOK, Onboarding!Profiles, Onboarding!VisitStates
  <2>2. v1' \in Onboarding!Profiles
    BY <1>1, <1>3, <2>1 DEF Onboarding!WriteStatus, Onboarding!Profiles
  <2> QED BY <1>3, <2>2
             DEF Onboarding!WriteStatus, Onboarding!Idle, Onboarding!TypeOK,
                 Onboarding!Profiles, Onboarding!Readiness, Onboarding!Steps,
                 Onboarding!VisitStates
<1>4. ASSUME NEW a \in Things, NEW ready \in Onboarding!Readiness, Onboarding!BecomeReady(a, ready)
      PROVE  Onboarding!TypeOK'
  BY <1>4
     DEF Onboarding!BecomeReady, Onboarding!TypeOK, Onboarding!Profiles,
         Onboarding!VisitStates
<1>5. ASSUME NEW e \in StripeEvents, NEW a \in Things, Onboarding!ReadEvent(e, a)
      PROVE  Onboarding!TypeOK'
  BY <1>5
     DEF Onboarding!ReadEvent, Onboarding!TypeOK, Onboarding!Profiles, Onboarding!VisitStates
<1>6. ASSUME NEW e \in StripeEvents, Onboarding!WriteEvent(e)
      PROVE  Onboarding!TypeOK'
  <2>1. v1' \in Onboarding!Profiles
    BY <1>1, <1>6
       DEF Onboarding!WriteEvent, Onboarding!Profiles, Onboarding!TypeOK,
           Onboarding!VisitStates
  <2>2. v4' \in [StripeEvents -> [account : Things \cup {NoAccount}, status : Onboarding!Readiness]]
    BY <1>6
       DEF Onboarding!WriteEvent, Onboarding!TypeOK, Onboarding!Profiles,
           Onboarding!VisitStates
  <2> QED BY <1>6, <2>1, <2>2
             DEF Onboarding!WriteEvent, Onboarding!TypeOK, Onboarding!Profiles,
                 Onboarding!VisitStates
<1> QED BY <1>2, <1>3, <1>4, <1>5, <1>6
           DEF Onboarding!GetHostOnboardingStatus, Onboarding!HandleStripeV2ThinEvent

LEMMA OnboardingTypeStep ==
  ASSUME Onboarding!OnboardingAssumption, Onboarding!TypeOK, Onboarding!KnownAtStripe,
         [Onboarding!Next]_(Onboarding!vars)
  PROVE  Onboarding!TypeOK'
<1>1. CASE UNCHANGED Onboarding!vars
  BY <1>1 DEF Onboarding!vars, Onboarding!TypeOK, Onboarding!Profiles, Onboarding!VisitStates
<1> QED BY <1>1, OnboardingRoute, OnboardingReadiness DEF Onboarding!Next

-----------------------------------------------------------------------------
(* The agreement.                                                          *)

LEMMA OnboardingAgreementInit ==
  ASSUME Onboarding!OnboardingAssumption
  PROVE  Onboarding!Init => Onboarding!KnownAtStripe /\ Onboarding!PastAgreement
BY
   DEF Onboarding!Init, Onboarding!NoProfile, Onboarding!HostOfBefore, Onboarding!Idle,
       Onboarding!KnownAtStripe, Onboarding!PastAgreement

\* A step that leaves the profile's account and agreement, forgets no account and takes
\* no request to where the agreement or the account counts.
OnboardingHarmless ==
  /\ v1'.account = v1.account /\ (v1.agreed => v1'.agreed)
  /\ \A a \in Things : v2[a] # "absent" => v2'[a] # "absent"
  /\ \A v \in Twins : v3'[v].step \in {"agreed", "created"} => v3'[v] = v3[v]

LEMMA OnboardingHarmlessStep ==
  ASSUME Onboarding!Inv, OnboardingHarmless
  PROVE  /\ (Onboarding!KnownAtStripe /\ Onboarding!PastAgreement)'
         /\ Onboarding!AccountFollowsAgreement
<1>1. v1.account \in Things \cup {NoAccount}
  BY DEF Onboarding!Inv, Onboarding!TypeOK, Onboarding!Profiles, Onboarding!VisitStates
<1>2. Onboarding!KnownAtStripe'
  BY <1>1 DEF Onboarding!Inv, OnboardingHarmless, Onboarding!KnownAtStripe
<1>3. Onboarding!PastAgreement' /\ Onboarding!AccountFollowsAgreement
  BY
     DEF Onboarding!Inv, OnboardingHarmless, Onboarding!PastAgreement,
         Onboarding!AccountFollowsAgreement
<1> QED BY <1>2, <1>3

LEMMA OnboardingAgreementStep ==
  ASSUME Onboarding!OnboardingAssumption, Onboarding!Inv, Onboarding!Next
  PROVE  /\ (Onboarding!KnownAtStripe /\ Onboarding!PastAgreement)'
         /\ Onboarding!AccountFollowsAgreement
<1> USE DEF Onboarding!Steps
<1>1. /\ Onboarding!TypeOK /\ v1 \in Onboarding!Profiles /\ v3 \in [Twins -> Onboarding!VisitStates]
      /\ v2 \in [Things -> Onboarding!Readiness \cup {"absent"}]
  BY DEF Onboarding!Inv, Onboarding!TypeOK, Onboarding!Profiles, Onboarding!VisitStates
<1>2. ASSUME NEW v \in Twins,
             \/ Onboarding!HandleContinue(v) \/ Onboarding!HandleResume(v)
             \/ Onboarding!KeepAccount(v) \/ Onboarding!CreateLink(v) \/ Onboarding!Fail(v)
             \/ Onboarding!Return(v) \/ Onboarding!GetHostOnboardingStatus(v)
             \/ Onboarding!EnsureHostProfile(v)
      PROVE  OnboardingHarmless
  <2>1. /\ v1'.account = v1.account /\ v1'.agreed = v1.agreed
        /\ v2' = v2
    BY <1>1, <1>2
       DEF Onboarding!HandleContinue, Onboarding!HandleResume, Onboarding!Post,
           Onboarding!KeepAccount, Onboarding!CreateLink, Onboarding!Fail, Onboarding!Return,
           Onboarding!GetHostOnboardingStatus, Onboarding!AskStripe, Onboarding!WriteStatus,
           Onboarding!EnsureHostProfile, Onboarding!Profiles
  <2>2. CASE Onboarding!GetHostOnboardingStatus(v) \/ Onboarding!Return(v)
    BY <1>1, <2>1, <2>2
       DEF Onboarding!GetHostOnboardingStatus, Onboarding!AskStripe, Onboarding!WriteStatus,
           Onboarding!Return, Onboarding!Idle, OnboardingHarmless
  <2>3. CASE ~(Onboarding!GetHostOnboardingStatus(v) \/ Onboarding!Return(v))
    <3>1. PICK step \in Onboarding!Steps \ {"agreed", "created"} : Onboarding!Step(v, step)
      BY <1>2, <2>3
         DEF Onboarding!HandleContinue, Onboarding!HandleResume, Onboarding!Post,
             Onboarding!Valid, Onboarding!KeepAccount, Onboarding!CreateLink, Onboarding!Fail,
             Onboarding!EnsureHostProfile
    <3>2. v3'[v].step = step /\ \A u \in Twins \ {v} : v3'[u] = v3[u]
      BY <1>1, <3>1, OnboardingStepTyped
    <3> QED BY <2>1, <3>1, <3>2 DEF OnboardingHarmless
  <2> QED BY <2>2, <2>3
<1>3. ASSUME \/ \E a \in Things, ready \in Onboarding!Readiness : Onboarding!BecomeReady(a, ready)
             \/ \E e \in StripeEvents : Onboarding!HandleStripeV2ThinEvent(e)
      PROVE  OnboardingHarmless
  <2>1. /\ v1'.account = v1.account /\ v1'.agreed = v1.agreed
        /\ v3' = v3
    BY <1>1, <1>3
       DEF Onboarding!BecomeReady, Onboarding!HandleStripeV2ThinEvent, Onboarding!ReadEvent,
           Onboarding!WriteEvent, Onboarding!Profiles
  <2>2. \A a \in Things : v2[a] # "absent" => v2'[a] # "absent"
    BY <1>1, <1>3
       DEF Onboarding!BecomeReady, Onboarding!HandleStripeV2ThinEvent, Onboarding!ReadEvent,
           Onboarding!WriteEvent, Onboarding!Readiness
  <2> QED BY <2>1, <2>2 DEF OnboardingHarmless
<1>4. ASSUME NEW v \in Twins, Onboarding!RecordHostAgreementAcceptance(v)
      PROVE  /\ (Onboarding!KnownAtStripe /\ Onboarding!PastAgreement)'
             /\ Onboarding!AccountFollowsAgreement
  <2>1. /\ v3'[v].step = "agreed" /\ \A u \in Twins \ {v} : v3'[u] = v3[u]
        /\ v1'.account = v1.account /\ v1'.agreed /\ v2' = v2
    BY <1>1, <1>4, OnboardingStepTyped
       DEF Onboarding!RecordHostAgreementAcceptance, Onboarding!Profiles
  <2> QED BY <2>1
             DEF Onboarding!Inv, Onboarding!KnownAtStripe, Onboarding!PastAgreement,
                 Onboarding!AccountFollowsAgreement
<1>5. ASSUME NEW v \in Twins, NEW a \in Things, Onboarding!CreateAccount(v, a)
      PROVE  /\ (Onboarding!KnownAtStripe /\ Onboarding!PastAgreement)'
             /\ Onboarding!AccountFollowsAgreement
  <2>1. /\ v3[v].step = "agreed" /\ UNCHANGED v1
        /\ v3'[v].account = a /\ \A u \in Twins \ {v} : v3'[u] = v3[u]
        /\ \A b \in Things : v2[b] # "absent" \/ b = a => v2'[b] # "absent"
    BY <1>1, <1>5 DEF Onboarding!CreateAccount, Onboarding!StartsAfter
  <2>2. v1.agreed /\ v1.account \in Things \cup {NoAccount}
    BY <1>1, <2>1 DEF Onboarding!Inv, Onboarding!PastAgreement, Onboarding!Profiles
  <2> QED BY <2>1, <2>2
             DEF Onboarding!Inv, Onboarding!KnownAtStripe, Onboarding!PastAgreement,
                 Onboarding!AccountFollowsAgreement
<1>6. ASSUME NEW v \in Twins, Onboarding!RecordAccount(v)
      PROVE  /\ (Onboarding!KnownAtStripe /\ Onboarding!PastAgreement)'
             /\ Onboarding!AccountFollowsAgreement
  <2>1. /\ v3'[v].step = "linking" /\ \A u \in Twins \ {v} : v3'[u] = v3[u]
        /\ v2' = v2 /\ v3[v].step = "created"
    BY <1>1, <1>6, OnboardingStepTyped DEF Onboarding!RecordAccount, Onboarding!At
  <2>2. v1' = [v1 EXCEPT !.account = v3[v].account, !.status = "pending"]
    BY <1>6 DEF Onboarding!RecordAccount
  <2>3. v1'.account = v3[v].account
    BY <1>1, <2>2 DEF Onboarding!Profiles
  <2>4. v1'.agreed = v1.agreed
    BY <1>1, <2>2 DEF Onboarding!Profiles
  <2> QED BY <2>1, <2>3, <2>4
             DEF Onboarding!Inv, Onboarding!KnownAtStripe, Onboarding!PastAgreement,
                 Onboarding!AccountFollowsAgreement
<1> QED BY <1>2, <1>3, <1>4, <1>5, <1>6, OnboardingHarmlessStep
           DEF Onboarding!Next, Onboarding!ConnectAccountRoute,
               Onboarding!StartHostConnectOnboarding

-----------------------------------------------------------------------------
(***************************************************************************)
(* What holds of a listing for every set of texts, amenities, categories   *)
(* and open pages: its types, that an approval stays true or is voided,    *)
(* and that nothing goes live that was never reviewed.                     *)
(***************************************************************************)

\* A save that has passed the check for publishing has a reviewed listing behind it,
\* though the approval the check saw may be gone when the row is written.
CheckedWasReviewed ==
  /\ property.pilot = "approved" => reviewed
  /\ \A t \in Tabs :
       editor[t].step = "updating" /\ editor[t].form.status = "published" => reviewed

ReviewInv == TypeOK /\ LiveWasReviewed /\ CheckedWasReviewed
ApprovalInv == TypeOK /\ ApprovalStillTrue /\ ComplianceIsWhole

(* What the trigger of migration 028 writes when new is asked for. *)
LEMMA WrittenRow ==
  ASSUME property \in Properties, NEW new \in Properties
  PROVE  /\ Written(new) \in Properties
         /\ Written(new).content = new.content
         /\ Written(new).compliance = new.compliance
         /\ Written(new).pilot \in {new.pilot, "pending"}
         /\ Written(new).status \in {new.status, "draft"}
         /\ property.pilot = "approved"
              /\ (new.content # property.content \/ new.compliance # property.compliance)
            => Written(new).pilot = "pending"
<1>1. <<new.content, new.compliance>> # <<property.content, property.compliance>>
        <=> (new.content # property.content \/ new.compliance # property.compliance)
  OBVIOUS
<1>2. CASE property.pilot = "approved"
             /\ (new.content # property.content \/ new.compliance # property.compliance)
  <2>1. Written(new) = [new EXCEPT !.pilot = "pending",
                         !.status = IF property.status = "published" THEN "draft" ELSE @]
    BY <1>1, <1>2 DEF Written
  <2> QED BY <1>2, <2>1 DEF Properties, Statuses
<1>3. CASE ~(property.pilot = "approved"
             /\ (new.content # property.content \/ new.compliance # property.compliance))
  <2>1. Written(new) = new
    BY <1>1, <1>3 DEF Written
  <2> QED BY <1>3, <2>1 DEF Properties
<1> QED BY <1>2, <1>3

(* What a change of a picture leaves of the row. *)
LEMMA PictureRow ==
  ASSUME property \in Properties
  PROVE  /\ PicturesChanged \in Properties
         /\ PicturesChanged.content = property.content
         /\ PicturesChanged.compliance = property.compliance
         /\ PicturesChanged.pilot # "approved"
         /\ PicturesChanged.status \in {property.status, "draft"}
BY DEF PicturesChanged, Properties, Statuses

(* The row a save of the form asks for. *)
SavedRow(t) ==
  [property EXCEPT !.content = [text |-> editor[t].form.text, gaps |-> FALSE],
                   !.status = editor[t].form.status]

LEMMA SavedRowTyped ==
  ASSUME TypeOK, NEW t \in Tabs
  PROVE  /\ SavedRow(t) \in Properties
         /\ SavedRow(t).status = editor[t].form.status
         /\ SavedRow(t).compliance = property.compliance
         /\ SavedRow(t).pilot = property.pilot
BY DEF TypeOK, SavedRow, Properties, Contents, Statuses, Editors, Forms

(* The row a decision about compliance asks for. *)
LEMMA ComplianceRow ==
  ASSUME TypeOK,
         NEW d \in {"in_progress", "submitted", "changes_required", "approved"}
  PROVE  /\ [property EXCEPT !.compliance = d] \in Properties
         /\ [property EXCEPT !.compliance = d].content = property.content
         /\ [property EXCEPT !.compliance = d].status = property.status
         /\ [property EXCEPT !.compliance = d].compliance = d
         /\ [property EXCEPT !.compliance = d].pilot = property.pilot
BY DEF TypeOK, Properties

LEMMA EditingTyped ==
  ASSUME NEW form \in Forms, NEW step \in {"closed", "open", "checking", "updating", "clearing"}
  PROVE  /\ Editing(step, form) \in Editors
         /\ Editing(step, form).step = step /\ Editing(step, form).form = form
BY DEF Editing, Editors

-----------------------------------------------------------------------------
(* Types.                                                                  *)

LEMMA TypeInit == Init => TypeOK
<1> SUFFICES ASSUME Init PROVE TypeOK
  OBVIOUS
<1>1. property \in Properties
  BY DEF Init, NewProperty, Properties, Contents, Statuses
<1>2. amenities \subseteq Amenities
  BY DEF Init
<1>3. pictures \in 0..MaxImages
  BY ListingsAssumption DEF Init
<1>4. items \in [Categories -> Items]
  BY DEF Init, Absent, Items, Evidence
<1>5. host \in Hosts /\ reviewed \in BOOLEAN
  BY DEF Init, Hosts
<1>6. FormOf(property, amenities) \in Forms
  BY <1>1, <1>2 DEF FormOf, Forms, Properties, Contents
<1>7. editor \in [Tabs -> Editors]
  BY <1>6, EditingTyped DEF Init
<1> QED BY <1>1, <1>2, <1>3, <1>4, <1>5, <1>7 DEF TypeOK

LEMMA TypeEditorPage ==
  ASSUME TypeOK, NEW t \in Tabs, EditorPage(t)
  PROVE  TypeOK'
<1>1. editor[t] \in Editors /\ editor[t].form \in Forms
  BY DEF TypeOK, Editors
<1>2. \E e \in Editors : editor' = [editor EXCEPT ![t] = e]
  <2>1. CASE LoadProperty(t)
    <3>1. FormOf(property, amenities) \in Forms
      BY DEF TypeOK, FormOf, Forms, Properties, Contents
    <3> QED BY <2>1, <3>1, EditingTyped DEF LoadProperty
  <2>2. CASE HandleSave(t)
    BY <1>1, <2>2, EditingTyped DEF HandleSave
  <2>3. ASSUME NEW text \in Texts, SetText(t, text)
        PROVE  \E e \in Editors : editor' = [editor EXCEPT ![t] = e]
    <3>1. [editor[t] EXCEPT !.form.text = text] \in Editors
      BY <1>1 DEF Editors, Forms
    <3> QED BY <2>3, <3>1 DEF SetText, TypeOK
  <2>4. ASSUME NEW status \in Statuses, SetStatus(t, status)
        PROVE  \E e \in Editors : editor' = [editor EXCEPT ![t] = e]
    <3>1. [editor[t] EXCEPT !.form.status = status] \in Editors
      BY <1>1 DEF Editors, Forms
    <3> QED BY <2>4, <3>1 DEF SetStatus, TypeOK
  <2>5. ASSUME NEW a \in Amenities, ToggleAmenity(t, a)
        PROVE  \E e \in Editors : editor' = [editor EXCEPT ![t] = e]
    <3> DEFINE B == editor[t].form.amenities
               N == IF a \in B THEN B \ {a} ELSE B \cup {a}
    <3>1. N \in SUBSET Amenities
      BY <1>1 DEF Forms
    <3>2. [editor[t] EXCEPT !.form.amenities = N] \in Editors
      <4> HIDE DEF N
      <4> QED BY <1>1, <3>1 DEF Editors, Forms
    <3>3. editor' = [editor EXCEPT ![t] = [editor[t] EXCEPT !.form.amenities = N]]
      BY <2>5 DEF ToggleAmenity, TypeOK
    <3> QED BY <3>2, <3>3
  <2> QED BY <2>1, <2>2, <2>3, <2>4, <2>5 DEF EditorPage
<1>3. UNCHANGED <<property, amenities, pictures, items, host, reviewed>>
  BY DEF EditorPage, LoadProperty, HandleSave, SetText, SetStatus, ToggleAmenity
<1> QED BY <1>2, <1>3 DEF TypeOK

LEMMA TypePropertyRoute ==
  ASSUME TypeOK, NEW t \in Tabs, PropertyRoute(t)
  PROVE  TypeOK'
<1>1. editor[t] \in Editors /\ editor[t].form \in Forms
  BY DEF TypeOK, Editors
<1>2. CASE AssertCanPublish(t) \/ SaveEnds(t) \/ SaveDies(t)
  BY <1>1, <1>2, EditingTyped DEF AssertCanPublish, SaveEnds, SaveDies, TypeOK
<1>3. CASE UpdatePropertyForHost(t)
  <2>1. property' = Written(SavedRow(t))
    BY <1>3 DEF UpdatePropertyForHost, SavedRow
  <2>2. property' \in Properties
    BY <2>1, SavedRowTyped, WrittenRow DEF TypeOK
  <2> QED BY <1>1, <1>3, <2>2, EditingTyped DEF UpdatePropertyForHost, TypeOK
<1>4. CASE ClearAmenities(t)
  <2>1. [step |-> "inserting", form |-> editor[t].form, left |-> editor[t].form.amenities] \in Editors
    BY <1>1 DEF Editors, Forms
  <2> QED BY <1>4, <2>1 DEF ClearAmenities, TypeOK
<1>5. ASSUME NEW a \in Amenities, InsertAmenity(t, a)
      PROVE  TypeOK'
  <2>1. [step |-> "inserting", form |-> editor[t].form, left |-> editor[t].left \ {a}] \in Editors
    BY <1>1 DEF Editors
  <2> QED BY <1>5, <2>1 DEF InsertAmenity, TypeOK
<1> QED BY <1>2, <1>3, <1>4, <1>5 DEF PropertyRoute

LEMMA TypeChangePictures ==
  ASSUME TypeOK, NEW n \in 0..MaxImages, ChangePictures(n)
  PROVE  TypeOK'
BY PictureRow DEF TypeOK, ChangePictures

LEMMA TypeSaveOwnerCompliance ==
  ASSUME TypeOK, NEW evidence \in Declarations, NEW submit \in BOOLEAN,
         SaveOwnerCompliance(evidence, submit)
  PROVE  TypeOK'
<1>1. items' \in [Categories -> Items]
  BY DEF SaveOwnerCompliance, Declarations, Items, Evidence
<1>2. property' \in Properties
  BY ComplianceRow, WrittenRow DEF SaveOwnerCompliance, AfterSave, TypeOK
<1> QED BY <1>1, <1>2 DEF SaveOwnerCompliance, TypeOK

LEMMA TypeReviews ==
  ASSUME TypeOK, NEW decision \in {"approved", "changes_required"},
         ReviewPropertyCompliance(decision) \/ ReviewPilotListing(decision)
  PROVE  TypeOK'
<1>1. CASE ReviewPropertyCompliance(decision)
  <2>1. items' \in [Categories -> Items]
    BY <1>1 DEF ReviewPropertyCompliance, Items, TypeOK
  <2>2. property' \in Properties
    BY <1>1, ComplianceRow, WrittenRow DEF ReviewPropertyCompliance, TypeOK
  <2> QED BY <1>1, <2>1, <2>2 DEF ReviewPropertyCompliance, TypeOK
<1>2. CASE ReviewPilotListing(decision)
  BY <1>2 DEF ReviewPilotListing, TypeOK, Properties
<1> QED BY <1>1, <1>2

LEMMA TypeOthers ==
  ASSUME TypeOK,
         \/ RecordHostAgreementAcceptance
         \/ \E status \in {"not_connected", "pending", "active"} : PayoutAccountChanges(status)
         \/ \E c \in Categories : EvidenceLapses(c)
  PROVE  TypeOK'
<1>1. CASE RecordHostAgreementAcceptance
  BY <1>1 DEF RecordHostAgreementAcceptance, TypeOK, Hosts
<1>2. ASSUME NEW status \in {"not_connected", "pending", "active"}, PayoutAccountChanges(status)
      PROVE  TypeOK'
  BY <1>2 DEF PayoutAccountChanges, TypeOK, Hosts
<1>3. ASSUME NEW c \in Categories, EvidenceLapses(c)
      PROVE  TypeOK'
  BY <1>3 DEF EvidenceLapses, TypeOK, Items, Evidence
<1> QED BY <1>1, <1>2, <1>3

LEMMA TypeStep == TypeOK /\ [Next]_vars => TypeOK'
<1> SUFFICES ASSUME TypeOK, [Next]_vars PROVE TypeOK'
  OBVIOUS
<1>1. CASE UNCHANGED vars
  BY <1>1 DEF vars, TypeOK
<1>2. CASE Next
  BY <1>2, TypeEditorPage, TypePropertyRoute, TypeChangePictures, TypeSaveOwnerCompliance,
     TypeReviews, TypeOthers
  DEF Next, ComplianceRoute, AdminComplianceRoute, AdminReadinessRoute
<1> QED BY <1>1, <1>2

(* The row, the items and every page and save keep their types. *)
THEOREM TypeCorrect == Spec => []TypeOK
BY TypeInit, TypeStep, PTL DEF Spec

-----------------------------------------------------------------------------
(* Nothing goes live unreviewed.                                           *)

LEMMA ReviewInit == Init => LiveWasReviewed /\ CheckedWasReviewed
BY DEF Init, NewProperty, Editing, LiveWasReviewed, CheckedWasReviewed

(* A page's steps: the check, and the write it may have gone stale before. *)
LEMMA ReviewPages ==
  ASSUME ReviewInv, NEW t \in Tabs, EditorPage(t) \/ PropertyRoute(t)
  PROVE  (LiveWasReviewed /\ CheckedWasReviewed)'
<1> USE DEF ReviewInv
<1>1. editor \in [Tabs -> Editors] /\ editor[t].form \in Forms /\ reviewed' = reviewed
  BY DEF TypeOK, Editors, EditorPage, LoadProperty, HandleSave, SetText, SetStatus, ToggleAmenity,
     PropertyRoute, AssertCanPublish, UpdatePropertyForHost, ClearAmenities, InsertAmenity,
     SaveEnds, SaveDies
<1>2. CASE EditorPage(t)
  <2>1. UNCHANGED property /\ editor'[t].step # "updating"
    BY <1>1, <1>2 DEF EditorPage, LoadProperty, HandleSave, SetText, SetStatus, ToggleAmenity,
       Editing, Editors, Forms
  <2>2. \A u \in Tabs \ {t} : editor'[u] = editor[u]
    BY <1>1, <1>2 DEF EditorPage, LoadProperty, HandleSave, SetText, SetStatus, ToggleAmenity
  <2> QED BY <1>1, <2>1, <2>2 DEF LiveWasReviewed, CheckedWasReviewed
<1>3. CASE AssertCanPublish(t)
  <2>1. editor'[t].step = "updating" /\ editor'[t].form.status = "published" => reviewed
    <3> SUFFICES ASSUME editor'[t].step = "updating", editor'[t].form.status = "published"
                 PROVE  reviewed
      OBVIOUS
    <3>1. MayPublish(t) /\ editor[t].form.status = "published"
      BY <1>1, <1>3 DEF AssertCanPublish, Editing
    <3>2. property.status = "published" \/ property.pilot = "approved"
      BY <3>1 DEF MayPublish, ListingReady
    <3> QED BY <3>2 DEF LiveWasReviewed, CheckedWasReviewed
  <2>2. UNCHANGED property /\ \A u \in Tabs \ {t} : editor'[u] = editor[u]
    BY <1>1, <1>3 DEF AssertCanPublish
  <2> QED BY <1>1, <2>1, <2>2 DEF LiveWasReviewed, CheckedWasReviewed
<1>4. CASE UpdatePropertyForHost(t)
  <2>1. property' = Written(SavedRow(t))
    BY <1>4 DEF UpdatePropertyForHost, SavedRow
  <2>2. property'.status \in {editor[t].form.status, "draft"}
        /\ property'.pilot \in {property.pilot, "pending"}
    BY <2>1, SavedRowTyped, WrittenRow DEF TypeOK
  <2>3. editor[t].step = "updating" /\ editor'[t].step = "clearing"
        /\ \A u \in Tabs \ {t} : editor'[u] = editor[u]
    BY <1>1, <1>4 DEF UpdatePropertyForHost, Editing
  <2> QED BY <1>1, <2>2, <2>3 DEF LiveWasReviewed, CheckedWasReviewed
<1>5. ASSUME \/ ClearAmenities(t) \/ SaveEnds(t) \/ SaveDies(t)
             \/ \E a \in Amenities : InsertAmenity(t, a)
      PROVE  (LiveWasReviewed /\ CheckedWasReviewed)'
  <2>1. UNCHANGED property /\ editor'[t].step # "updating"
        /\ \A u \in Tabs \ {t} : editor'[u] = editor[u]
    BY <1>1, <1>5 DEF ClearAmenities, SaveEnds, SaveDies, InsertAmenity, Editing
  <2> QED BY <1>1, <2>1 DEF LiveWasReviewed, CheckedWasReviewed
<1> QED BY <1>2, <1>3, <1>4, <1>5 DEF PropertyRoute

LEMMA ReviewStep == ReviewInv /\ [Next]_vars => (LiveWasReviewed /\ CheckedWasReviewed)'
<1> SUFFICES ASSUME ReviewInv, [Next]_vars
             PROVE  (LiveWasReviewed /\ CheckedWasReviewed)'
  OBVIOUS
<1> USE DEF ReviewInv
<1>1. CASE UNCHANGED vars
  BY <1>1 DEF vars, LiveWasReviewed, CheckedWasReviewed
<1>2. ASSUME NEW n \in 0..MaxImages, ChangePictures(n)
      PROVE  (LiveWasReviewed /\ CheckedWasReviewed)'
  BY <1>2, PictureRow DEF ChangePictures, TypeOK, LiveWasReviewed, CheckedWasReviewed
<1>3. CASE ComplianceRoute
  <2>1. property'.status \in {property.status, "draft"}
        /\ property'.pilot \in {property.pilot, "pending"}
    BY <1>3, ComplianceRow, WrittenRow DEF ComplianceRoute, SaveOwnerCompliance, AfterSave, TypeOK
  <2>2. UNCHANGED <<editor, reviewed>>
    BY <1>3 DEF ComplianceRoute, SaveOwnerCompliance
  <2> QED BY <2>1, <2>2 DEF LiveWasReviewed, CheckedWasReviewed
<1>4. ASSUME NEW decision \in {"approved", "changes_required"}, ReviewPropertyCompliance(decision)
      PROVE  (LiveWasReviewed /\ CheckedWasReviewed)'
  <2> DEFINE new == [property EXCEPT !.compliance = decision]
  <2>1. property' = Written(new)
    BY <1>4 DEF ReviewPropertyCompliance
  <2>2. new \in Properties /\ new.status = property.status /\ new.pilot = property.pilot
    BY ComplianceRow
  <2>3. property'.status \in {property.status, "draft"}
        /\ property'.pilot \in {property.pilot, "pending"}
    <3> HIDE DEF new
    <3> QED BY <2>1, <2>2, WrittenRow DEF TypeOK
  <2>4. UNCHANGED <<editor, reviewed>>
    BY <1>4 DEF ReviewPropertyCompliance
  <2> QED BY <2>3, <2>4 DEF LiveWasReviewed, CheckedWasReviewed
<1>5. CASE AdminReadinessRoute
  <2>1. property'.status = property.status /\ (reviewed => reviewed')
        /\ (property'.pilot = "approved" => reviewed') /\ UNCHANGED editor
    BY <1>5 DEF AdminReadinessRoute, ReviewPilotListing, TypeOK, Properties
  <2> QED BY <2>1 DEF LiveWasReviewed, CheckedWasReviewed
<1>6. ASSUME \/ RecordHostAgreementAcceptance
             \/ \E status \in {"not_connected", "pending", "active"} : PayoutAccountChanges(status)
             \/ \E c \in Categories : EvidenceLapses(c)
      PROVE  (LiveWasReviewed /\ CheckedWasReviewed)'
  BY <1>6 DEF RecordHostAgreementAcceptance, PayoutAccountChanges, EvidenceLapses,
     LiveWasReviewed, CheckedWasReviewed
<1> QED BY <1>1, <1>2, <1>3, <1>4, <1>5, <1>6, ReviewPages DEF Next, AdminComplianceRoute

(* A listing is published only after a pilot review approved it once,      *)
(* however saves, reviews and edits interleave (hostProperties.ts:199).    *)
THEOREM ReviewedBeforeLive == Spec => []LiveWasReviewed
BY TypeInit, TypeStep, ReviewInit, ReviewStep, PTL DEF Spec, ReviewInv

-----------------------------------------------------------------------------
(* An approval stays true, or goes.                                        *)

\* A step that leaves the items and the host alone, and keeps an approval only of a row
\* that says what it said.
KeepsOrVoids ==
  /\ property'.compliance = property.compliance
  /\ property'.pilot = "approved" =>
       property.pilot = "approved" /\ property'.content = property.content
       /\ pictures' = pictures
  /\ UNCHANGED <<items, host>>

LEMMA KeepingOrVoiding ==
  ASSUME ApprovalInv, KeepsOrVoids
  PROVE  (ApprovalStillTrue /\ ComplianceIsWhole)'
<1>1. ApprovalStillTrue'
  BY DEF ApprovalInv, ApprovalStillTrue, KeepsOrVoids
<1>2. ComplianceIsWhole'
  BY DEF ApprovalInv, ComplianceIsWhole, KeepsOrVoids, Filled
<1> QED BY <1>1, <1>2

LEMMA ApprovalInit == Init => ApprovalStillTrue /\ ComplianceIsWhole
BY DEF Init, NewProperty, ApprovalStillTrue, ComplianceIsWhole

LEMMA ApprovalPages ==
  ASSUME ApprovalInv, NEW t \in Tabs, EditorPage(t) \/ PropertyRoute(t)
  PROVE  KeepsOrVoids
<1>1. CASE UpdatePropertyForHost(t)
  <2>1. property' = Written(SavedRow(t)) /\ UNCHANGED <<pictures, items, host>>
    BY <1>1 DEF UpdatePropertyForHost, SavedRow
  <2>2. property \in Properties
    BY DEF ApprovalInv, TypeOK
  <2>3. /\ SavedRow(t) \in Properties /\ SavedRow(t).compliance = property.compliance
        /\ SavedRow(t).pilot = property.pilot
    BY SavedRowTyped DEF ApprovalInv
  <2> QED BY <2>1, <2>2, <2>3, WrittenRow DEF KeepsOrVoids
<1>2. CASE ~UpdatePropertyForHost(t)
  <2>1. UNCHANGED <<property, pictures, items, host>>
    BY <1>2 DEF EditorPage, LoadProperty, HandleSave, SetText, SetStatus, ToggleAmenity,
       PropertyRoute, AssertCanPublish, ClearAmenities, InsertAmenity, SaveEnds, SaveDies
  <2> QED BY <2>1 DEF KeepsOrVoids
<1> QED BY <1>1, <1>2

(* The owner's save takes the compliance away, and with it the approval.   *)
LEMMA ApprovalOwner ==
  ASSUME ApprovalInv, NEW evidence \in Declarations, NEW submit \in BOOLEAN,
         SaveOwnerCompliance(evidence, submit)
  PROVE  property'.compliance # "approved" /\ property'.pilot # "approved"
<1> DEFINE new == [property EXCEPT !.compliance = AfterSave(submit)]
<1>1. property' = Written(new) /\ property \in Properties
  BY DEF SaveOwnerCompliance, ApprovalInv, TypeOK
<1>2. AfterSave(submit) \in {"submitted", "in_progress"}
  BY DEF AfterSave
<1>3. new \in Properties /\ new.compliance = AfterSave(submit) /\ new.pilot = property.pilot
  BY <1>2, ComplianceRow DEF ApprovalInv
<1>4. property.pilot = "approved" => new.compliance # property.compliance
  BY <1>2, <1>3 DEF ApprovalInv, ApprovalStillTrue
<1> HIDE DEF new
<1> QED BY <1>1, <1>2, <1>3, <1>4, WrittenRow

(* A reviewer of the compliance never meets an approved listing.           *)
LEMMA ApprovalReviewer ==
  ASSUME ApprovalInv, NEW decision \in {"approved", "changes_required"},
         ReviewPropertyCompliance(decision)
  PROVE  /\ property'.pilot # "approved" /\ property'.compliance = decision
         /\ ComplianceIsWhole'
<1> DEFINE new == [property EXCEPT !.compliance = decision]
<1>1. property' = Written(new) /\ property \in Properties
  BY DEF ReviewPropertyCompliance, ApprovalInv, TypeOK
<1>2. new \in Properties /\ new.compliance = decision /\ new.pilot = property.pilot
  BY ComplianceRow DEF ApprovalInv
<1>3. property.pilot # "approved"
  BY DEF ReviewPropertyCompliance, ApprovalInv, ApprovalStillTrue
<1>4. property'.pilot # "approved" /\ property'.compliance = decision
  <2> HIDE DEF new
  <2> QED BY <1>1, <1>2, <1>3, WrittenRow
<1>5. ASSUME property'.compliance = "approved", NEW c \in Categories
      PROVE  (Filled(items[c]) /\ items[c].review = "approved")'
  <2>1. Complete(items[c]) /\ decision = "approved"
    BY <1>4, <1>5 DEF ReviewPropertyCompliance
  <2>2. items[c].evidence \in {"undated", "dated"} /\ items[c] \in Items
    BY <2>1 DEF Complete, ApprovalInv, TypeOK
  <2>3. items'[c] = [items[c] EXCEPT !.review = "approved"]
    BY <2>1, <2>2 DEF ReviewPropertyCompliance
  <2> QED BY <2>2, <2>3 DEF Filled, Items
<1> QED BY <1>4, <1>5 DEF ComplianceIsWhole

LEMMA ApprovalPilot ==
  ASSUME ApprovalInv, NEW decision \in {"approved", "changes_required"},
         ReviewPilotListing(decision)
  PROVE  /\ UNCHANGED <<items, host, pictures>> /\ property'.compliance = property.compliance
         /\ property'.content = property.content
         /\ (ApprovalStillTrue /\ ComplianceIsWhole)'
<1>1. /\ UNCHANGED <<items, host, pictures>> /\ property'.compliance = property.compliance
      /\ property'.content = property.content /\ property'.pilot = decision
  BY DEF ReviewPilotListing, ApprovalInv, TypeOK, Properties
<1>2. ComplianceIsWhole'
  BY <1>1 DEF ApprovalInv, ComplianceIsWhole, Filled
<1>3. ASSUME decision = "approved" PROVE ApprovalStillTrue'
  <2>1. /\ property.content.text \in CompleteTexts /\ pictures >= MinimumImages
        /\ host.agreed /\ property.compliance = "approved"
    BY <1>3 DEF ReviewPilotListing, Blockers, ComplianceReady
  <2>2. \A c \in Categories : items[c].evidence # "absent" /\ items[c].review = "approved"
    BY <2>1 DEF ApprovalInv, ComplianceIsWhole, Filled
  <2> QED BY <1>1, <2>1, <2>2 DEF ApprovalStillTrue
<1> QED BY <1>1, <1>2, <1>3 DEF ApprovalStillTrue

LEMMA ApprovalStep == ApprovalInv /\ [Next]_vars => (ApprovalStillTrue /\ ComplianceIsWhole)'
<1> SUFFICES ASSUME ApprovalInv, [Next]_vars
             PROVE  (ApprovalStillTrue /\ ComplianceIsWhole)'
  OBVIOUS
<1>1. CASE UNCHANGED vars
  BY <1>1, KeepingOrVoiding DEF vars, KeepsOrVoids
<1>2. ASSUME NEW n \in 0..MaxImages, ChangePictures(n)
      PROVE  (ApprovalStillTrue /\ ComplianceIsWhole)'
  <2>1. KeepsOrVoids
    BY <1>2, PictureRow DEF ApprovalInv, TypeOK, ChangePictures, KeepsOrVoids
  <2> QED BY <2>1, KeepingOrVoiding
<1>3. CASE ComplianceRoute
  BY <1>3, ApprovalOwner DEF ComplianceRoute, ApprovalStillTrue, ComplianceIsWhole
<1>4. CASE AdminComplianceRoute
  BY <1>4, ApprovalReviewer DEF AdminComplianceRoute, ApprovalStillTrue
<1>5. CASE AdminReadinessRoute
  BY <1>5, ApprovalPilot DEF AdminReadinessRoute
<1>6. ASSUME \/ RecordHostAgreementAcceptance
             \/ \E status \in {"not_connected", "pending", "active"} : PayoutAccountChanges(status)
      PROVE  (ApprovalStillTrue /\ ComplianceIsWhole)'
  <2>1. (host.agreed => host'.agreed) /\ UNCHANGED <<property, pictures, items>>
    BY <1>6 DEF ApprovalInv, TypeOK, Hosts, RecordHostAgreementAcceptance, PayoutAccountChanges
  <2> QED BY <2>1 DEF ApprovalInv, ApprovalStillTrue, ComplianceIsWhole, Filled
<1>7. ASSUME NEW c \in Categories, EvidenceLapses(c)
      PROVE  (ApprovalStillTrue /\ ComplianceIsWhole)'
  <2>1. UNCHANGED <<property, pictures, host>>
    BY <1>7 DEF EvidenceLapses
  <2>2. ASSUME NEW d \in Categories
        PROVE  /\ items'[d].review = items[d].review
               /\ Filled(items[d]) => items'[d].evidence \in {"undated", "dated", "lapsed"}
               /\ items[d].evidence # "absent" => items'[d].evidence # "absent"
    <3>1. CASE d = c
      <4>1. items'[d] = [items[d] EXCEPT !.evidence = "lapsed"] /\ items[d] \in Items
        BY <1>7, <3>1 DEF EvidenceLapses, ApprovalInv, TypeOK
      <4> QED BY <4>1 DEF Items
    <3>2. CASE d # c
      BY <1>7, <3>2 DEF EvidenceLapses, ApprovalInv, TypeOK, Filled
    <3> QED BY <3>1, <3>2
  <2>3. ComplianceIsWhole'
    BY <2>1, <2>2 DEF ApprovalInv, ComplianceIsWhole, Filled
  <2>4. ApprovalStillTrue'
    BY <2>1, <2>2 DEF ApprovalInv, ApprovalStillTrue
  <2> QED BY <2>3, <2>4
<1> QED BY <1>1, <1>2, <1>3, <1>4, <1>5, <1>6, <1>7, ApprovalPages, KeepingOrVoiding DEF Next

(* An approval in the row describes the row: text, pictures, agreement and *)
(* compliance, whatever pages, routes and reviewers did since              *)
(* (listingReadiness.ts:146, migration 028's triggers).                    *)
THEOREM ApprovalIsTrue == Spec => []ApprovalStillTrue
BY TypeInit, TypeStep, ApprovalInit, ApprovalStep, PTL DEF Spec, ApprovalInv

-----------------------------------------------------------------------------
(* A change voids the approval in the very step that makes it.             *)

\* What ChangeVoidsApproval asks of a step.
Voids ==
  property.pilot = "approved"
    /\ (property.content # property'.content \/ pictures # pictures'
        \/ property.compliance # property'.compliance)
  => property'.pilot # "approved"

LEMMA VoidStep == ApprovalInv /\ [Next]_vars => [Voids]_vars
<1> SUFFICES ASSUME ApprovalInv, Next PROVE Voids
  OBVIOUS
<1>1. CASE \E n \in 0..MaxImages : ChangePictures(n)
  BY <1>1, PictureRow DEF ApprovalInv, TypeOK, ChangePictures, Voids
<1>2. CASE ComplianceRoute
  BY <1>2, ApprovalOwner DEF ComplianceRoute, Voids
<1>3. CASE AdminComplianceRoute
  BY <1>3, ApprovalReviewer DEF AdminComplianceRoute, Voids
<1>4. CASE AdminReadinessRoute
  BY <1>4, ApprovalPilot DEF AdminReadinessRoute, Voids
<1>5. ASSUME \/ RecordHostAgreementAcceptance
             \/ \E status \in {"not_connected", "pending", "active"} : PayoutAccountChanges(status)
             \/ \E c \in Categories : EvidenceLapses(c)
      PROVE  Voids
  BY <1>5 DEF RecordHostAgreementAcceptance, PayoutAccountChanges, EvidenceLapses, Voids
<1>6. ASSUME NEW t \in Tabs, EditorPage(t) \/ PropertyRoute(t)
      PROVE  Voids
  BY <1>6, ApprovalPages DEF KeepsOrVoids, Voids
<1> QED BY <1>1, <1>2, <1>3, <1>4, <1>5, <1>6 DEF Next

(* No page, save or reviewer changes what was approved and leaves it so.   *)
THEOREM ChangesVoid == Spec => ChangeVoidsApproval
<1>1. ApprovalInv /\ [Next]_vars => ApprovalInv'
  BY TypeStep, ApprovalStep DEF ApprovalInv
<1>2. Init => ApprovalInv
  BY TypeInit, ApprovalInit DEF ApprovalInv
<1> QED BY <1>1, <1>2, VoidStep, PTL DEF Spec, ChangeVoidsApproval, Voids

-----------------------------------------------------------------------------
(* The composition.  A behaviour stays in its part, whose steps are its    *)
(* module's, so that the part's invariant holds in all of it.              *)

(* The accounts' invariant says that what is accepted is current. *)
LEMMA SessionsFollow == SignIn!Inv => SignIn!SessionsAreCurrent
BY DEF SignIn!Inv, SignIn!TokensCurrent, SignIn!Current, SignIn!SessionsAreCurrent, SignIn!Accepted

AccountsInv == part = "accounts" => SignIn!Inv

LEMMA AccountsCarried ==
  (PlatformInit => AccountsInv) /\ (AccountsInv /\ [PlatformNext]_platform => AccountsInv')
<1>1. PlatformInit => AccountsInv
  BY SignIn!InvInit, PlatformAssumption DEF PlatformInit, AccountsInv
<1>2. ASSUME AccountsInv, PlatformNext PROVE AccountsInv'
  <2>1. part' = part /\ (part = "accounts" => SignIn!Next)
    BY <1>2 DEF PlatformNext
  <2> QED BY <1>2, <2>1, SignIn!InvStep, PlatformAssumption DEF AccountsInv
<1>3. ASSUME AccountsInv, UNCHANGED platform PROVE AccountsInv'
  <2>1. part' = part /\ UNCHANGED <<v1, v2, v3, v4, v5, v6, v7>>
    BY <1>3 DEF platform
  <2> QED BY <1>3, <2>1, SignIn!InvStep, PlatformAssumption DEF AccountsInv, SignIn!vars
<1> QED BY <1>1, <1>2, <1>3

(* A session that is accepted was opened with the password of now, if it was
   opened with one, whatever changes, resets and revocations interleave. *)
THEOREM SessionsStayCurrent == PlatformSpec => []SessionsAreCurrent
<1>1. AccountsInv => SessionsAreCurrent
  BY SessionsFollow DEF AccountsInv, SessionsAreCurrent
<1> QED BY <1>1, AccountsCarried, PTL DEF PlatformSpec

PasskeysInv == part = "passkeys" => Passkeys!Inv

LEMMA PasskeysCarried ==
  (PlatformInit => PasskeysInv) /\ (PasskeysInv /\ [PlatformNext]_platform => PasskeysInv')
<1>1. PlatformInit => PasskeysInv
  BY PasskeysInit DEF PlatformInit, PasskeysInv
<1>2. ASSUME PasskeysInv, PlatformNext PROVE PasskeysInv'
  <2>1. part' = part /\ (part = "passkeys" => Passkeys!Next)
    BY <1>2 DEF PlatformNext
  <2> QED BY <1>2, <2>1, PasskeysStep DEF PasskeysInv
<1>3. ASSUME PasskeysInv, UNCHANGED platform PROVE PasskeysInv'
  <2>1. part' = part /\ UNCHANGED <<v1, v2, v3, v4, v5, v6, v7, v8, v9, v10>>
    BY <1>3 DEF platform
  <2> QED BY <1>3, <2>1, PasskeysStep DEF PasskeysInv, Passkeys!vars
<1> QED BY <1>1, <1>2, <1>3

(* Whichever requests carry the same answered challenge or the same recovery
   code, they bring one sign-in between them. *)
THEOREM OneSignInEach == PlatformSpec => []OneSignInPerProof
<1>1. PasskeysInv => OneSignInPerProof
  BY DEF PasskeysInv, OneSignInPerProof, Passkeys!Inv
<1> QED BY <1>1, PasskeysCarried, PTL DEF PlatformSpec

AftercareInv == part = "aftercare" => Aftercare!Inv

LEMMA AftercareCarried ==
  (PlatformInit => AftercareInv) /\ (AftercareInv /\ [PlatformNext]_platform => AftercareInv')
<1>1. PlatformInit => AftercareInv
  BY AftercareInit DEF PlatformInit, AftercareInv
<1>2. ASSUME AftercareInv, PlatformNext PROVE AftercareInv'
  <2>1. part' = part /\ (part = "aftercare" => Aftercare!Next)
    BY <1>2 DEF PlatformNext
  <2> QED BY <1>2, <2>1, AftercareStep DEF AftercareInv
<1>3. ASSUME AftercareInv, UNCHANGED platform PROVE AftercareInv'
  <2>1. part' = part /\ UNCHANGED <<v1, v2, v3, v4, v5, v6, v7, v8, v9, v10>>
    BY <1>3 DEF platform
  <2> QED BY <1>3, <2>1, AftercareStep DEF AftercareInv, Aftercare!vars
<1> QED BY <1>1, <1>2, <1>3

(* When no review is being stored, the rating of a property counts the review
   that was committed last. *)
THEOREM LastReviewIsCounted == PlatformSpec => []LastReviewCounts
<1>1. AftercareInv => LastReviewCounts
  BY DEF AftercareInv, LastReviewCounts, Aftercare!Inv
<1> QED BY <1>1, AftercareCarried, PTL DEF PlatformSpec

MigrationsInv == part = "migrations" => Migrations!Inv

LEMMA MigrationsCarried ==
  (PlatformInit => MigrationsInv) /\ (MigrationsInv /\ [PlatformNext]_platform => MigrationsInv')
<1>1. PlatformInit => MigrationsInv
  BY MigrationsInit DEF PlatformInit, MigrationsInv
<1>2. ASSUME MigrationsInv, PlatformNext PROVE MigrationsInv'
  <2>1. part' = part /\ (part = "migrations" => Migrations!Next)
    BY <1>2 DEF PlatformNext
  <2> QED BY <1>2, <2>1, MigrationsStep DEF MigrationsInv
<1>3. ASSUME MigrationsInv, UNCHANGED platform PROVE MigrationsInv'
  <2>1. part' = part /\ UNCHANGED <<v1, v2, v3>>
    BY <1>3 DEF platform
  <2> QED BY <1>3, <2>1, MigrationsStep DEF MigrationsInv, Migrations!vars
<1> QED BY <1>1, <1>2, <1>3

(* A migration in the ledger has all its objects, and the listed ones before it
   are in the ledger, whichever runners stop or run at once. *)
THEOREM RecordedMeansComplete == PlatformSpec => []RecordedIsComplete
<1>1. MigrationsInv => RecordedIsComplete
  BY DEF MigrationsInv, RecordedIsComplete, Migrations!Inv
<1> QED BY <1>1, MigrationsCarried, PTL DEF PlatformSpec

SavingInv == part = "favourites" => Saving!Inv

LEMMA FavouritesCarried ==
  (PlatformInit => SavingInv) /\ (SavingInv /\ [PlatformNext]_platform => SavingInv')
<1>1. PlatformInit => SavingInv
  BY SavingInit DEF PlatformInit, SavingInv
<1>2. ASSUME SavingInv, PlatformNext PROVE SavingInv'
  <2>1. part' = part /\ (part = "favourites" => Saving!Next)
    BY <1>2 DEF PlatformNext
  <2> QED BY <1>2, <2>1, SavingStep DEF SavingInv
<1>3. ASSUME SavingInv, UNCHANGED platform PROVE SavingInv'
  <2>1. part' = part /\ UNCHANGED <<v1, v2, v3, v4, v5, v6, v7, v8, v9>>
    BY <1>3 DEF platform
  <2> QED BY <1>3, <2>1, SavingStep DEF SavingInv, Saving!favouritesVars
<1> QED BY <1>1, <1>2, <1>3

(* The Save button shows what the server last did, or answered, for it. *)
THEOREM ControlTellsTheTruth == PlatformSpec => []ControlIsTrue
<1>1. SavingInv => ControlIsTrue
  BY DEF SavingInv, ControlIsTrue, Saving!Inv
<1> QED BY <1>1, FavouritesCarried, PTL DEF PlatformSpec

StayInv == part = "stay" => Stay!Inv

LEMMA StayCarried ==
  (PlatformInit => StayInv) /\ (StayInv /\ [PlatformNext]_platform => StayInv')
<1>1. PlatformInit => StayInv
  BY StayInit DEF PlatformInit, StayInv
<1>2. ASSUME StayInv, PlatformNext PROVE StayInv'
  <2>1. part' = part /\ (part = "stay" => Stay!Next)
    BY <1>2 DEF PlatformNext
  <2> QED BY <1>2, <2>1, StayStep DEF StayInv
<1>3. ASSUME StayInv, UNCHANGED platform PROVE StayInv'
  <2>1. part' = part /\ UNCHANGED <<v1, v2, v3, v4, v5, v6, v7>>
    BY <1>3 DEF platform
  <2> QED BY <1>3, <2>1, StayStep DEF StayInv, Stay!stayPageVars
<1> QED BY <1>1, <1>2, <1>3

(* The checkout a guest is sent to is that of a booking for the dates the guest
   asked for, whatever was clicked, failed or tried again meanwhile. *)
THEOREM CheckoutFollowsRequest == PlatformSpec => []CheckoutIsForRequest
<1>1. StayInv => CheckoutIsForRequest
  BY StayCheckout DEF StayInv, CheckoutIsForRequest
<1> QED BY <1>1, StayCarried, PTL DEF PlatformSpec

TripInv == part = "trip" => Trip!Inv

LEMMA TripCarried ==
  (PlatformInit => TripInv) /\ (TripInv /\ [PlatformNext]_platform => TripInv')
<1>1. PlatformInit => TripInv
  BY TripInit DEF PlatformInit, TripInv
<1>2. ASSUME TripInv, PlatformNext PROVE TripInv'
  <2>1. part' = part /\ (part = "trip" => Trip!Next)
    BY <1>2 DEF PlatformNext
  <2> QED BY <1>2, <2>1, TripStep DEF TripInv
<1>3. ASSUME TripInv, UNCHANGED platform PROVE TripInv'
  <2>1. part' = part /\ UNCHANGED <<v1, v2, v3, v4, v5, v6, v7, v8, v9, v10>>
    BY <1>3 DEF platform
  <2> QED BY <1>3, <2>1, TripStep DEF TripInv, Trip!tripPageVars
<1> QED BY <1>1, <1>2, <1>3

(* Without an administrator's refund, whoever cancels, however often, and whichever
   events of the payment come late or again: what the cancellations ask to refund, with what was
   refunded before, is never more than was paid, and none asks while another's refund is pending. *)
THEOREM RefundsFitPayment == PlatformSpec => []RefundsFit
<1>1. TripInv => RefundsFit
  BY DEF TripInv, RefundsFit, Trip!Inv
<1> QED BY <1>1, TripCarried, PTL DEF PlatformSpec

FormatInv == part = "format" => Format!Inv

LEMMA FormatCarried ==
  (PlatformInit => FormatInv) /\ (FormatInv /\ [PlatformNext]_platform => FormatInv')
<1>1. PlatformInit => FormatInv
  BY Format!InvInit, PlatformAssumption DEF PlatformInit, FormatInv
<1>2. ASSUME FormatInv, PlatformNext PROVE FormatInv'
  <2>1. part' = part /\ (part = "format" => Format!Next)
    BY <1>2 DEF PlatformNext
  <2> QED BY <1>2, <2>1, Format!InvStep, PlatformAssumption DEF FormatInv
<1>3. ASSUME FormatInv, UNCHANGED platform PROVE FormatInv'
  <2>1. part' = part /\ UNCHANGED <<v1, v2, v3, v4, v5, v6, v7>>
    BY <1>3 DEF platform
  <2> QED BY <1>3, <2>1, Format!InvStep, PlatformAssumption DEF FormatInv, Format!formatVars
<1> QED BY <1>1, <1>2, <1>3

(* A feed that is read is read as what it says, and refused only when some of it
   cannot be read or has too many events; what HOST writes is read back as the
   nights it was written for. *)
THEOREM FeedsAreUnderstood == PlatformSpec => []FeedIsUnderstood
<1>1. FormatInv => FeedIsUnderstood
  BY Format!InvUnderstood, PlatformAssumption DEF FormatInv, FeedIsUnderstood
<1> QED BY <1>1, FormatCarried, PTL DEF PlatformSpec

FeedsInv == part = "feeds" => Feeds!Inv

LEMMA FeedsCarried ==
  (PlatformInit => FeedsInv) /\ (FeedsInv /\ [PlatformNext]_platform => FeedsInv')
<1>1. PlatformInit => FeedsInv
  BY FeedsInit DEF PlatformInit, FeedsInv
<1>2. ASSUME FeedsInv, PlatformNext PROVE FeedsInv'
  <2>1. part' = part /\ (part = "feeds" => Feeds!Next)
    BY <1>2 DEF PlatformNext
  <2> QED BY <1>2, <2>1, FeedsStep DEF FeedsInv
<1>3. ASSUME FeedsInv, UNCHANGED platform PROVE FeedsInv'
  <2>1. part' = part /\ UNCHANGED <<v1, v2, v3, v4>>
    BY <1>3 DEF platform
  <2> QED BY <1>3, <2>1, FeedsStep DEF FeedsInv, Feeds!feedPanelVars
<1> QED BY <1>1, <1>2, <1>3

(* When the panel's handlers have ended and nothing else disturbed it, it lists
   the calendars as they are. *)
THEOREM PanelIsCurrent == PlatformSpec => []ListIsCurrent
<1>1. FeedsInv => ListIsCurrent
  BY FeedsListed DEF FeedsInv, ListIsCurrent
<1> QED BY <1>1, FeedsCarried, PTL DEF PlatformSpec

SearchInv == part = "search" => Searching!Inv

LEMMA SearchCarried ==
  (PlatformInit => SearchInv) /\ (SearchInv /\ [PlatformNext]_platform => SearchInv')
<1>1. PlatformInit => SearchInv
  BY SearchInit DEF PlatformInit, SearchInv
<1>2. ASSUME SearchInv, PlatformNext PROVE SearchInv'
  <2>1. part' = part /\ (part = "search" => Searching!Next)
    BY <1>2 DEF PlatformNext
  <2> QED BY <1>2, <2>1, SearchStep DEF SearchInv
<1>3. ASSUME SearchInv, UNCHANGED platform PROVE SearchInv'
  <2>1. part' = part /\ UNCHANGED <<v1, v2, v3, v4, v5>>
    BY <1>3 DEF platform
  <2> QED BY <1>3, <2>1, SearchStep DEF SearchInv, Searching!searchVars
<1> QED BY <1>1, <1>2, <1>3

(* What a search shows is booked with its link, of the nights the search counted,
   unless no price can be made; what would be booked is shown, unless fifty others
   come before it. *)
THEOREM SearchIsBookable == PlatformSpec => []SearchAgreesWithBooking
<1>1. SearchInv => SearchAgreesWithBooking
  BY SearchAgrees DEF SearchInv, SearchAgreesWithBooking
<1> QED BY <1>1, SearchCarried, PTL DEF PlatformSpec

MoneyInv == part = "money" => Money!Inv

LEMMA MoneyCarried ==
  (PlatformInit => MoneyInv) /\ (MoneyInv /\ [PlatformNext]_platform => MoneyInv')
<1>1. PlatformInit => MoneyInv
  BY MoneyInit DEF PlatformInit, MoneyInv
<1>2. ASSUME MoneyInv, PlatformNext PROVE MoneyInv'
  <2>1. part' = part /\ (part = "money" => Money!Next)
    BY <1>2 DEF PlatformNext
  <2> QED BY <1>2, <2>1, MoneyStep DEF MoneyInv
<1>3. ASSUME MoneyInv, UNCHANGED platform PROVE MoneyInv'
  <2>1. part' = part /\ UNCHANGED <<v1, v2, v3, v4, v5, v6, v7>>
    BY <1>3 DEF platform
  <2> QED BY <1>3, <2>1, MoneyStep DEF MoneyInv, Money!moneyVars
<1> QED BY <1>1, <1>2, <1>3

(* Whatever is priced, cancelled and refunded in whatever order: the total is
   what the host, HOST and the tax office get of it, the reversals of each share
   add up to what was refunded, and a booking of which one cancellation's refund, and
   no other, succeeded pays its host what the policy let the host keep of it, unless it
   is disputed, all to the minor unit. *)
THEOREM AmountsAddUp == PlatformSpec => []MoneyAddsUp
<1>1. MoneyInv => MoneyAddsUp
  BY MoneyReversals, MoneyKept DEF MoneyInv, MoneyAddsUp, Money!Inv, Money!MoneyAddsUp
<1> QED BY <1>1, MoneyCarried, PTL DEF PlatformSpec

DeletionInv == part = "deletion" => Deletion!Inv

LEMMA DeletionCarried ==
  /\ PlatformInit => DeletionInv
  /\ DeletionInv /\ [PlatformNext]_platform => DeletionInv'
  /\ DeletionInv /\ [PlatformNext]_platform
       => [part = "deletion" => Deletion!CancelledIsKept]_platform
<1>1. PlatformInit => DeletionInv
  BY DeletionInit DEF PlatformInit, DeletionInv
<1>2. ASSUME DeletionInv, PlatformNext
      PROVE  DeletionInv' /\ (part = "deletion" => Deletion!CancelledIsKept)
  <2>1. part' = part /\ (part = "deletion" => Deletion!Next)
    BY <1>2 DEF PlatformNext
  <2> QED BY <1>2, <2>1, DeletionStep DEF DeletionInv
<1>3. ASSUME DeletionInv, UNCHANGED platform PROVE DeletionInv'
  <2>1. part' = part /\ UNCHANGED <<v1, v2, v3, v4, v5, v6, v7>>
    BY <1>3 DEF platform
  <2> QED BY <1>3, <2>1, DeletionStep DEF DeletionInv, Deletion!vars
<1> QED BY <1>1, <1>2, <1>3

(* No account is deleted by a request that was cancelled or blocked, whichever
   of the sweeps and the account page reads the row first. *)
THEOREM CancelledStaysKept == PlatformSpec => NoDeletionOfCancelled
BY DeletionCarried, PTL DEF PlatformSpec, NoDeletionOfCancelled

OnboardingCarriesOn == part = "onboarding" => Onboarding!Inv

LEMMA OnboardingCarried ==
  /\ PlatformInit => OnboardingCarriesOn
  /\ OnboardingCarriesOn /\ [PlatformNext]_platform => OnboardingCarriesOn'
  /\ OnboardingCarriesOn /\ [PlatformNext]_platform
       => [part = "onboarding" => Onboarding!AccountFollowsAgreement]_platform
<1>1. PlatformInit => OnboardingCarriesOn
  BY PlatformAssumption, OnboardingTypeInit, OnboardingAgreementInit
     DEF PlatformInit, OnboardingCarriesOn, Onboarding!Inv
<1>2. ASSUME OnboardingCarriesOn, PlatformNext
      PROVE  OnboardingCarriesOn' /\ (part = "onboarding" => Onboarding!AccountFollowsAgreement)
  <2>1. part' = part /\ (part = "onboarding" => Onboarding!Next)
    BY <1>2 DEF PlatformNext
  <2>2. ASSUME part = "onboarding" PROVE Onboarding!Inv' /\ Onboarding!AccountFollowsAgreement
    BY <1>2, <2>1, <2>2, PlatformAssumption, OnboardingTypeStep, OnboardingAgreementStep
       DEF OnboardingCarriesOn, Onboarding!Inv
  <2> QED BY <2>1, <2>2 DEF OnboardingCarriesOn
<1>3. ASSUME OnboardingCarriesOn, UNCHANGED platform PROVE OnboardingCarriesOn'
  <2>1. part' = part /\ UNCHANGED <<v1, v2, v3, v4>>
    BY <1>3 DEF platform
  <2> QED
    BY <1>3, <2>1
       DEF OnboardingCarriesOn, Onboarding!Inv, Onboarding!TypeOK,
           Onboarding!KnownAtStripe, Onboarding!PastAgreement
<1> QED BY <1>1, <1>2, <1>3

(* Whatever requests race, die or are repeated, an account is recorded in a
   profile, or replaces one, only when the agreement is on record
   (connect-account/route.ts:46); a host of before migration 028 keeps the
   account it has without one. *)
THEOREM AgreementFirst ==
  PlatformSpec => [][part = "onboarding" => Onboarding!AccountFollowsAgreement]_platform
BY OnboardingCarried, PTL DEF PlatformSpec

LEMMA ListingsCarried ==
  (PlatformInit => TypeOK) /\ (TypeOK /\ [PlatformNext]_platform => TypeOK')
<1>1. PlatformInit => TypeOK
  BY TypeInit DEF PlatformInit, NoListing
<1>2. ASSUME TypeOK, [PlatformNext]_platform PROVE TypeOK'
  <2>1. [Next]_vars
    BY <1>2 DEF PlatformNext, platform
  <2> QED BY <1>2, <2>1, TypeStep
<1> QED BY <1>1, <1>2

(* Whatever part is running, every row, request, sweep and page of it keeps its
   type. *)
THEOREM PartsAreTyped == PlatformSpec => []PartsTypeOK
<1> DEFINE
  PartsInv ==
    /\ TypeOK
    /\ AccountsInv /\ PasskeysInv /\ DeletionInv /\ OnboardingCarriesOn /\ AftercareInv
    /\ MigrationsInv /\ SavingInv /\ StayInv /\ TripInv /\ FormatInv /\ FeedsInv
    /\ SearchInv /\ MoneyInv
<1>1. PlatformInit => PartsInv
  BY ListingsCarried, AccountsCarried, PasskeysCarried, DeletionCarried, OnboardingCarried,
     AftercareCarried, MigrationsCarried, FavouritesCarried, StayCarried, TripCarried,
     FormatCarried, FeedsCarried, SearchCarried, MoneyCarried
<1>2. PartsInv /\ [PlatformNext]_platform => PartsInv'
  BY ListingsCarried, AccountsCarried, PasskeysCarried, DeletionCarried, OnboardingCarried,
     AftercareCarried, MigrationsCarried, FavouritesCarried, StayCarried, TripCarried,
     FormatCarried, FeedsCarried, SearchCarried, MoneyCarried
<1>3. PartsInv => PartsTypeOK
  BY DEF PartsTypeOK,
         AccountsInv, PasskeysInv, DeletionInv, OnboardingCarriesOn, AftercareInv,
         MigrationsInv, SavingInv, StayInv, TripInv, FormatInv, FeedsInv, SearchInv, MoneyInv,
         SignIn!Inv, Passkeys!Inv, Deletion!Inv, Onboarding!Inv, Aftercare!Inv,
         Migrations!Inv, Saving!Inv, Stay!Inv, Trip!Inv, Format!Inv, Feeds!Inv, Searching!Inv,
         Money!Inv
<1> HIDE DEF PartsInv
<1> QED BY <1>1, <1>2, <1>3, PTL DEF PlatformSpec

====
