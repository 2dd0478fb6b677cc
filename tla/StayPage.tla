------------------------------ MODULE StayPage ------------------------------
(***************************************************************************)
(* The page of a stay, where one guest picks dates and reserves, and the   *)
(* routes behind it.  The calendar shows the nights of the last answer to  *)
(* arrive; the attempt carries an idempotency key of the page's.  Other    *)
(* guests book and release nights meanwhile, the guest's own holds expire, *)
(* requests fail and answers are lost.                                     *)
(***************************************************************************)
EXTENDS Naturals

CONSTANTS
  LastNight,  \* the nights on offer are 1..LastNight
  MaxKey,     \* the idempotency keys the page draws, at most
  Fetches     \* reads of the availability that may be under way at once

(* What is assumed of the constants. *)
StayPageAssumption == LastNight \in Nat /\ MaxKey \in Nat \ {0}

VARIABLES
  listing,    \* what the property shows: shown, lapsed (published, its evidence not) or hidden
  taken,      \* nights others hold
  stays,      \* the bookings created with each key; a released one keeps its row
  form,       \* the page: dates, booking state, key, calendar, load state
  fetches,    \* each read of the availability
  reserve,    \* the POST to /api/bookings under way, or the last one
  reached     \* the booking whose checkout the page went to

stayPageVars == <<listing, taken, stays, form, fetches, reserve, reached>>

Nights == 1..LastNight
Dates == 1..(LastNight + 1)
Keys == 1..MaxKey
NoDate == 0
NoKey == 0
NoStay == [checkIn |-> NoDate, checkOut |-> NoDate, live |-> FALSE]
NoRequest == [key |-> NoKey, checkIn |-> NoDate, checkOut |-> NoDate, answer |-> "none"]

NightsOf(s) == {n \in Nights : s.checkIn <= n /\ n < s.checkOut}
Unavailable == taken \cup UNION {NightsOf(stays[k]) : k \in {k \in Keys : stays[k].live}}

\* A page as it opens: the dates come from the URL, as they are.
Opened(checkIn, checkOut, key) ==
  [checkIn |-> checkIn, checkOut |-> checkOut, key |-> key,
   booking |-> "idle", unavailableDates |-> {}, load |-> "loading"]

Bookings == [checkIn : Dates \cup {NoDate}, checkOut : Dates \cup {NoDate}, live : BOOLEAN]
Forms == [checkIn : Dates \cup {NoDate}, checkOut : Dates \cup {NoDate}, key : Keys,
          booking : {"idle", "submitting", "conflict", "error"},
          unavailableDates : SUBSET Nights, load : {"loading", "loaded", "notFound", "error"}]
Reads == [stage : {"none", "sent", "read", "failed"}, dates : SUBSET Nights]
Attempts == [key : Keys \cup {NoKey}, checkIn : Dates \cup {NoDate}, checkOut : Dates \cup {NoDate},
             answer : {"none", "sent", "booking", "DATES_UNAVAILABLE", "error", "unauthorized"}]

TypeOK ==
  /\ listing \in {"shown", "lapsed", "hidden"} /\ taken \subseteq Nights
  /\ stays \in [Keys -> Bookings] /\ form \in Forms
  /\ fetches \in [Fetches -> Reads]
  /\ reserve \in Attempts /\ reached \in Keys \cup {NoKey}

NoFetch == [stage |-> "none", dates |-> {}]

Init ==
  /\ listing = "shown" /\ taken \in SUBSET Nights
  /\ stays = [k \in Keys |-> NoStay]
  /\ \E in \in Dates \cup {NoDate}, out \in Dates \cup {NoDate} : form = Opened(in, out, 1)
  /\ fetches = [f \in Fetches |-> NoFetch]
  /\ reserve = NoRequest /\ reached = NoKey

-----------------------------------------------------------------------------
(* Loading the page and its calendar.                                      *)

\* Anyone but the owning host gets a 404 of a listing that is not shown.
PropertyRoute == IF listing = "shown" THEN "loaded" ELSE "notFound"

InterpretPropertyResponse ==
  /\ form.load = "loading"
  /\ form' \in {[form EXCEPT !.load = PropertyRoute],
                [form EXCEPT !.load = "error"]}
  /\ UNCHANGED <<listing, taken, stays, fetches, reserve, reached>>

\* On opening the page, and whenever the tab is looked at again.
FetchAvailability(f) ==
  /\ fetches[f].stage = "none"
  /\ fetches' = [fetches EXCEPT ![f].stage = "sent"]
  /\ UNCHANGED <<listing, taken, stays, form, reserve, reached>>

\* Whether the listing is published is all this route asks.
AvailabilityRead(f) ==
  /\ fetches[f].stage = "sent"
  /\ \/ listing # "hidden" /\ fetches' = [fetches EXCEPT ![f] = [stage |-> "read", dates |-> Unavailable]]
     \/ fetches' = [fetches EXCEPT ![f].stage = "failed"]
  /\ UNCHANGED <<listing, taken, stays, form, reserve, reached>>

\* The last answer to arrive is shown, whichever was asked for last; one that
\* failed changes nothing.
AvailabilityShown(f) ==
  /\ fetches[f].stage \in {"read", "failed"}
  /\ fetches' = [fetches EXCEPT ![f] = NoFetch]
  /\ form' = IF fetches[f].stage = "failed" THEN form
             ELSE [form EXCEPT !.unavailableDates = fetches[f].dates]
  /\ UNCHANGED <<listing, taken, stays, reserve, reached>>

Clickable(d) == d \notin form.unavailableDates

\* The first click is the arrival, a later second one the departure; the nights
\* between them are not looked at.  The calendar stays open during a request.
HandleCalendarSelect(d) ==
  /\ form.load = "loaded" /\ Clickable(d)
  /\ form' = IF form.checkIn # NoDate /\ form.checkOut = NoDate /\ d > form.checkIn
             THEN [form EXCEPT !.checkOut = d]
             ELSE [form EXCEPT !.checkIn = d, !.checkOut = NoDate]
  /\ UNCHANGED <<listing, taken, stays, fetches, reserve, reached>>

-----------------------------------------------------------------------------
(* Reserving.                                                              *)

ValidateBookingForm ==
  form.checkIn # NoDate /\ form.checkOut # NoDate /\ form.checkIn < form.checkOut

HandleReserve ==
  /\ form.load = "loaded" /\ form.booking # "submitting" /\ reached = NoKey
  /\ ValidateBookingForm
  /\ form' = [form EXCEPT !.booking = "submitting"]
  /\ reserve' = [key |-> form.key, checkIn |-> form.checkIn, checkOut |-> form.checkOut,
                 answer |-> "sent"]
  /\ UNCHANGED <<listing, taken, stays, fetches, reached>>

Answered(answer) == reserve' = [reserve EXCEPT !.answer = answer]

\* A key that has a booking gets that booking back, whatever dates are asked for.
CreateBooking ==
  /\ reserve.answer = "sent"
  /\ LET asked == [checkIn |-> reserve.checkIn, checkOut |-> reserve.checkOut, live |-> TRUE]
     IN \/ /\ stays[reserve.key] # NoStay /\ UNCHANGED stays
           /\ Answered("booking") \/ Answered("error")
        \/ /\ stays[reserve.key] = NoStay /\ listing = "shown"
           /\ IF NightsOf(asked) \cap Unavailable = {}
              THEN /\ stays' = [stays EXCEPT ![reserve.key] = asked]
                   /\ Answered("booking") \/ Answered("error")
              ELSE UNCHANGED stays /\ Answered("DATES_UNAVAILABLE")
        \/ UNCHANGED stays /\ (Answered("error") \/ Answered("unauthorized"))
  /\ UNCHANGED <<listing, taken, form, fetches, reached>>

\* (SameKey, a mutated form, keeps the key.)
SameKey == form.key
AfterFailure == form.key + 1

ReserveAnswered ==
  /\ form.booking = "submitting"
  /\ \/ /\ reserve.answer = "booking"
        /\ reached' = reserve.key /\ UNCHANGED form
     \/ /\ reserve.answer = "DATES_UNAVAILABLE" /\ AfterFailure \in Keys /\ UNCHANGED reached
        /\ form' = [form EXCEPT !.booking = "conflict", !.key = AfterFailure]
     \/ /\ reserve.answer = "error" /\ AfterFailure \in Keys /\ UNCHANGED reached
        /\ form' = [form EXCEPT !.booking = "error", !.key = AfterFailure]
     \/ \* to the login page and back: the dates are kept, the key is not
        /\ reserve.answer = "unauthorized" /\ form.key + 1 \in Keys /\ UNCHANGED reached
        /\ form' = Opened(form.checkIn, form.checkOut, form.key + 1)
  /\ reserve.answer # "sent"
  /\ UNCHANGED <<listing, taken, stays, fetches, reserve>>

\* The guest leaves the checkout and opens the stay again, with any dates.
OpenAgain ==
  /\ reached # NoKey /\ form.key + 1 \in Keys
  /\ reached' = NoKey /\ reserve' = NoRequest
  /\ \E in \in Dates \cup {NoDate}, out \in Dates \cup {NoDate} :
       form' = Opened(in, out, form.key + 1)
  /\ UNCHANGED <<listing, taken, stays, fetches>>

-----------------------------------------------------------------------------
(* What others do.                                                         *)

\* An expired hold, or a booking cancelled in another tab.
StayReleased(k) ==
  /\ stays[k].live /\ stays' = [stays EXCEPT ![k].live = FALSE]
  /\ UNCHANGED <<listing, taken, form, fetches, reserve, reached>>

OthersBookOrRelease(n) ==
  /\ n \in taken \/ n \notin Unavailable
  /\ taken' = IF n \in taken THEN taken \ {n} ELSE taken \cup {n}
  /\ UNCHANGED <<listing, stays, form, fetches, reserve, reached>>

ListingHidden ==
  /\ listing # "hidden"
  /\ listing' \in {"lapsed", "hidden"} \ {listing}
  /\ UNCHANGED <<taken, stays, form, fetches, reserve, reached>>

AvailabilityCalendar == \E d \in Dates : HandleCalendarSelect(d)
BookingPanel == AvailabilityCalendar \/ HandleReserve

Next ==
  \/ InterpretPropertyResponse
  \/ \E f \in Fetches : FetchAvailability(f) \/ AvailabilityRead(f) \/ AvailabilityShown(f)
  \/ BookingPanel \/ CreateBooking \/ ReserveAnswered \/ OpenAgain
  \/ \E k \in Keys : StayReleased(k)
  \/ \E n \in Nights : OthersBookOrRelease(n)
  \/ ListingHidden

Spec == Init /\ [][Next]_stayPageVars

-----------------------------------------------------------------------------
(* The checkout a guest is sent to is of a booking with the dates of the   *)
(* request the guest made, in spite of requests that failed, that were     *)
(* lost after the server had acted, or were made again with other dates    *)
(* (createBooking returns the booking of a key it has seen; the page draws *)
(* another key, page.tsx).                                                 *)
CheckoutIsForRequest ==
  reached # NoKey =>
    /\ stays[reached].checkIn = reserve.checkIn
    /\ stays[reached].checkOut = reserve.checkOut

-----------------------------------------------------------------------------
(* What the steps keep, and rely on.                                       *)

\* A key has no booking before its request is answered, and the page asks with its own.
KeysAreFresh ==
  /\ \A k \in Keys : k > form.key => stays[k] = NoStay
  /\ form.booking # "submitting" => stays[form.key] = NoStay /\ reached = NoKey
  /\ form.booking = "submitting" => reserve.key = form.key
  /\ reserve.answer = "sent" => form.booking = "submitting" /\ stays[reserve.key] = NoStay

\* The booking of an answer has the dates that were asked for.
AnswerIsForRequest ==
  /\ reserve.answer = "booking" =>
       /\ reserve.key \in Keys
       /\ stays[reserve.key].checkIn = reserve.checkIn
       /\ stays[reserve.key].checkOut = reserve.checkOut
  /\ reached # NoKey => reached = reserve.key /\ reserve.answer = "booking"

Inv == TypeOK /\ KeysAreFresh /\ AnswerIsForRequest
=============================================================================
