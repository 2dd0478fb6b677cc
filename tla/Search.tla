-------------------------------- MODULE Search --------------------------------
(***************************************************************************)
(* A guest searches by dates and guests, opens a stay of the results and   *)
(* books it with what was searched for.  The search and the booking ask    *)
(* the same questions in code of their own; the host edits the property,   *)
(* its evidence lapses and others book in between.                         *)
(***************************************************************************)
EXTENDS Integers, FiniteSets

CONSTANTS
  LastDay,   \* the days are 1..LastDay, the last one only to leave on
  Today,     \* a booking arrives today or later,
  Horizon,   \* and no later than twelve months ahead
  MostGuests \* the most guests a query can name

(* What is assumed of the constants. *)
SearchAssumption ==
  LastDay \in Nat \ {0} /\ Today \in Nat /\ Horizon \in Nat /\ MostGuests \in Nat \ {0}

VARIABLES
  property,  \* what the host and the reviewer decide about it
  taken,     \* the nights that are not available
  search,    \* the search page: its criteria, state and whether it shows the property
  visit,     \* the stay's page, opened from the results, and the answer to its booking
  changed    \* something changed since the search was answered

searchVars == <<property, taken, search, visit, changed>>

Days == 1..LastDay
Absent == 0
Criteria == [checkIn : Days \cup {Absent}, checkOut : Days \cup {Absent},
             guests : 0..MostGuests]
NoCriteria == [checkIn |-> Absent, checkOut |-> Absent, guests |-> Absent]
\* The host's word, the reviewer's and the evidence's are asked one after another,
\* and any of them hides it.  A save of one limit does not look at the other.  It is
\* priced if there are fees in force and, where these need it, its two rates of VAT.
Properties ==
  [state : {"shown", "unpublished", "unapproved", "expired"}, priced : BOOLEAN,
          maxGuests : 1..MostGuests, minStay : 1..2, maxStay : 1..2]
AllNights == 1..(LastDay - 1)

\* A results page holds fifty; crowded says that fifty others come before this one.
Pages == [criteria : Criteria, state : {"loading", "invalid", "error", "results"},
          shown : BOOLEAN, crowded : BOOLEAN]
VisitAnswers == {"closed", "open", "booked", "invalid", "PROPERTY_NOT_AVAILABLE",
                 "TOO_MANY_GUESTS", "BELOW_MIN_STAY", "ABOVE_MAX_STAY", "DATES_UNAVAILABLE",
                 "unpriced"}
Visits == [form : Criteria, answer : VisitAnswers]

TypeOK ==
  /\ property \in Properties /\ taken \subseteq AllNights
  /\ search \in Pages /\ visit \in Visits /\ changed \in BOOLEAN

Closed == [form |-> NoCriteria, answer |-> "closed"]

Init ==
  /\ property \in Properties /\ taken \in SUBSET AllNights
  /\ \E c \in Criteria :
       search = [criteria |-> c, state |-> "loading", shown |-> FALSE, crowded |-> FALSE]
  /\ visit = Closed /\ changed = FALSE

-----------------------------------------------------------------------------
(* Searching.                                                              *)

Dated(c) == c.checkIn # Absent /\ c.checkOut # Absent

\* Both dates or neither, the departure after the arrival.
ValidQuery(c) ==
  /\ (c.checkIn = Absent) <=> (c.checkOut = Absent)
  /\ Dated(c) => c.checkOut > c.checkIn

\* The rows of the calendar that are in the way, and the nights between the dates.
SearchBlocks(c) == {d \in taken : d >= c.checkIn /\ d < c.checkOut}
SearchNights(c) == c.checkOut - c.checkIn

\* (ShortEnough, a mutated form, does not ask for the minimum.)
ShortEnough(c) == property.maxStay >= SearchNights(c)
StayLimits(c) == property.minStay <= SearchNights(c) /\ property.maxStay >= SearchNights(c)

Conditions(c) ==
  /\ property.state = "shown"
  /\ c.guests # Absent => property.maxGuests >= c.guests
  /\ Dated(c) => SearchBlocks(c) = {} /\ StayLimits(c)

SearchRoute ==
  /\ search.state = "loading"
  /\ \/ search' = [search EXCEPT !.state = "error"]
     \/ /\ ~ValidQuery(search.criteria)
        /\ search' = [search EXCEPT !.state = "invalid"]
     \/ /\ ValidQuery(search.criteria)
        /\ \E crowded \in BOOLEAN :
             search' = [search EXCEPT !.state = "results", !.crowded = crowded,
                                      !.shown = Conditions(search.criteria) /\ ~crowded]
  /\ UNCHANGED <<property, taken, visit, changed>>

-----------------------------------------------------------------------------
(* Booking what was found.                                                 *)

\* The link carries the criteria; a guest count that is not there is one.
DetailHref(c) == [c EXCEPT !.guests = IF @ = Absent THEN 1 ELSE @]

OpenStay ==
  /\ search.state = "results" /\ search.shown /\ Dated(search.criteria)
  /\ visit.answer = "closed"
  /\ visit' = [form |-> DetailHref(search.criteria), answer |-> "open"]
  /\ UNCHANGED <<property, taken, search, changed>>

\* createBookingSchema: from today to twelve months ahead.
InBookingWindow(c) == Today <= c.checkIn /\ c.checkIn <= Horizon

NightsBetween(c) == c.checkOut - c.checkIn
Blocked(c) == {d \in taken : c.checkIn <= d /\ d < c.checkOut}
EnumerateDates(c) == c.checkIn .. (c.checkOut - 1)

BookingError(c) ==
  IF ~InBookingWindow(c) THEN "invalid"
  ELSE IF property.state # "shown" THEN "PROPERTY_NOT_AVAILABLE"
  ELSE IF c.guests > property.maxGuests THEN "TOO_MANY_GUESTS"
  ELSE IF NightsBetween(c) < property.minStay THEN "BELOW_MIN_STAY"
  ELSE IF NightsBetween(c) > property.maxStay THEN "ABOVE_MAX_STAY"
  ELSE IF Blocked(c) # {} THEN "DATES_UNAVAILABLE"
  ELSE IF ~property.priced THEN "unpriced" ELSE "booked"

CreateBooking ==
  /\ visit.answer = "open"
  /\ visit' = [visit EXCEPT !.answer = BookingError(visit.form)]
  /\ taken' = IF visit'.answer = "booked" THEN taken \cup EnumerateDates(visit.form) ELSE taken
  /\ changed' = (changed \/ visit'.answer = "booked")
  /\ UNCHANGED <<property, search>>

-----------------------------------------------------------------------------
(* What happens meanwhile.  Whatever was so before the search was answered *)
(* is an initial state; one change after it is enough.                     *)

MayChange == search.state = "results" /\ ~changed

PropertyChanges ==
  /\ MayChange /\ property' \in Properties \ {property} /\ changed' = TRUE
  /\ UNCHANGED <<taken, search, visit>>

NightChanges(n) ==
  /\ MayChange /\ taken' = IF n \in taken THEN taken \ {n} ELSE taken \cup {n}
  /\ changed' = TRUE
  /\ UNCHANGED <<property, search, visit>>

Next ==
  \/ SearchRoute \/ OpenStay \/ CreateBooking
  \/ PropertyChanges \/ \E n \in AllNights : NightChanges(n)

Spec == Init /\ [][Next]_searchVars

-----------------------------------------------------------------------------
(* As long as nothing has changed, a property that the search shows for    *)
(* some dates is booked with the link it shows, of the nights it counted,  *)
(* unless no price can be made of it; and one that would be booked is      *)
(* shown, unless fifty others come before it: the search "must enforce the *)
(* same stay limits as booking creation" (api/properties/route.ts:107).    *)
(* A booking that arrives in the past, or more than twelve months ahead,   *)
(* is another matter: the search offers it (schemas.ts:193) and the        *)
(* booking route refuses it (schemas.ts:67).                               *)
SearchAgreesWithBooking ==
  (search.state = "results" /\ ~changed /\ Dated(search.criteria)
     /\ InBookingWindow(search.criteria)) =>
    /\ search.shown =>
         /\ BookingError(DetailHref(search.criteria)) \in {"booked", "unpriced"}
         /\ Cardinality(EnumerateDates(DetailHref(search.criteria)))
              = SearchNights(search.criteria)
    /\ BookingError(DetailHref(search.criteria)) = "booked" =>
         search.shown \/ search.crowded

-----------------------------------------------------------------------------
(* What the steps keep, and rely on.                                       *)

\* Until something changes, what is shown is what the conditions say.
ShownIsSo ==
  search.state = "results" /\ ~changed =>
    /\ ValidQuery(search.criteria)
    /\ search.shown <=> Conditions(search.criteria) /\ ~search.crowded

\* A link carries the dates.
LinksAreDated == visit.answer # "closed" => Dated(visit.form)

Inv == TypeOK /\ ShownIsSo /\ LinksAreDated
=============================================================================
