---------------------------- MODULE Availability ----------------------------
(***************************************************************************)
(* The calendar of one property: availability_blocks, the one table that   *)
(* decides whether a night can be booked, and the four parties that write  *)
(* it: guests' bookings (lib/booking), the host's own blocks               *)
(* (lib/hosts/hostAvailability.ts), imported calendars                     *)
(* (lib/calendar/calendarSync.ts) and the sweep that lets expired holds go.*)
(*                                                                         *)
(* Every writer of the table takes the property's advisory lock and reads  *)
(* and writes under it in one transaction, so each is one action.  What    *)
(* runs outside the lock is split: fetching a calendar, and the webhooks   *)
(* that write bookings.status.                                             *)
(***************************************************************************)
EXTENDS Integers, FiniteSets

CONSTANTS
  Keys,       \* idempotency keys: UNIQUE, so each names at most one booking
  Feeds,      \* imported calendars, by id; a deleted id is never used again
  Syncers,    \* concurrent syncs: the sweep's and the host's
  LastNight,  \* bound on the calendar
  MaxStay,    \* max_stay_nights of the property (min_stay_nights is 1)
  MaxFeeds,   \* MAX_FEEDS_PER_PROPERTY
  Contents    \* the nights an external calendar may list, HOST's own left out

Nights == 0..LastNight

ASSUME CalendarAssumption ==
  /\ LastNight \in Nat /\ MaxStay \in Nat \ {0} /\ MaxFeeds \in Nat
  /\ Contents \subseteq SUBSET Nights /\ {} \in Contents

VARIABLES
  today,     \* CURRENT_DATE
  blocks,    \* availability_blocks of the property: the source, or no row
  booking,   \* bookings of the property
  feed,      \* property_calendar_feeds and their property_calendar_events
  remote,    \* what each external calendar lists now
  sync       \* the progress of each sync

vars == <<today, blocks, booking, feed, remote, sync>>

Sources == {"free", "host", "booking", "ical_sync"}
Statuses == {"none", "pending_payment", "confirmed", "completed", "cancelled",
             "refunded", "disputed"}

\* paid: a payments row that can be refunded.  released is history: the
\* booking's nights were given back (audit_log has it, bookings has not).
BookingRows == [status : Statuses, from : Nights, to : 0..(LastNight + 1),
                paid : BOOLEAN, released : BOOLEAN]
\* sync_status is left out: nothing but the host's page reads it.
\* tag is remote_etag, NULL ({}) or a hash of the content, so it may come back.
Tags == {{}} \cup {{c} : c \in Contents}
FeedRows == [state : {"absent", "present", "deleted"}, active : BOOLEAN,
             events : Contents, tag : Tags]
NoSync == [step |-> "idle", feed |-> "none", tag |-> {}, body |-> {}]
SyncStates ==
  {NoSync} \cup [step : {"fetching", "fetched", "unmodified"}, feed : Feeds,
                 tag : Tags, body : Contents]

TypeOK ==
  /\ today \in 0..(LastNight + 1)
  /\ blocks \in [Nights -> Sources]
  /\ booking \in [Keys -> BookingRows]
  /\ feed \in [Feeds -> FeedRows]
  /\ remote \in [Feeds -> Contents]
  /\ sync \in [Syncers -> SyncStates]

-----------------------------------------------------------------------------

NoBooking == [status |-> "none", from |-> 0, to |-> 0, paid |-> FALSE,
              released |-> FALSE]
NoFeed == [state |-> "absent", active |-> FALSE, events |-> {}, tag |-> {}]

Init ==
  /\ today = 0
  /\ blocks = [n \in Nights |-> "free"]
  /\ booking = [b \in Keys |-> NoBooking]
  /\ feed = [f \in Feeds |-> NoFeed]
  /\ remote \in [Feeds -> Contents]
  /\ sync = [s \in Syncers |-> NoSync]

\* enumerateDates: check_in inclusive, check_out exclusive.
Dates(from, to) == {n \in Nights : from <= n /\ n < to}
Stay(b) == Dates(booking[b].from, booking[b].to)
Exists(b) == booking[b].status # "none"
Holds(b) == Exists(b) /\ ~booking[b].released

\* The nights to come of the events of the active calendars.
Imported(feeds) ==
  {n \in Nights : n >= today /\
     \E f \in Feeds : feeds[f].state = "present" /\ feeds[f].active
                        /\ n \in feeds[f].events}

\* reconcileCalendarAvailability: imported rows are rebuilt around the others.
\* (RebuiltOver lets them win, KeptAsTheyWere does nothing: mutated forms.)
RebuiltOver(rows, feeds) ==
  [n \in Nights |-> IF n \in Imported(feeds) THEN "ical_sync"
                    ELSE IF rows[n] = "ical_sync" THEN "free" ELSE rows[n]]
KeptAsTheyWere(rows, feeds) == rows
Reconciled(rows, feeds) ==
  [n \in Nights |-> IF rows[n] \in {"host", "booking"} THEN rows[n]
                    ELSE IF n \in Imported(feeds) THEN "ical_sync" ELSE "free"]

-----------------------------------------------------------------------------
(* Bookings. *)

\* (CanBookAtStart, a mutated form, looks at the first night only.)
CanBookAtStart(from, to) == blocks[from] = "free"
CanBook(from, to) == \A n \in Dates(from, to) : blocks[n] = "free"

\* createBooking.  The property row is held FOR SHARE, so that it is bookable
\* until the commit; a property that is not refuses, and nothing changes.
CreateBooking(b, from, to) ==
  /\ ~Exists(b)
  /\ from < to /\ to - from <= MaxStay
  /\ CanBook(from, to)
  /\ blocks' = [n \in Nights |-> IF n \in Dates(from, to) THEN "booking" ELSE blocks[n]]
  /\ booking' = [booking EXCEPT ![b] =
       [NoBooking EXCEPT !.status = "pending_payment", !.from = from, !.to = to]]
  /\ UNCHANGED <<today, feed, remote, sync>>

\* The rows deleted when a booking is let go.  (GivenBackToCheckOut, a mutated
\* form, counts the day of departure as a night.)
GivenBackToCheckOut(b) ==
  {n \in Dates(booking[b].from, booking[b].to + 1) : blocks[n] = "booking"}
GivenBack(b) == {n \in Stay(b) : blocks[n] = "booking"}

\* What the three ways to let a booking go do to the calendar.
GiveBack(b, status) ==
  /\ blocks' = Reconciled([n \in Nights |-> IF n \in GivenBack(b) THEN "free"
                                            ELSE blocks[n]], feed)
  /\ booking' = [booking EXCEPT ![b].status = status, ![b].released = TRUE]
  /\ UNCHANGED <<today, feed, remote, sync>>

\* The hold, 15 minutes or the grace period, may have expired at any time.
ReleaseExpiredHold(b) ==
  booking[b].status = "pending_payment" /\ GiveBack(b, "cancelled")

CancelBooking(b) ==
  booking[b].status \in {"pending_payment", "confirmed"} /\ GiveBack(b, "cancelled")

DiscardUnpaidBooking(b) ==
  /\ booking[b].status = "pending_payment" /\ ~booking[b].paid
  /\ GiveBack(b, "cancelled")

-----------------------------------------------------------------------------
(* What the webhooks and the sweep do to a booking's status, without the     *)
(* property's lock.                                                          *)

SetStatus(b, status) ==
  /\ booking' = [booking EXCEPT ![b].status = status]
  /\ UNCHANGED <<today, blocks, feed, remote, sync>>

\* onPaymentSucceeded: the payment is recorded, a pending booking confirmed.
PaymentSucceeded(b) ==
  /\ Exists(b)
  /\ booking' = [booking EXCEPT
       ![b].paid = TRUE,
       ![b].status = IF @ = "pending_payment" THEN "confirmed" ELSE @]
  /\ UNCHANGED <<today, blocks, feed, remote, sync>>

\* (StatusOfPaymentAfter, a mutated form, is the status of the payments row.)
StatusOfPaymentAfter(full) == IF full THEN "refunded" ELSE "partially_refunded"
StatusAfterRefund(full) == IF full THEN "refunded" ELSE "confirmed"

\* onRefundEvent overwrites whatever status the booking had.
RefundSucceeded(b) ==
  /\ booking[b].paid
  /\ \E full \in BOOLEAN :
       booking' = [booking EXCEPT ![b].status = StatusAfterRefund(full), ![b].paid = ~full]
  /\ UNCHANGED <<today, blocks, feed, remote, sync>>

\* A refund of a booking that has not been let go.
TimelyRefund(b) == ~booking[b].released /\ RefundSucceeded(b)

\* onDisputeCreated does too.
DisputeCreated(b) == booking[b].paid /\ SetStatus(b, "disputed")

\* completeStaysAndRequestReviews
CompleteStay(b) ==
  /\ booking[b].status = "confirmed" /\ booking[b].to <= today
  /\ SetStatus(b, "completed")

-----------------------------------------------------------------------------
(* The host's own blocks: mutateAvailability. *)

\* Nights of a booking or of an imported calendar are skipped.
Mutable(from, to) == {n \in Dates(from, to) : blocks[n] \notin {"booking", "ical_sync"}}

MutateAvailability(from, to, source) ==
  /\ from < to
  /\ blocks' = Reconciled([n \in Nights |-> IF n \in Mutable(from, to) THEN source
                                            ELSE blocks[n]], feed)
  /\ UNCHANGED <<today, booking, feed, remote, sync>>

BlockDates(from, to) == MutateAvailability(from, to, "host")
UnblockDates(from, to) == MutateAvailability(from, to, "free")

-----------------------------------------------------------------------------
(* Imported calendars. *)

Present(f) == feed[f].state = "present"

CreateCalendarFeed(f) ==
  /\ feed[f].state = "absent"
  /\ Cardinality({g \in Feeds : Present(g)}) < MaxFeeds
  /\ feed' = [feed EXCEPT ![f].state = "present", ![f].active = TRUE]
  /\ UNCHANGED <<today, blocks, booking, remote, sync>>

\* A change of a feed rebuilds the imported rows in the same transaction.
ChangeFeed(f, row) ==
  /\ feed' = [feed EXCEPT ![f] = row]
  /\ blocks' = Reconciled(blocks, feed')
  /\ UNCHANGED <<today, booking, remote>>

SetCalendarFeedActive(f, active) ==
  /\ Present(f)
  /\ ChangeFeed(f, [feed[f] EXCEPT !.active = active])
  /\ UNCHANGED sync

\* ON DELETE CASCADE takes the events.
DeleteCalendarFeed(f) ==
  /\ Present(f)
  /\ ChangeFeed(f, [NoFeed EXCEPT !.state = "deleted"])
  /\ UNCHANGED sync

\* syncCalendarFeed reads the row, and marks it running.
BeginSync(s, f) ==
  /\ sync[s].step = "idle"
  /\ Present(f) /\ feed[f].active
  /\ sync' = [sync EXCEPT ![s] = [step |-> "fetching", feed |-> f,
                                  tag |-> feed[f].tag, body |-> {}]]
  /\ UNCHANGED <<today, blocks, booking, feed, remote>>

\* fetchCalendar with If-None-Match: the content, or that it is unmodified.
Fetch(s) ==
  LET content == remote[sync[s].feed] IN
  /\ sync[s].step = "fetching"
  /\ sync' = [sync EXCEPT
       ![s].step = IF sync[s].tag = {content} THEN "unmodified" ELSE "fetched",
       ![s].body = content]
  /\ UNCHANGED <<today, blocks, booking, feed, remote>>

EndSync(s) == sync' = [sync EXCEPT ![s] = NoSync]

\* replaceFeedEvents; for a feed deleted since, the insert fails or is empty.
ReplaceFeedEvents(s) ==
  LET f == sync[s].feed IN
  /\ sync[s].step = "fetched"
  /\ EndSync(s)
  /\ IF Present(f)
     THEN ChangeFeed(f, [feed[f] EXCEPT !.events = sync[s].body, !.tag = {sync[s].body}])
     ELSE /\ blocks' \in {blocks, Reconciled(blocks, feed)}
          /\ UNCHANGED <<today, booking, feed, remote>>

\* A 304 answer writes the tag it came with.
KeepUnmodified(s) ==
  LET f == sync[s].feed IN
  /\ sync[s].step = "unmodified"
  /\ EndSync(s)
  /\ feed' = IF Present(f) THEN [feed EXCEPT ![f].tag = {sync[s].body}] ELSE feed
  /\ UNCHANGED <<today, blocks, booking, remote>>

\* A fetch, a parse or a transaction that fails, or a process that dies.
FailSync(s) ==
  /\ sync[s].step # "idle"
  /\ EndSync(s)
  /\ UNCHANGED <<today, blocks, booking, feed, remote>>

\* Reservations come and go on the external calendar.
RemoteChanges(f) ==
  /\ \E content \in Contents : remote' = [remote EXCEPT ![f] = content]
  /\ UNCHANGED <<today, blocks, booking, feed, sync>>

NextDay ==
  /\ today <= LastNight
  /\ today' = today + 1
  /\ UNCHANGED <<blocks, booking, feed, remote, sync>>

-----------------------------------------------------------------------------

GuestStep(b) ==
  \/ \E from, to \in 0..(LastNight + 1) : CreateBooking(b, from, to)
  \/ ReleaseExpiredHold(b) \/ CancelBooking(b) \/ DiscardUnpaidBooking(b)
  \/ PaymentSucceeded(b) \/ DisputeCreated(b) \/ CompleteStay(b)

HostStep ==
  \/ \E from, to \in 0..(LastNight + 1) : BlockDates(from, to) \/ UnblockDates(from, to)
  \/ \E f \in Feeds : \/ CreateCalendarFeed(f) \/ DeleteCalendarFeed(f)
                      \/ \E active \in BOOLEAN : SetCalendarFeedActive(f, active)

SyncStep(s) ==
  \/ \E f \in Feeds : BeginSync(s, f)
  \/ Fetch(s) \/ ReplaceFeedEvents(s) \/ KeepUnmodified(s) \/ FailSync(s)

OtherStep ==
  \/ \E b \in Keys : GuestStep(b)
  \/ HostStep
  \/ \E s \in Syncers : SyncStep(s)
  \/ \E f \in Feeds : RemoteChanges(f)
  \/ NextDay

Next == OtherStep \/ \E b \in Keys : RefundSucceeded(b)
Spec == Init /\ [][Next]_vars

\* The system as long as no refund of a cancelled booking succeeds.
NextTimely == OtherStep \/ \E b \in Keys : TimelyRefund(b)
SpecTimely == Init /\ [][NextTimely]_vars

-----------------------------------------------------------------------------
(* What the calendar promises. *)

\* No night is sold twice: bookings that wait for payment or are confirmed
\* never share a night, whatever is booked, cancelled, expired, discarded,
\* blocked or imported in between.  It holds of SpecTimely, and not of Spec:
\* the refund a cancellation asks for makes the booking confirmed again.
NoDoubleBooking ==
  \A a, b \in Keys :
    a # b /\ booking[a].status \in {"pending_payment", "confirmed"}
          /\ booking[b].status \in {"pending_payment", "confirmed"}
      => Stay(a) \cap Stay(b) = {}

\* The calendar and the bookings agree: a night is marked as booked exactly
\* while a booking that has not given it back holds it.
BlocksMatchBookings ==
  \A n \in Nights : blocks[n] = "booking" <=> \E b \in Keys : Holds(b) /\ n \in Stay(b)

\* Imported nights are taken, and nothing else is taken in their name: a
\* cancellation or an unblock that frees a night an external calendar also
\* occupies never makes it bookable, and a removed calendar leaves no block.
ImportedNightsAreTaken ==
  \A n \in Nights :
    /\ n \in Imported(feed) => blocks[n] # "free"
    /\ blocks[n] = "ical_sync" =>
         \E f \in Feeds : Present(f) /\ feed[f].active /\ n \in feed[f].events

\* A host's block ends only when the host unblocks the night.
HostBlocksStay ==
  [][\A n \in Nights : blocks[n] = "host" /\ blocks'[n] # "host"
       => \E from, to \in 0..(LastNight + 1) :
            n \in Dates(from, to) /\ UnblockDates(from, to)]_vars

\* The calendar implements the inventory: bookings take all of their nights at
\* once, none of them another's, and only their own leaving frees them.
Held == [b \in Keys |-> IF Holds(b) THEN Stay(b) ELSE {}]
Abstract == INSTANCE Inventory WITH held <- Held
ImplementsInventory == Abstract!Spec
=============================================================================
