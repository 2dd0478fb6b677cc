------------------------ MODULE AvailabilityProofs ------------------------
(***************************************************************************)
(* What the calendar promises for any number of bookings, feeds and syncs, *)
(* and a calendar of any length.                                           *)
(***************************************************************************)
EXTENDS Availability, TLAPS

\* Every booking row has at least one night: createBooking refused the others.
StaysAreReal == \A b \in Keys : Exists(b) => booking[b].from < booking[b].to

\* A booking that waits for payment or is confirmed has not been let go.
ActiveHolds ==
  \A b \in Keys : booking[b].status \in {"pending_payment", "confirmed"} => Holds(b)

HoldersAreDisjoint ==
  \A a, b \in Keys : a # b /\ Holds(a) /\ Holds(b) => Stay(a) \cap Stay(b) = {}

\* A feed that is not there has no events.
AbsentFeedsAreEmpty ==
  \A f \in Feeds : feed[f].state # "present" => feed[f].events = {}

\* Only a booking is paid for.
PaidExists == \A b \in Keys : booking[b].paid => Exists(b)

IInv == /\ TypeOK /\ StaysAreReal /\ PaidExists /\ ActiveHolds
        /\ HoldersAreDisjoint /\ BlocksMatchBookings

-----------------------------------------------------------------------------
(* The calendar's helpers. *)

LEMMA ReconciledKeeps ==
  ASSUME NEW rows, NEW feeds, NEW n \in Nights
  PROVE  /\ Reconciled(rows, feeds)[n] = "booking" <=> rows[n] = "booking"
         /\ Reconciled(rows, feeds)[n] = "host" <=> rows[n] = "host"
BY DEF Reconciled

LEMMA ReconciledType ==
  ASSUME NEW rows \in [Nights -> Sources], NEW feeds
  PROVE  Reconciled(rows, feeds) \in [Nights -> Sources]
<1>1. \A n \in Nights : Reconciled(rows, feeds)[n] \in Sources
  BY DEF Reconciled, Sources
<1> QED BY <1>1 DEF Reconciled

\* Rebuilt rows are those of the active calendars, and leave none of them free.
LEMMA ReconciledCovers ==
  ASSUME NEW rows, NEW feeds, NEW n \in Nights
  PROVE  /\ n \in Imported(feeds) => Reconciled(rows, feeds)[n] # "free"
         /\ Reconciled(rows, feeds)[n] = "ical_sync" => n \in Imported(feeds)
BY DEF Reconciled

LEMMA DatesAreNights ==
  ASSUME NEW from, NEW to
  PROVE  Dates(from, to) \subseteq Nights
BY DEF Dates

LEMMA FirstNight ==
  ASSUME NEW from \in 0..(LastNight + 1), NEW to \in 0..(LastNight + 1), from < to
  PROVE  from \in Nights /\ from \in Dates(from, to)
BY CalendarAssumption DEF Nights, Dates

-----------------------------------------------------------------------------
(* Type correctness. *)

LEMMA InitType == Init => TypeOK
<1> SUFFICES ASSUME Init PROVE TypeOK
  OBVIOUS
<1> USE CalendarAssumption
<1>1. today \in 0..(LastNight + 1) /\ blocks \in [Nights -> Sources]
  BY DEF Init, Sources
<1>2. NoBooking \in BookingRows
  BY DEF NoBooking, BookingRows, Statuses, Nights
<1>3. NoFeed \in FeedRows
  BY DEF NoFeed, FeedRows, Tags
<1>4. NoSync \in SyncStates
  BY DEF NoSync, SyncStates, Tags
<1> QED BY <1>1, <1>2, <1>3, <1>4 DEF Init, TypeOK

LEMMA SetStatusType ==
  ASSUME TypeOK, NEW b \in Keys, NEW status \in Statuses, SetStatus(b, status)
  PROVE  TypeOK'
<1>1. booking' \in [Keys -> BookingRows]
  BY DEF TypeOK, SetStatus, BookingRows
<1> QED BY <1>1 DEF TypeOK, SetStatus

LEMMA GiveBackType ==
  ASSUME TypeOK, NEW b \in Keys, NEW status \in Statuses, GiveBack(b, status)
  PROVE  TypeOK'
<1>1. booking' \in [Keys -> BookingRows]
  BY DEF TypeOK, GiveBack, BookingRows
<1> DEFINE rows == [n \in Nights |-> IF n \in GivenBack(b) THEN "free" ELSE blocks[n]]
<1>2. rows \in [Nights -> Sources]
  BY DEF TypeOK, Sources
<1>3. blocks' \in [Nights -> Sources]
  BY <1>2, ReconciledType DEF GiveBack
<1> QED BY <1>1, <1>3 DEF TypeOK, GiveBack

LEMMA MutateType ==
  ASSUME TypeOK, NEW from, NEW to, NEW source \in Sources,
         MutateAvailability(from, to, source)
  PROVE  TypeOK'
<1> DEFINE rows == [n \in Nights |-> IF n \in Mutable(from, to) THEN source ELSE blocks[n]]
<1>1. rows \in [Nights -> Sources]
  BY DEF TypeOK
<1>2. blocks' \in [Nights -> Sources]
  BY <1>1, ReconciledType DEF MutateAvailability
<1> QED BY <1>2 DEF TypeOK, MutateAvailability

LEMMA ChangeFeedType ==
  ASSUME TypeOK, NEW f \in Feeds, NEW row \in FeedRows, ChangeFeed(f, row),
         sync' \in [Syncers -> SyncStates]
  PROVE  TypeOK'
<1>1. feed' \in [Feeds -> FeedRows]
  BY DEF TypeOK, ChangeFeed
<1>2. blocks' \in [Nights -> Sources]
  BY ReconciledType DEF TypeOK, ChangeFeed
<1> QED BY <1>1, <1>2 DEF TypeOK, ChangeFeed

LEMMA EndSyncType ==
  ASSUME TypeOK, NEW s \in Syncers, EndSync(s)
  PROVE  sync' \in [Syncers -> SyncStates]
<1>1. NoSync \in SyncStates
  BY CalendarAssumption DEF NoSync, SyncStates, Tags
<1> QED BY <1>1 DEF TypeOK, EndSync

LEMMA GuestType == TypeOK /\ (\E b \in Keys : GuestStep(b)) => TypeOK'
<1> SUFFICES ASSUME TypeOK, NEW b \in Keys, GuestStep(b) PROVE TypeOK'
  OBVIOUS
<1>1. ASSUME NEW from \in 0..(LastNight + 1), NEW to \in 0..(LastNight + 1),
             CreateBooking(b, from, to)
      PROVE  TypeOK'
  <2>1. from \in Nights
    BY <1>1, FirstNight DEF CreateBooking
  <2>2. booking' \in [Keys -> BookingRows]
    BY <1>1, <2>1, CalendarAssumption
    DEF TypeOK, CreateBooking, BookingRows, NoBooking, Statuses, Nights
  <2>3. blocks' \in [Nights -> Sources]
    BY <1>1 DEF TypeOK, CreateBooking, Sources
  <2> QED BY <1>1, <2>2, <2>3 DEF TypeOK, CreateBooking
<1>2. CASE ReleaseExpiredHold(b) \/ CancelBooking(b) \/ DiscardUnpaidBooking(b)
  BY <1>2, GiveBackType DEF ReleaseExpiredHold, CancelBooking, DiscardUnpaidBooking, Statuses
<1>3. CASE PaymentSucceeded(b)
  <2>1. booking' \in [Keys -> BookingRows]
    BY <1>3, ZenonT(60) DEF TypeOK, PaymentSucceeded, BookingRows, Statuses
  <2> QED BY <1>3, <2>1 DEF TypeOK, PaymentSucceeded
<1>4. CASE DisputeCreated(b) \/ CompleteStay(b)
  BY <1>4, SetStatusType DEF DisputeCreated, CompleteStay, Statuses
<1> QED BY <1>1, <1>2, <1>3, <1>4 DEF GuestStep

LEMMA HostType == TypeOK /\ HostStep => TypeOK'
<1> SUFFICES ASSUME TypeOK, HostStep PROVE TypeOK'
  OBVIOUS
<1>1. ASSUME NEW from \in 0..(LastNight + 1), NEW to \in 0..(LastNight + 1),
             BlockDates(from, to) \/ UnblockDates(from, to)
      PROVE  TypeOK'
  BY <1>1, MutateType DEF BlockDates, UnblockDates, Sources
<1>2. ASSUME NEW f \in Feeds, CreateCalendarFeed(f) PROVE TypeOK'
  <2>1. feed' \in [Feeds -> FeedRows]
    BY <1>2 DEF TypeOK, CreateCalendarFeed, FeedRows
  <2> QED BY <1>2, <2>1 DEF TypeOK, CreateCalendarFeed
<1>3. ASSUME NEW f \in Feeds, DeleteCalendarFeed(f) PROVE TypeOK'
  <2>1. [NoFeed EXCEPT !.state = "deleted"] \in FeedRows
    BY CalendarAssumption DEF NoFeed, FeedRows, Tags
  <2> QED BY <1>3, <2>1, ChangeFeedType DEF DeleteCalendarFeed, TypeOK
<1>4. ASSUME NEW f \in Feeds, NEW active \in BOOLEAN, SetCalendarFeedActive(f, active)
      PROVE  TypeOK'
  <2>1. [feed[f] EXCEPT !.active = active] \in FeedRows
    BY DEF TypeOK, FeedRows
  <2> QED BY <1>4, <2>1, ChangeFeedType DEF SetCalendarFeedActive, TypeOK
<1> QED BY <1>1, <1>2, <1>3, <1>4 DEF HostStep

LEMMA SyncType == TypeOK /\ (\E s \in Syncers : SyncStep(s)) => TypeOK'
<1> SUFFICES ASSUME TypeOK, NEW s \in Syncers, SyncStep(s) PROVE TypeOK'
  OBVIOUS
<1> DEFINE g == sync[s].feed
<1>0. sync[s].body \in Contents /\ {sync[s].body} \in Tags
      /\ (sync[s].step # "idle" => g \in Feeds)
  <2>1. sync[s] \in SyncStates
    BY DEF TypeOK
  <2>2. CASE sync[s] = NoSync
    <3>1. sync[s].step = "idle" /\ sync[s].body \in Contents
      BY <2>2, CalendarAssumption DEF NoSync
    <3> QED BY <3>1 DEF Tags
  <2>3. CASE sync[s] # NoSync
    BY <2>1, <2>3 DEF SyncStates, Tags
  <2> QED BY <2>2, <2>3
<1>1. ASSUME NEW f \in Feeds, BeginSync(s, f) PROVE TypeOK'
  <2>1. [step |-> "fetching", feed |-> f, tag |-> feed[f].tag, body |-> {}] \in SyncStates
    BY CalendarAssumption DEF TypeOK, SyncStates, FeedRows
  <2>2. sync' \in [Syncers -> SyncStates]
    BY <1>1, <2>1 DEF TypeOK, BeginSync
  <2> QED BY <1>1, <2>2 DEF TypeOK, BeginSync
<1>2. CASE Fetch(s)
  <2>1. sync[s] \in [step : {"fetching", "fetched", "unmodified"}, feed : Feeds,
                     tag : Tags, body : Contents] /\ remote[g] \in Contents
    BY <1>2 DEF TypeOK, Fetch, SyncStates, NoSync
  <2>2. sync'[s] \in SyncStates
    BY <1>2, <2>1 DEF TypeOK, Fetch, SyncStates
  <2>3. sync' \in [Syncers -> SyncStates]
    BY <1>2, <2>2 DEF TypeOK, Fetch
  <2> QED BY <1>2, <2>3 DEF TypeOK, Fetch
<1>3. CASE ReplaceFeedEvents(s)
  <2>1. sync' \in [Syncers -> SyncStates] /\ g \in Feeds
    BY <1>0, <1>3, EndSyncType DEF ReplaceFeedEvents
  <2>2. CASE Present(g)
    <3>1. [feed[g] EXCEPT !.events = sync[s].body, !.tag = {sync[s].body}] \in FeedRows
      BY <1>0, <2>1 DEF TypeOK, FeedRows
    <3> QED BY <1>3, <2>1, <2>2, <3>1, ChangeFeedType DEF ReplaceFeedEvents
  <2>3. CASE ~Present(g)
    <3>1. blocks' \in [Nights -> Sources]
      BY <1>3, <2>3, ReconciledType DEF ReplaceFeedEvents, TypeOK
    <3> QED BY <1>3, <2>1, <2>3, <3>1 DEF ReplaceFeedEvents, TypeOK
  <2> QED BY <2>2, <2>3
<1>4. CASE KeepUnmodified(s)
  <2>1. sync' \in [Syncers -> SyncStates] /\ g \in Feeds
    BY <1>0, <1>4, EndSyncType DEF KeepUnmodified
  <2>2. [feed[g] EXCEPT !.tag = {sync[s].body}] \in FeedRows
    BY <1>0, <2>1 DEF TypeOK, FeedRows
  <2>3. feed' \in [Feeds -> FeedRows]
    BY <1>4, <2>1, <2>2 DEF KeepUnmodified, TypeOK
  <2> QED BY <1>4, <2>1, <2>3 DEF KeepUnmodified, TypeOK
<1>5. CASE FailSync(s)
  BY <1>5, EndSyncType DEF FailSync, TypeOK
<1> QED BY <1>1, <1>2, <1>3, <1>4, <1>5 DEF SyncStep

LEMMA RefundType == TypeOK /\ (\E b \in Keys : RefundSucceeded(b)) => TypeOK'
<1> SUFFICES ASSUME TypeOK, NEW b \in Keys, RefundSucceeded(b) PROVE TypeOK'
  OBVIOUS
<1>1. PICK full \in BOOLEAN :
        booking' = [booking EXCEPT ![b].status = StatusAfterRefund(full), ![b].paid = ~full]
  BY DEF RefundSucceeded
<1>2. StatusAfterRefund(full) \in Statuses
  BY DEF StatusAfterRefund, Statuses
<1>3. [booking[b] EXCEPT !.status = StatusAfterRefund(full), !.paid = ~full] \in BookingRows
  BY <1>2 DEF TypeOK, BookingRows
<1>4. booking' \in [Keys -> BookingRows]
  BY <1>1, <1>3 DEF TypeOK
<1> QED BY <1>4 DEF TypeOK, RefundSucceeded

LEMMA ElsewhereType ==
  ASSUME TypeOK, (\E f \in Feeds : RemoteChanges(f)) \/ NextDay
  PROVE  TypeOK'
<1>1. ASSUME NEW f \in Feeds, RemoteChanges(f) PROVE TypeOK'
  BY <1>1 DEF TypeOK, RemoteChanges
<1>2. CASE NextDay
  <2>1. today' \in 0..(LastNight + 1)
    BY <1>2, CalendarAssumption DEF TypeOK, NextDay
  <2> QED BY <1>2, <2>1 DEF TypeOK, NextDay
<1> QED BY <1>1, <1>2

LEMMA NextType == TypeOK /\ [Next]_vars => TypeOK'
<1> SUFFICES ASSUME TypeOK, [Next]_vars PROVE TypeOK'
  OBVIOUS
<1>1. CASE Next
  BY <1>1, GuestType, HostType, SyncType, RefundType, ElsewhereType DEF Next, OtherStep
<1>2. CASE UNCHANGED vars
  BY <1>2 DEF TypeOK, vars
<1> QED BY <1>1, <1>2

\* The calendar's state keeps its types, whatever its length and whoever acts.
THEOREM TypeCorrect == Spec => []TypeOK
BY InitType, NextType, PTL DEF Spec
-----------------------------------------------------------------------------
(* A host's block. *)

\* No step of the whole system ends a host's block but the host's unblocking.
LEMMA HostBlocksStep ==
  ASSUME [Next]_vars, NEW n \in Nights, blocks[n] = "host", blocks'[n] # "host"
  PROVE  \E from, to \in 0..(LastNight + 1) : n \in Dates(from, to) /\ UnblockDates(from, to)
<1>1. ASSUME NEW b \in Keys, GuestStep(b) PROVE blocks'[n] = "host"
  <2>1. ASSUME NEW from \in 0..(LastNight + 1), NEW to \in 0..(LastNight + 1),
               CreateBooking(b, from, to)
        PROVE  blocks'[n] = "host"
    BY <2>1 DEF CreateBooking, CanBook
  <2>2. ASSUME NEW status, GiveBack(b, status) PROVE blocks'[n] = "host"
    <3> DEFINE rows == [m \in Nights |-> IF m \in GivenBack(b) THEN "free" ELSE blocks[m]]
    <3>1. rows[n] = "host"
      BY DEF GivenBack
    <3> QED BY <2>2, <3>1, ReconciledKeeps DEF GiveBack
  <2>3. CASE ReleaseExpiredHold(b) \/ CancelBooking(b) \/ DiscardUnpaidBooking(b)
    BY <2>2, <2>3 DEF ReleaseExpiredHold, CancelBooking, DiscardUnpaidBooking
  <2>4. CASE PaymentSucceeded(b) \/ DisputeCreated(b) \/ CompleteStay(b)
    BY <2>4 DEF PaymentSucceeded, DisputeCreated, CompleteStay, SetStatus
  <2> QED BY <1>1, <2>1, <2>3, <2>4 DEF GuestStep
<1>2. ASSUME NEW f \in Feeds, NEW row, ChangeFeed(f, row) PROVE blocks'[n] = "host"
  BY <1>2, ReconciledKeeps DEF ChangeFeed
<1>3. ASSUME NEW from \in 0..(LastNight + 1), NEW to \in 0..(LastNight + 1),
             BlockDates(from, to)
      PROVE  blocks'[n] = "host"
  <2> DEFINE rows == [m \in Nights |-> IF m \in Mutable(from, to) THEN "host" ELSE blocks[m]]
  <2>1. rows[n] = "host"
    OBVIOUS
  <2> QED BY <1>3, <2>1, ReconciledKeeps DEF BlockDates, MutateAvailability
<1>4. ASSUME NEW from \in 0..(LastNight + 1), NEW to \in 0..(LastNight + 1),
             UnblockDates(from, to)
      PROVE  n \in Dates(from, to)
  <2> DEFINE rows == [m \in Nights |-> IF m \in Mutable(from, to) THEN "free" ELSE blocks[m]]
  <2>1. blocks' = Reconciled(rows, feed)
    BY <1>4 DEF UnblockDates, MutateAvailability
  <2>2. rows[n] # "host"
    BY <2>1, ReconciledKeeps
  <2> QED BY <2>2 DEF Mutable
<1>5. ASSUME NEW f \in Feeds, NEW active,
             CreateCalendarFeed(f) \/ DeleteCalendarFeed(f) \/ SetCalendarFeedActive(f, active)
      PROVE  blocks'[n] = "host"
  BY <1>2, <1>5 DEF CreateCalendarFeed, DeleteCalendarFeed, SetCalendarFeedActive
<1>6. ASSUME NEW s \in Syncers, SyncStep(s) PROVE blocks'[n] = "host"
  <2>1. CASE ReplaceFeedEvents(s)
    BY <2>1, ReconciledKeeps DEF ReplaceFeedEvents, ChangeFeed
  <2>2. CASE ~ReplaceFeedEvents(s)
    BY <1>6, <2>2 DEF SyncStep, BeginSync, Fetch, KeepUnmodified, FailSync
  <2> QED BY <2>1, <2>2
<1>7. HostStep
  BY <1>1, <1>6 DEF Next, OtherStep, RefundSucceeded, RemoteChanges, NextDay, vars
<1> QED BY <1>3, <1>4, <1>5, <1>7 DEF HostStep

\* A host's block ends only when the host unblocks the night.
THEOREM HostBlocksEndByUnblocking == Spec => HostBlocksStay
<1>1. [Next]_vars => [\A n \in Nights : blocks[n] = "host" /\ blocks'[n] # "host"
        => \E from, to \in 0..(LastNight + 1) :
             n \in Dates(from, to) /\ UnblockDates(from, to)]_vars
  BY HostBlocksStep
<1> QED BY <1>1, PTL DEF Spec, HostBlocksStay
-----------------------------------------------------------------------------
(* Imported nights. *)

ImportedInv == TypeOK /\ AbsentFeedsAreEmpty /\ ImportedNightsAreTaken

\* A rebuilt calendar takes the imported nights, and no others in their name.
LEMMA RebuiltIsRight ==
  ASSUME NEW rows, blocks' = Reconciled(rows, feed'), today' = today
  PROVE  ImportedNightsAreTaken'
<1> SUFFICES ASSUME NEW n \in Nights
             PROVE  /\ n \in Imported(feed)' => blocks'[n] # "free"
                    /\ blocks'[n] = "ical_sync" =>
                         \E f \in Feeds : Present(f)' /\ feed'[f].active /\ n \in feed'[f].events
  BY DEF ImportedNightsAreTaken
<1>1. Imported(feed)' = Imported(feed')
  BY DEF Imported
<1>2. n \in Imported(feed') => \E f \in Feeds : Present(f)' /\ feed'[f].active /\ n \in feed'[f].events
  BY DEF Imported, Present
<1> QED BY <1>1, <1>2, ReconciledCovers

\* Steps that neither free a night nor import one.
LEMMA StillTaken ==
  ASSUME ImportedNightsAreTaken, UNCHANGED <<today, feed>>,
         \A n \in Nights : blocks'[n] \in {blocks[n], "booking"}
  PROVE  ImportedNightsAreTaken'
BY DEF ImportedNightsAreTaken, Imported, Present

LEMMA ImportedStep == ImportedInv /\ [Next]_vars => ImportedInv'
<1> SUFFICES ASSUME ImportedInv, [Next]_vars PROVE ImportedInv'
  OBVIOUS
<1> USE DEF ImportedInv
<1>1. TypeOK'
  BY NextType
<1>2. ASSUME UNCHANGED <<today, feed>>,
             blocks' = blocks \/ \E rows : blocks' = Reconciled(rows, feed)
      PROVE  ImportedInv'
  <2>1. AbsentFeedsAreEmpty'
    BY <1>2 DEF AbsentFeedsAreEmpty
  <2>2. ImportedNightsAreTaken'
    BY <1>2, StillTaken, RebuiltIsRight
  <2> QED BY <1>1, <2>1, <2>2
<1>3. ASSUME NEW f \in Feeds, NEW row, ChangeFeed(f, row),
             row.state # "present" => row.events = {}
      PROVE  ImportedInv'
  <2>1. AbsentFeedsAreEmpty'
    BY <1>3 DEF AbsentFeedsAreEmpty, ChangeFeed, TypeOK
  <2>2. ImportedNightsAreTaken'
    BY <1>3, RebuiltIsRight DEF ChangeFeed
  <2> QED BY <1>1, <2>1, <2>2
<1>4. ASSUME NEW b \in Keys, GuestStep(b) PROVE ImportedInv'
  <2>1. ASSUME NEW from \in 0..(LastNight + 1), NEW to \in 0..(LastNight + 1),
               CreateBooking(b, from, to)
        PROVE  ImportedInv'
    <3>1. ImportedNightsAreTaken'
      BY <2>1, StillTaken DEF CreateBooking
    <3> QED BY <1>1, <2>1, <3>1 DEF CreateBooking, AbsentFeedsAreEmpty
  <2>2. CASE ReleaseExpiredHold(b) \/ CancelBooking(b) \/ DiscardUnpaidBooking(b)
    BY <1>2, <2>2 DEF ReleaseExpiredHold, CancelBooking, DiscardUnpaidBooking, GiveBack
  <2>3. CASE PaymentSucceeded(b) \/ DisputeCreated(b) \/ CompleteStay(b)
    BY <1>2, <2>3 DEF PaymentSucceeded, DisputeCreated, CompleteStay, SetStatus
  <2> QED BY <1>4, <2>1, <2>2, <2>3 DEF GuestStep
<1>5. CASE HostStep
  <2>1. ASSUME NEW from \in 0..(LastNight + 1), NEW to \in 0..(LastNight + 1),
               BlockDates(from, to) \/ UnblockDates(from, to)
        PROVE  ImportedInv'
    BY <1>2, <2>1 DEF BlockDates, UnblockDates, MutateAvailability
  <2>2. ASSUME NEW f \in Feeds, CreateCalendarFeed(f) PROVE ImportedInv'
    <3>1. feed[f].events = {} /\ feed' = [feed EXCEPT ![f].state = "present", ![f].active = TRUE]
      BY <2>2 DEF CreateCalendarFeed, AbsentFeedsAreEmpty
    <3>2. AbsentFeedsAreEmpty'
      BY <3>1 DEF AbsentFeedsAreEmpty, TypeOK
    <3>3. ASSUME NEW n \in Nights, NEW g \in Feeds
          PROVE  (Present(g)' /\ feed'[g].active /\ n \in feed'[g].events)
                   <=> (Present(g) /\ feed[g].active /\ n \in feed[g].events)
      BY <2>2, <3>1 DEF Present, TypeOK, CreateCalendarFeed
    <3>4. ImportedNightsAreTaken'
      BY <2>2, <3>3 DEF ImportedNightsAreTaken, Imported, Present, CreateCalendarFeed
    <3> QED BY <1>1, <3>2, <3>4
  <2>3. ASSUME NEW f \in Feeds, DeleteCalendarFeed(f) PROVE ImportedInv'
    BY <1>3, <2>3 DEF DeleteCalendarFeed, NoFeed
  <2>4. ASSUME NEW f \in Feeds, NEW active \in BOOLEAN, SetCalendarFeedActive(f, active)
        PROVE  ImportedInv'
    BY <1>3, <2>4 DEF SetCalendarFeedActive, Present, TypeOK, FeedRows
  <2> QED BY <1>5, <2>1, <2>2, <2>3, <2>4 DEF HostStep
<1>6. ASSUME NEW s \in Syncers, SyncStep(s) PROVE ImportedInv'
  <2> DEFINE g == sync[s].feed
  <2>0. sync[s].step # "idle" => g \in Feeds
    BY DEF TypeOK, SyncStates, NoSync
  <2>1. CASE ReplaceFeedEvents(s) /\ Present(g)
    <3>1. g \in Feeds /\ [feed[g] EXCEPT !.events = sync[s].body, !.tag = {sync[s].body}].state = "present"
      BY <2>0, <2>1 DEF ReplaceFeedEvents, Present, TypeOK, FeedRows
    <3> QED BY <1>3, <2>1, <3>1 DEF ReplaceFeedEvents
  <2>2. CASE ReplaceFeedEvents(s) /\ ~Present(g)
    BY <1>2, <2>2 DEF ReplaceFeedEvents
  <2>3. CASE KeepUnmodified(s)
    <3>1. \A f \in Feeds : /\ feed'[f].state = feed[f].state /\ feed'[f].active = feed[f].active
                           /\ feed'[f].events = feed[f].events
      BY <2>0, <2>3 DEF KeepUnmodified, TypeOK, FeedRows
    <3>2. AbsentFeedsAreEmpty'
      BY <3>1 DEF AbsentFeedsAreEmpty
    <3>3. ImportedNightsAreTaken'
      BY <2>3, <3>1 DEF KeepUnmodified, ImportedNightsAreTaken, Imported, Present
    <3> QED BY <1>1, <3>2, <3>3
  <2>4. CASE Fetch(s) \/ FailSync(s) \/ \E f \in Feeds : BeginSync(s, f)
    BY <1>2, <2>4 DEF Fetch, FailSync, BeginSync
  <2> QED BY <1>6, <2>1, <2>2, <2>3, <2>4 DEF SyncStep
<1>7. ASSUME NEW b \in Keys, RefundSucceeded(b) PROVE ImportedInv'
  BY <1>2, <1>7 DEF RefundSucceeded
<1>8. ASSUME NEW f \in Feeds, RemoteChanges(f) PROVE ImportedInv'
  BY <1>2, <1>8 DEF RemoteChanges
<1>9. CASE NextDay
  <2>1. AbsentFeedsAreEmpty'
    BY <1>9 DEF NextDay, AbsentFeedsAreEmpty
  <2>2. ImportedNightsAreTaken'
    <3>1. ASSUME NEW n \in Nights, n \in Imported(feed)' PROVE n \in Imported(feed)
      BY <1>9, <3>1, CalendarAssumption DEF NextDay, Imported, TypeOK, Nights
    <3> QED BY <1>9, <3>1 DEF NextDay, ImportedNightsAreTaken, Present
  <2> QED BY <1>1, <2>1, <2>2
<1>10. CASE UNCHANGED vars
  BY <1>2, <1>10 DEF vars
<1> QED BY <1>4, <1>5, <1>6, <1>7, <1>8, <1>9, <1>10 DEF Next, OtherStep

\* A night an active calendar occupies is never bookable, and no night is kept
\* from guests in the name of a calendar that does not occupy it.
THEOREM ImportedAreTaken == Spec => []ImportedNightsAreTaken
<1>1. Init => ImportedInv
  <2> SUFFICES ASSUME Init PROVE ImportedInv
    OBVIOUS
  <2>1. AbsentFeedsAreEmpty /\ ImportedNightsAreTaken
    BY DEF Init, NoFeed, AbsentFeedsAreEmpty, ImportedNightsAreTaken, Imported
  <2> QED BY <2>1, InitType DEF ImportedInv
<1>2. ImportedInv => ImportedNightsAreTaken
  BY DEF ImportedInv
<1> QED BY <1>1, <1>2, ImportedStep, PTL DEF Spec
-----------------------------------------------------------------------------
(* Bookings and nights, as long as no refund of a cancelled booking succeeds. *)

\* Steps that change neither who holds which nights nor which are booked.
Quiet ==
  /\ \A b \in Keys : /\ booking'[b].from = booking[b].from /\ booking'[b].to = booking[b].to
                     /\ Exists(b)' <=> Exists(b)
                     /\ booking'[b].released = booking[b].released
                     /\ booking'[b].paid => Exists(b)
                     /\ booking'[b].status \in {"pending_payment", "confirmed"} => Holds(b)
  /\ \A n \in Nights : blocks'[n] = "booking" <=> blocks[n] = "booking"

LEMMA QuietKeepsHolders ==
  ASSUME Quiet, NEW b \in Keys
  PROVE  (Holds(b)' <=> Holds(b)) /\ Stay(b)' = Stay(b)
BY DEF Quiet, Holds, Stay, Dates

LEMMA QuietStep ==
  ASSUME IInv, TypeOK', Quiet
  PROVE  IInv' /\ UNCHANGED Held
<1>1. \A b \in Keys : (Holds(b)' <=> Holds(b)) /\ Stay(b)' = Stay(b)
  BY QuietKeepsHolders
<1>2. StaysAreReal' /\ PaidExists' /\ ActiveHolds'
  BY <1>1 DEF IInv, Quiet, StaysAreReal, PaidExists, ActiveHolds
<1>3. HoldersAreDisjoint' /\ BlocksMatchBookings'
  BY <1>1 DEF IInv, Quiet, HoldersAreDisjoint, BlocksMatchBookings
<1>4. UNCHANGED Held
  BY <1>1 DEF Held
<1> QED BY <1>2, <1>3, <1>4 DEF IInv

\* A new booking takes free nights, which nobody holds.
LEMMA CreateStep ==
  ASSUME IInv, TypeOK', NEW b \in Keys, NEW from \in 0..(LastNight + 1),
         NEW to \in 0..(LastNight + 1), CreateBooking(b, from, to)
  PROVE  IInv' /\ Abstract!Next
<1> USE DEF IInv
<1> DEFINE nights == Dates(from, to)
<1>1. /\ booking'[b].from = from /\ booking'[b].to = to
      /\ booking'[b].status = "pending_payment" /\ booking'[b].released = FALSE
      /\ booking'[b].paid = FALSE
      /\ \A a \in Keys : a # b => booking'[a] = booking[a]
  BY DEF CreateBooking, TypeOK, NoBooking
<1>2. /\ Holds(b)' /\ Stay(b)' = nights /\ ~Holds(b)
      /\ \A a \in Keys : a # b => (Holds(a)' <=> Holds(a)) /\ Stay(a)' = Stay(a)
  BY <1>1 DEF Holds, Exists, Stay, Dates, CreateBooking
<1>3. nights \subseteq Nights /\ nights # {}
  BY DatesAreNights, FirstNight DEF CreateBooking
<1>4. ASSUME NEW a \in Keys, Holds(a) PROVE Stay(a) \cap nights = {}
  BY <1>3, <1>4 DEF CreateBooking, CanBook, BlocksMatchBookings
<1>5. StaysAreReal' /\ PaidExists' /\ ActiveHolds'
  BY <1>1, <1>2 DEF StaysAreReal, PaidExists, ActiveHolds, CreateBooking, Exists
<1>6. HoldersAreDisjoint'
  BY <1>2, <1>4 DEF HoldersAreDisjoint
<1>7. BlocksMatchBookings'
  <2> SUFFICES ASSUME NEW n \in Nights
               PROVE  blocks'[n] = "booking" <=> \E a \in Keys : Holds(a)' /\ n \in Stay(a)'
    BY DEF BlocksMatchBookings
  <2>1. CASE n \in nights
    BY <1>2, <2>1 DEF CreateBooking
  <2>2. CASE n \notin nights
    BY <1>2, <2>2 DEF CreateBooking, BlocksMatchBookings
  <2> QED BY <2>1, <2>2
<1>8. Abstract!Reserve(b, nights)
  <2>1. Held' = [Held EXCEPT ![b] = nights]
    BY <1>2 DEF Held
  <2>2. Held[b] = {} /\ \A a \in Keys : Held[a] \cap nights = {}
    BY <1>2, <1>4 DEF Held
  <2> QED BY <2>1, <2>2 DEF Abstract!Reserve
<1>9. Abstract!Next
  <2> HIDE DEF nights
  <2>1. nights \in (SUBSET Nights) \ {{}}
    BY <1>3
  <2> QED BY <1>8, <2>1 DEF Abstract!Next
<1> QED BY <1>5, <1>6, <1>7, <1>9

\* A booking that is let go frees its own nights, and no other's.
LEMMA GiveBackStep ==
  ASSUME IInv, TypeOK', NEW b \in Keys, Holds(b), GiveBack(b, "cancelled")
  PROVE  IInv' /\ Abstract!Next
<1> USE DEF IInv
<1>1. /\ booking'[b].from = booking[b].from /\ booking'[b].to = booking[b].to
      /\ booking'[b].status = "cancelled" /\ booking'[b].released = TRUE
      /\ \A a \in Keys : a # b => booking'[a] = booking[a]
  BY DEF GiveBack, TypeOK, BookingRows
<1>2. /\ ~Holds(b)'
      /\ \A a \in Keys : a # b => (Holds(a)' <=> Holds(a)) /\ Stay(a)' = Stay(a)
  BY <1>1 DEF Holds, Exists, Stay, Dates
<1>3. StaysAreReal' /\ PaidExists' /\ ActiveHolds'
  BY <1>1, <1>2 DEF StaysAreReal, PaidExists, ActiveHolds, Holds, Exists
<1>4. HoldersAreDisjoint'
  BY <1>2 DEF HoldersAreDisjoint
<1>5. BlocksMatchBookings'
  <2> SUFFICES ASSUME NEW n \in Nights
               PROVE  blocks'[n] = "booking" <=> \E a \in Keys : Holds(a)' /\ n \in Stay(a)'
    BY DEF BlocksMatchBookings
  <2>1. blocks'[n] = "booking" <=> blocks[n] = "booking" /\ n \notin Stay(b)
    <3> DEFINE rows == [m \in Nights |-> IF m \in GivenBack(b) THEN "free" ELSE blocks[m]]
    <3>1. rows[n] = "booking" <=> blocks[n] = "booking" /\ n \notin Stay(b)
      BY DEF GivenBack
    <3> QED BY <3>1, ReconciledKeeps DEF GiveBack
  <2>2. \A a \in Keys : Holds(a) /\ n \in Stay(a) /\ a # b => n \notin Stay(b)
    BY DEF HoldersAreDisjoint
  <2> QED BY <1>2, <2>1, <2>2 DEF BlocksMatchBookings
<1>6. Abstract!Release(b)
  <2>1. Held' = [Held EXCEPT ![b] = {}]
    BY <1>2 DEF Held
  <2>2. Stay(b) # {}
    <3>1. /\ booking[b].from \in Nights /\ booking[b].to \in 0..(LastNight + 1)
          /\ booking[b].from < booking[b].to
      BY DEF TypeOK, BookingRows, StaysAreReal, Holds
    <3>2. booking[b].from \in 0..(LastNight + 1)
      BY <3>1, CalendarAssumption DEF Nights
    <3> QED BY <3>1, <3>2, FirstNight DEF Stay
  <2> QED BY <2>1, <2>2 DEF Abstract!Release, Held
<1> QED BY <1>3, <1>4, <1>5, <1>6 DEF Abstract!Next

LEMMA TimelyStep ==
  ASSUME IInv, [NextTimely]_vars
  PROVE  IInv' /\ (Abstract!Next \/ UNCHANGED Held)
<1> DEFINE Goal == IInv' /\ (Abstract!Next \/ UNCHANGED Held)
<1>1. TypeOK'
  BY NextType DEF IInv, NextTimely, Next, TimelyRefund
<1>2. Quiet => Goal
  BY <1>1, QuietStep
<1>3. ASSUME NEW b \in Keys, booking[b].status \in {"pending_payment", "confirmed"},
             GiveBack(b, "cancelled")
      PROVE  Goal
  BY <1>1, <1>3, GiveBackStep DEF IInv, ActiveHolds
<1>4. ASSUME UNCHANGED booking, blocks' = blocks \/ \E rows, feeds :
               /\ blocks' = Reconciled(rows, feeds)
               /\ \A n \in Nights : rows[n] = "booking" <=> blocks[n] = "booking"
      PROVE  Goal
  <2>1. Quiet
    BY <1>4, ReconciledKeeps DEF Quiet, Exists, IInv, ActiveHolds, PaidExists
  <2> QED BY <1>2, <2>1
<1>5. ASSUME NEW b \in Keys, UNCHANGED blocks, Exists(b), NEW row,
             booking' = [booking EXCEPT ![b] = row],
             row.from = booking[b].from, row.to = booking[b].to,
             row.released = booking[b].released, row.status # "none",
             row.status \in {"pending_payment", "confirmed"} => Holds(b)
      PROVE  Goal
  <2>1. Quiet
    BY <1>5 DEF Quiet, Exists, IInv, ActiveHolds, PaidExists, TypeOK
  <2> QED BY <1>2, <2>1
<1>6. ASSUME NEW b \in Keys, GuestStep(b) PROVE Goal
  <2>1. ASSUME NEW from \in 0..(LastNight + 1), NEW to \in 0..(LastNight + 1),
               CreateBooking(b, from, to)
        PROVE  Goal
    BY <1>1, <2>1, CreateStep
  <2>2. CASE ReleaseExpiredHold(b) \/ CancelBooking(b) \/ DiscardUnpaidBooking(b)
    BY <1>3, <2>2 DEF ReleaseExpiredHold, CancelBooking, DiscardUnpaidBooking
  <2>3. CASE PaymentSucceeded(b)
    <3> DEFINE row == [booking[b] EXCEPT !.paid = TRUE,
                         !.status = IF @ = "pending_payment" THEN "confirmed" ELSE @]
    <3>1. booking' = [booking EXCEPT ![b] = row] /\ Exists(b) /\ UNCHANGED blocks
      BY <2>3 DEF PaymentSucceeded, IInv, TypeOK
    <3>2. /\ row.from = booking[b].from /\ row.to = booking[b].to
          /\ row.released = booking[b].released
          /\ row.status = IF booking[b].status = "pending_payment" THEN "confirmed"
                          ELSE booking[b].status
      BY DEF IInv, TypeOK, BookingRows
    <3>3. row.status # "none" /\ (row.status \in {"pending_payment", "confirmed"} => Holds(b))
      BY <3>1, <3>2 DEF Exists, IInv, ActiveHolds
    <3> HIDE DEF row
    <3> QED BY <1>5, <3>1, <3>2, <3>3
  <2>4. ASSUME NEW status, status # "none", Exists(b), SetStatus(b, status),
               status \in {"pending_payment", "confirmed"} => Holds(b)
        PROVE  Goal
    <3> DEFINE row == [booking[b] EXCEPT !.status = status]
    <3>1. booking' = [booking EXCEPT ![b] = row] /\ UNCHANGED blocks
      BY <2>4 DEF SetStatus, IInv, TypeOK
    <3>2. /\ row.from = booking[b].from /\ row.to = booking[b].to
          /\ row.released = booking[b].released /\ row.status = status
      BY DEF IInv, TypeOK, BookingRows
    <3> HIDE DEF row
    <3> QED BY <1>5, <2>4, <3>1, <3>2
  <2>5. CASE DisputeCreated(b) \/ CompleteStay(b)
    BY <2>4, <2>5 DEF DisputeCreated, CompleteStay, Exists, IInv, PaidExists
  <2> QED BY <1>6, <2>1, <2>2, <2>3, <2>5 DEF GuestStep
<1>7. CASE HostStep
  <2>1. ASSUME NEW from \in 0..(LastNight + 1), NEW to \in 0..(LastNight + 1),
               NEW source \in {"host", "free"}, MutateAvailability(from, to, source)
        PROVE  Goal
    <3> DEFINE rows == [n \in Nights |-> IF n \in Mutable(from, to) THEN source ELSE blocks[n]]
    <3>1. \A n \in Nights : rows[n] = "booking" <=> blocks[n] = "booking"
      BY DEF Mutable
    <3> QED BY <1>4, <2>1, <3>1 DEF MutateAvailability
  <2>2. ASSUME NEW f \in Feeds, NEW active,
               CreateCalendarFeed(f) \/ DeleteCalendarFeed(f) \/ SetCalendarFeedActive(f, active)
        PROVE  Goal
    BY <1>4, <2>2 DEF CreateCalendarFeed, DeleteCalendarFeed, SetCalendarFeedActive, ChangeFeed
  <2> QED BY <1>7, <2>1, <2>2 DEF HostStep, BlockDates, UnblockDates
<1>8. ASSUME NEW s \in Syncers, SyncStep(s) PROVE Goal
  <2>1. CASE ReplaceFeedEvents(s)
    BY <1>4, <2>1 DEF ReplaceFeedEvents, ChangeFeed
  <2>2. CASE ~ReplaceFeedEvents(s)
    BY <1>4, <1>8, <2>2 DEF SyncStep, BeginSync, Fetch, KeepUnmodified, FailSync
  <2> QED BY <2>1, <2>2
<1>9. ASSUME NEW b \in Keys, TimelyRefund(b) PROVE Goal
  <2>1. PICK full \in BOOLEAN :
          booking' = [booking EXCEPT ![b].status = StatusAfterRefund(full), ![b].paid = ~full]
    BY <1>9 DEF TimelyRefund, RefundSucceeded
  <2> DEFINE row == [booking[b] EXCEPT !.status = StatusAfterRefund(full), !.paid = ~full]
  <2>2. booking' = [booking EXCEPT ![b] = row]
    BY <2>1 DEF IInv, TypeOK
  <2>3. /\ row.from = booking[b].from /\ row.to = booking[b].to
        /\ row.released = booking[b].released /\ row.status = StatusAfterRefund(full)
    BY DEF IInv, TypeOK, BookingRows
  <2>4. Exists(b) /\ Holds(b) /\ UNCHANGED blocks
    BY <1>9 DEF TimelyRefund, RefundSucceeded, IInv, PaidExists, Holds
  <2>5. row.status # "none"
    BY <2>3 DEF StatusAfterRefund
  <2> HIDE DEF row
  <2> QED BY <1>5, <2>2, <2>3, <2>4, <2>5
<1>10. CASE UNCHANGED vars \/ NextDay \/ \E f \in Feeds : RemoteChanges(f)
  BY <1>4, <1>10 DEF vars, NextDay, RemoteChanges
<1> QED BY <1>6, <1>7, <1>8, <1>9, <1>10 DEF NextTimely, OtherStep

LEMMA TimelyInit == Init => IInv /\ Abstract!Init
<1> SUFFICES ASSUME Init PROVE IInv /\ Abstract!Init
  OBVIOUS
<1>1. \A b \in Keys : booking[b].status = "none" /\ ~booking[b].paid /\ ~Holds(b)
  BY DEF Init, NoBooking, Holds, Exists
<1>2. StaysAreReal /\ PaidExists /\ ActiveHolds /\ HoldersAreDisjoint
  BY <1>1 DEF StaysAreReal, PaidExists, ActiveHolds, HoldersAreDisjoint, Exists
<1>3. BlocksMatchBookings
  BY <1>1 DEF Init, BlocksMatchBookings
<1>4. Abstract!Init
  BY <1>1 DEF Abstract!Init, Held
<1> QED BY <1>2, <1>3, <1>4, InitType DEF IInv

\* The inductive invariant, and with it what TLC checks as BlocksMatchBookings.
THEOREM CalendarMatchesBookings == SpecTimely => []BlocksMatchBookings
<1>1. IInv => BlocksMatchBookings
  BY DEF IInv
<1>2. IInv /\ [NextTimely]_vars => IInv'
  BY TimelyStep
<1> QED BY <1>1, <1>2, TimelyInit, PTL DEF SpecTimely

\* Bookings that wait for payment or are confirmed never share a night, as long
\* as no refund of a cancelled booking succeeds.
THEOREM NoNightSoldTwice == SpecTimely => []NoDoubleBooking
<1>1. IInv => NoDoubleBooking
  BY DEF IInv, NoDoubleBooking, ActiveHolds, HoldersAreDisjoint
<1>2. IInv /\ [NextTimely]_vars => IInv'
  BY TimelyStep
<1> QED BY <1>1, <1>2, TimelyInit, PTL DEF SpecTimely

\* The calendar implements the inventory under the mapping Held.
THEOREM CalendarImplementsInventory == SpecTimely => ImplementsInventory
<1>1. Init => IInv /\ Abstract!Init
  BY TimelyInit
<1>2. IInv /\ [NextTimely]_vars => IInv' /\ [Abstract!Next]_Held
  BY TimelyStep
<1> QED BY <1>1, <1>2, PTL DEF SpecTimely, ImplementsInventory, Abstract!Spec
===========================================================================
