# Verification of HOST

TLA+ models of HOST, the TLC runs that check them on small instances, and TLAPS
proofs of what matters most for every instance. Paths are relative to the
repository's root (`src/` here).

Run a check: `tlc -workers 2 -config ChargeSafety.cfg MCScheduledCharges`.
Check a proof: `tlapm ScheduledChargesProofs.tla`. `PROJECT.json` lists every
run, the code lines behind every definition, the hazards and the mutants.

## 1. The system

HOST is a Next.js application on PostgreSQL. Guests search, book nights of a
property, pay through Stripe, may cancel, and review; hosts connect a payout
account, prepare listings that administrators review, and exchange calendars with
other platforms; a daily sweep does what time does. All state is in PostgreSQL, at
Stripe or in a blob store. The actors are HTTP requests, pages that hold answers
while they grow old, Stripe's webhooks (delivered at least once, in any order) and
the sweep, several of which run at once.

| Part | State | Operations | Talks to |
|---|---|---|---|
| Bookings (`lib/booking`) | `bookings`, `booking_price_components` | createBooking, cancelBooking, discardUnpaidBooking, releaseExpiredHold | calendar (same transaction), refunds (after it) |
| Calendar (`lib/hosts/hostAvailability.ts`, `lib/calendar`) | `availability_blocks`, `property_calendar_feeds`, `property_calendar_events` | blockDates, unblockDates, feed create, delete and activate, syncCalendarFeed, reconcileCalendarAvailability, export | external calendars over HTTP |
| Deferred charges (`lib/payments/scheduledCharges.ts`, `setupIntentFlow.ts`, `newFlowWebhookHandling.ts`) | `payment_attempts`, grace and retry columns of `bookings`, `host_transfer_entitlements` | attemptScheduledCharge, recordChargeOutcome, onSetupIntentSucceeded, onNewFlowPaymentSucceeded | Stripe, the sweep |
| Payments at checkout (`createPaymentIntent.ts`, `webhookHandler.ts`, `refund.ts`, `refundReversal.ts`) | `payments`, `refunds`, `ledger_entries`, `payouts`, `disputes` | createPaymentIntentForBooking, initiateRefund, the v1 webhooks | Stripe, bookings |
| Transfers to hosts (`lib/payouts`) | `host_transfer_entitlements`, `host_transfer_reversals`, `payouts` | createEntitlement, attemptRelease, reversals, reconciliation | Stripe |
| Listings (`lib/hosts`, `lib/compliance`) | `properties`, `property_images`, `property_compliance_items`, `property_amenities`, `host_profiles` | saves, pictures, compliance, the two reviews, onboarding | Stripe, the blob store, triggers of migration 028 |
| Accounts (`lib/auth`, `lib/privacy`) | `users`, `auth_sessions`, reset and verification tokens, passkeys, challenges, recovery codes, grants, `privacy_requests` | sign-in in four ways, password changes and resets, revocation, deletion | e-mail, WebAuthn, Google |
| After a stay | `reviews`, `messages`, `properties.average_rating` | completion, review, reply, messages | the sweep |
| Pages | what was last answered, form, idempotency key | stay page, trip page, return page, saved stays, search, calendar panel, picture manager, listing editor | the routes |
| Sweep (`app/api/cron/sweep`) | none | holds, deferred charges, reminders, stays, syncs, deletions | all of the above |
| Migrations (`scripts/migrate.ts`) | `schema_migrations`, the schema | run, verify, complete | PostgreSQL |

`components` in PROJECT.json is the full inventory, with what is left out.

**How they interact.** The advisory lock of a property serialises the writers of
its calendar; that of a booking serialises the decision to charge it; a property's
row lock serialises its pictures and reviews. Webhooks take none of them: they
write `bookings.status` by row, so their commits fall between any two statements
of the others. Calls to Stripe, to calendars and to the blob store happen outside
transactions, and a page decides from an answer of before, so what was read may be
stale.

**What is hard.** Leases that expire while their holder still runs; a charge whose
answer is lost; a webhook that overtakes the write it depends on; a crash between
a commit and the call that should follow; partial refunds that must add up; rows
imported from a calendar that changed while it was fetched; an approval that must
not outlive what was approved; a sign-in under way while the password changes; an
answer of a page that arrives after a later one; calendars that echo each other.

**What makes each part correct.**
* Calendar: no night is sold twice; a night is marked booked exactly while a
  booking holds it; imported nights are never bookable; a host's block stays; a
  feed is read as what it says; a freed night returns on both platforms.
* Deferred charges: one attempt is executed by one run at a time; no second
  idempotency key while the first is open; success is final and rests on captured
  money; no failure or retry moves the grace deadline (a new card clears it, section 6);
  captured money is eventually noticed.
* Checkout payments: a charge and each refund enter the ledger once; the reversed
  shares add up; a retried refund is not a second refund; cancellations never ask for
  more than was paid.
* Transfers: a host's share moves once, not before the release time, and each
  reversal takes its part back once.
* Listings: nothing goes live unreviewed; an approval describes the listing or is
  gone; pictures have one cover and a total order; an agreement precedes the payout
  account.
* Accounts: an accepted session knows the password of now; an answer, a code and a
  grant bring one sign-in; a cancelled deletion is not executed.
* Pages: a guest pays for the dates asked for; a quote is kept; a button tells what
  the server did; a search asks what a booking asks; polling ends.

## 2. The modules

| Module | What it is | Run in |
|---|---|---|
| `ScheduledCharges`, `ScheduledChargesProofs` | deferred charges of one booking | charge_safety, charge_after_success, liveness |
| `Availability`, `AvailabilityProofs` | the calendar of one property and everything that writes it | availability, double_booking |
| `Inventory` | abstract: each booking takes all its nights at once, none of them another's, and gives back its own | availability |
| `LegacyPayments`, `LegacyPaymentsProofs` | money of one booking paid at checkout | legacy_payments, charged_twice |
| `HostTransfers`, `HostTransfersProofs` | paying the host of one deferred booking, and taking money back | host_transfers |
| `Settlement` | abstract: the share moves once, each reversal once, after it | host_transfers |
| `Listings` | one property from draft to live, its reviews, its editors | platform, published_unreviewed |
| `PropertyImages`, `PropertyImagesProofs` | a property's pictures, the blob store, stale managers | property_images |
| `Gallery` | abstract: an ordered gallery with one cover | property_images |
| `HostOnboarding` | agreement, Stripe account, its status | platform |
| `Accounts`, `AccountsProofs` | password, sign-ins, sessions, reset links | platform |
| `Passkeys` | challenges, passkeys, recovery codes, grants | platform |
| `Deletion` | the deletion of an account and its sweep | platform |
| `Aftercare` | completion, reviews and rating, replies, messages | platform |
| `Migrations` | the migration runner and its ledger | platform |
| `CalendarExchange` | two platforms that import each other | liveness |
| `CalendarFormat`, `CalendarFormatProofs` | what is exported, and how a feed is read | platform |
| `FeedPanel` | the host's calendar panel | platform |
| `Search` | search against booking | platform |
| `StayPage` | dates, availability, reserving | platform |
| `TripPage` | quote, cancellation, discard | platform, quote_not_kept |
| `CheckoutReturn` | checkout and the page that polls | liveness |
| `Favourites` | the Save button and the saved stays | platform |
| `BookingMoney` | the amounts of one booking, from its price to its last refund | platform |
| `MCPlatform`, `PlatformProofs` | the fourteen parts marked platform above, in one specification, and their theorems | platform |
| `MCLiveness` | three parts in one run, under fairness | liveness |
| `MCScheduledCharges`, `MCAvailability`, `MCLegacyPayments`, `MCHostTransfers`, `MCPropertyImages` | small sets and symmetries for TLC | |

In MCPlatform and MCLiveness a behaviour picks one part at the start and stays in it:
the parts share no row, so that nothing is lost by not interleaving them. Every part of
MCPlatform but Listings is an INSTANCE that keeps its variables in the first of the slots
`v1`, `v2`, … `v10`; those it does not have are `Unused`, and the constants of all
parts are declared there. `SignIn` and `Format` are instances of the modules with
their proofs, so that PlatformProofs can cite the lemmas of these.

### ScheduledCharges

One booking is enough: lock, lease, grace period and retry date are all per
booking. `booking`, `attempts` and `count` are the rows; `entitled` says whether
the host's entitlement exists; `worker[w]` is how far one run (a sweep or a
setup_intent webhook) has got, with what it has read; `intents` and `setup` are
Stripe's. Each transaction is one action, except that the decision phase of
attemptScheduledCharge is split into its statements (`ReadBooking`,
`ReadLatestAttempt`, `ClaimAttempt`): it holds an advisory lock the webhook does
not take and reads at READ COMMITTED. Stripe executes the first request of a key
(`StripeExecutes`), replays it (`StripeReplays`), refuses it (`StripeRefuses`),
settles later (`StripeSettles`); any answer may be lost, and a run may crash
after each step. Two of its inputs are fixed: tax treatment is configured and
automated charging is enabled, since otherwise every charge is refused.

### Availability

One property. `blocks` is `availability_blocks` by night, `booking` one row per
idempotency key, `feed` the imported calendars with their events and etag,
`remote` what the external calendar lists, `sync` the progress of each sync. A
transaction under the property's lock is one action. A sync is three: read the
feed, fetch, apply. Webhooks and the completion of stays are single updates of
`bookings.status`. `released` is history (the audit log has it): the booking has
given its nights back. `sync_status` is left out; only a page reads it.

Two specifications share the actions. `Spec` is the whole system. `SpecTimely`
excludes one step, a refund that succeeds for a booking already let go: after it
the calendar's main property is false (see `double_booking` below), so this is the
weakest restriction under which the rest can be stated.

### LegacyPayments

One booking of the flow destination_charge_legacy. `payment`, `refunds`, `payout`
are rows, `ledger` the sums of `ledger_entries` that matter: how often the charge
was written, what was refunded, what of the host's share was reversed. `intents`
and `stripe` are Stripe's PaymentIntents and refunds. A checkout is split at its
calls (`ReadPayment`, `RetrieveIntent`, `CreateIntent`, `SaveIntent`), a refund at
its own (`AdminRefund` or `CancelBooking`, then `FindAttempt`, `InsertRefund`,
`ListRefunds`, `CreateRefund`, `LinkRefund`), and either may die in between. A
webhook's transaction is one action, enabled as long as the event it handles
exists, so that it may come late, early, or again. `KeyExpires` is Stripe
forgetting an idempotency key; a request never lasts as long as a key. One ledger
category, the host's payout, stands for the seven: the computation is the same.
`ListRefunds` sees the latest `ListLimit` refunds of the intent (refund.ts:84).
The failure of a payment leaves its intent open, so "it may have failed" needs no
state of its own.

### HostTransfers

One booking of the flow separate_charges_delayed_v1. `entitlement` and `reversal`
are the rows, `transfers` and `returns` what Stripe made of them, `releaser` and
`reverser` the progress of each run. A release is split at every statement and
call: `FindReleaseDue`, `ClaimEntitlement`, `BeginRelease` (which re-reads the row
and is also how a release that died is tried again), `ListTransfers`,
`CreateTransfer`, `SaveTransfer`; an execution of a reversal likewise. Each answer
may be lost, each call refused, each run may die. A reversal is a pair of reason
and amount, since that is what its UNIQUE key hashes. Only tests call
`attemptRelease` so far, so nothing is assumed of who does: two runs at once, at any
time. ScheduledCharges' `entitled` is the creation of this row, seen from the
charge; here CreateEntitlement may happen at any time.

`SpecQuiet` excludes two steps of `Spec`. `OtherTransfers`: 20 later transfers to the
same host push this one off the list that attemptRelease reads (`limit: 20`);
`OtherReturns`: 20 later reversals of the transfer do so with a reversal
(transferReversal.ts:93). With them, what is tried again after Stripe forgot the
idempotency key is made a second time.

### Listings

One property. `property` is its row (status, compliance and pilot review, and the
columns the triggers of migration 028 watch, as one text that passes the checks or
does not), `items` the compliance items, `pictures` their number, `editor[t]` an open
editor page and the save it has in flight. A save is not a transaction: the readiness
check (`AssertCanPublish`), the UPDATE with its trigger (`UpdatePropertyForHost`),
the DELETE of the amenities and each INSERT are steps of their own, and the request
may die after each. Pictures, compliance and the reviews are transactions.

### PropertyImages

`images`, `order`, `covers` are the rows; `stored` and `callback` the blob store,
which calls back at least once; `shown[m]` the list a manager shows. Every operation
locks the property's row and is one step. Gallery is what guests see of it.

### HostOnboarding, Accounts, Passkeys, Deletion

HostOnboarding: requests at a step of the route, which is a row of statements and
calls without a transaction; the recorded status is a copy written after a read.
A host of before migration 028 has an account and no agreement (`Init`).

Accounts: a session is a token that carries the version read at sign-in and a row
written later, so a sign-in is three steps; a change of the password, a reset (four
statements, no transaction), an administrator or a deletion comes between. Hashing is
comparison. Passkeys: a request reads and later writes; the write that consumes a
challenge tests it again. Deletion: the sweep lists first, later locks each request and
reads the blocker (`TakeDue`), and then deletes (`ExecuteDue`), while a stay may begin but
the guest cannot cancel; two sweeps may overlap.

### Aftercare, Migrations

Aftercare: a review's transaction sees what was committed when each of its statements
began and its own row; the last one takes the property's row. Migrations: runners,
crashes, and databases of before the ledger in which objects exist whole or in part.

### CalendarExchange, CalendarFormat, FeedPanel

CalendarExchange: both calendars export every night they cannot sell, and HOST leaves
out events with its own identifiers. CalendarFormat: the lines of a feed by kind, cut
off anywhere, and the parser that reads them one by one; a text is a tuple of its parts
(`UID` of an exported range is its two dates). The grouping of the exported nights is
said of the whole set: a date starts a range when the day before is not in the set
(`Starts`), the range runs to the last date before the next start (`Run`), and the i-th
range is that of the i-th start (`Nth`). `envelope` says whether the text is a calendar of
at most 2 MB; an event's key is what the code joins with "::", its length limited. What the feed means is said of the whole feed
too (`Blocks`, `Field`, `Kept`), never by running the parser. FeedPanel: handlers make
requests and load the list again; several may be under way, since the panel remembers
one busy calendar.

### Search, StayPage, TripPage, CheckoutReturn, Favourites

A page's state is what it shows, its form and its requests; the routes behind it are
steps; an answer may be lost after the server acted. Search has both sets of questions,
the search's and createBooking's, each translated from its own code: nights, blocked dates
and stay limits have an operator on each side. `crowded` is a results page full before
this listing (LIMIT 50), `priced` whether createBooking finds the VAT rates it needs.
StayPage has the idempotency key the page draws. TripPage has the tiers of the policy, the
row of refunds and both payment flows. A cancellation reads the booking, which it locks,
and the payment, which it does not, in one statement: `read` is the payment's status it
read, which may be stale when it goes on. `PaymentSucceeds` makes a payment paid from any
other status, as a redelivered event does (webhookHandler.ts:122). An administrator's
refund is one step, and `goodwill` records that there was one. CheckoutReturn has the polls, which overtake each
other. What the server does otherwise is reduced to what the page can see, and is
modelled whole in the modules above.

### BookingMoney

One booking: `price` is its row of booking_price_components, `issued` the rows of
refunds, each with the amount `kept` that the cancellation asking for it says is retained;
`reversed` the sums of the ledger by category, `standing` the statuses of booking and
payment and whether there was a dispute. The rates are whole percents; the code multiplies by a binary fraction
near each, so a product of exactly a half may round either way (`Rounded`), while a
quotient of integers is exact (`Round`). The listing's VAT rates are set by hand, the
fees in force may change, refunds succeed in any order, and a cancellation takes its
percentage from the tiers of the standard policies at each side of each cutoff.
LegacyPayments has who asks for a refund, its retries and its deliveries.

## 3. The runs

| Run | Shows | States, time (two workers) |
|---|---|---|
| `charge_safety` | safety of the charge protocol with two runs, two attempts | exhaustive |
| `availability` | the calendar's properties, and that it implements Inventory | 111,330 |
| `legacy_payments` | ledger, reversals and retried refunds | 3,362,348, about 2 min |
| `host_transfers` | claim, transfer and reversal; implements Settlement | 31,136 |
| `property_images` | one cover; implements Gallery | 454,000, under a minute |
| `platform` | fourteen parts, each from its own initial states | 2.6 million, about 100 s |
| `liveness` | three things that must happen, under fairness | 348,821, about 75 s |
| `charge_after_success`, `double_booking`, `charged_twice`, `published_unreviewed`, `quote_not_kept` | one counterexample each, section 6 | |

**Properties of the money and the calendar.** *ExclusiveExecution*: two runs within
their leases never execute one attempt. *PaidMeansCaptured*: recorded successes,
confirmed bookings and entitlements rest on captured money. *SuccessIsFinal*,
*GraceDeadlineFixed*, *NoSecondKeyWhileOpen*: what no step may do. *CaptureIsNoticed*:
liveness. *NoDoubleBooking*, *BlocksMatchBookings*, *ImportedNightsAreTaken*,
*HostBlocksStay*, *ImplementsInventory*: the calendar. *ChargeRecordedOnce*,
*RefundsRecordedOnce*, *ReversalMatches*, *RefundMadeOnce*: payments at checkout.
*EvidenceIsReal*, *ImplementsSettlement*: transfers.

**Properties of the rest.** *ApprovalStillTrue*, *ChangeVoidsApproval*,
*LiveWasReviewed*: a listing's approval describes it or is gone, and nothing is live
that was never reviewed. *OneCover*, *ImplementsGallery*: pictures.
*SessionsAreCurrent*: an accepted session opened with a password was opened with the
password of now. *OneSignInPerProof*: a challenge's answer or a code brings one
sign-in. *NoDeletionOfCancelled*: a deletion cancelled or blocked after a sweep listed
it is not executed. *LastReviewCounts*: the rating counts the review committed last.
*RecordedIsComplete*: a recorded, listed migration left every object whole.
*FeedIsUnderstood*: a feed is refused, or read as what it says. *FreedNightsReturn*:
a night sold nowhere becomes free on both platforms. *ListIsCurrent*,
*ControlIsTrue*: what a panel and a button show once their requests ended.
*CheckoutIsForRequest*: the checkout is for the dates asked for. *RefundsFit*: what
cancellations ask for and what was refunded is never more than was paid, and none is asked
for while another is pending, as long as no administrator refunds (section 6).
*SearchAgreesWithBooking*: what is shown is booked by its link, unless it has no price,
and what would be booked is shown, unless the page is full. *PollingEnds*: the return page
stops asking.
*MoneyAddsUp*: the guest's total is what the host, HOST and, under the first fees, the
tax office get of it; refunds never reverse more of a category than there was, reverse
all of it in the end, and together what was refunded, give or take a unit; and while a
cancellation's refund is the only one that succeeded and there is no dispute, the host is
paid what its quote says is retained, give or take a unit (a payout that is cancelled pays
nothing). After a second cancellation no one quote says what is paid.
*PartsTypeOK* holds the type invariants of the parts of `platform`, that of Listings
included; those of HostTransfers and of PropertyImages are only proved.

Every property has a mutant, a plausible bug in a mapped definition that the run finds;
the mutated forms are in the modules next to what they change.

**Bounds.**
* `Workers` = 2, `MaxAttempts` = 2: every hazard of the protocol is between two
  runs, or between a run and a webhook; a second attempt is what must not exist
  too early. `MaxSetups` = 1 card (a second one is in the proofs). `MaxTime` = 3
  with lease, hold and retry of 1 and grace of 2 lets a lease expire under a
  running worker, a retry fall inside the grace period, and the deadline pass.
  Only the order of the lengths matters. The scheduled date is one day in the
  safety run; immediate and deferred bookings are both in the liveness run, which
  needs one attempt only.
* `Keys` = 2 bookings on `LastNight` = 1 (two nights), stays of up to two nights:
  disjoint, nested and equal stays occur. One feed (`MaxFeeds` = 1) with two
  contents, one sync under way at a time. The proofs cover the other sizes.
* `MaxIntents` = 2, two concurrent refund requests, two refunds rows, two refunds
  at Stripe, `Total` = 2, a host's share of 1 and refunds of 1: a partial refund
  whose share is rounded up (one half), then the full one; two rows or one row
  retried; two intents of which both, one or none are paid. `ListLimit` = 1 of 20: a
  list that holds one refund less than there may be. A repeat needs a third refund at
  Stripe and is left to the proof, whose limits are any.
* Two releases, two executions of reversals, two reversals, and up to two transfers
  or reversals of each (`MaxMade` = 2), one more than there may be. The proofs cover
  any number.
* Three uploads and a limit of three, one manager whose list is as old as it likes;
  five rows ever inserted, so that deletions leave gaps in the order. The proofs cover the other sizes.
* Listings: two texts of which one passes (a column left NULL that the editor saves as
  "" changes a listing that passes before and after), one amenity, one category, one
  editor, at most one picture where one is enough, so that the only one may go. One
  editor is enough for staleness: the reviews, pictures and compliance are not its. The
  counterexample's run has a second text that passes and a second picture. The proofs
  cover any number.
* Accounts: two passwords, two requests, a session, a reset link, three versions
  (two bumps). Passkeys: two keys, two challenges, two requests. Deletion: three
  asks, two sweeps. Onboarding: two accounts, two requests, one event. Aftercare:
  two stays, sweeps, messages and replies. Migrations: three files, five objects of
  the kinds that differ, the middle file not in the manifest.
* Money: nightly prices of 7 and 25, a cleaning fee of 0 or 5, one or three nights, VAT
  of 0, 20 or unset, up to three refunds of 1, 4 or all that is left. Totals so small
  that every rounding shows: shares of less than one unit, halves, and parts that
  round in opposite directions.
* Format: four nights, feeds of up to two events and one more than the limit, keys within
  the limit and beyond it, texts that are no calendar or too large. Feeds:
  two calendars, a limit of two, two handlers at once. Search: four days of which one
  is past and one beyond the horizon, two guests, one change after the answer. Stay:
  two nights, two keys, one read under way. Trip: no bound; policies that start at 100, 50
  or 0 percent. Return: three polls of patience, two under way; exchange: two nights, one sync at
  a time.

**Symmetry.** Workers, keys, refund requests, uploads are interchangeable and only sets
of them are quantified over. In `platform` the accounts, challenges, stays or feeds of a
part (`Things`) are, and its requests, sweeps, runners or handlers (`Twins`). The liveness
run uses none.

**Deadlock** is not checked: a booking that is over, with the clock at its bound,
rightly stops. What could get stuck is stated as liveness instead.

**Fairness** (`LivenessSpec`). A payment_intent.succeeded that has not been acted on is
eventually delivered and handled, since Stripe redelivers until it is acknowledged; and
a handler that has begun its last call finishes it or crashes. The sweep syncs every
active feed each day, and a fetch or a store that is tried on and on succeeds in the
end (strong fairness, since each try may fail); the other platform keeps polling. The
browser's interval fires. Nothing is assumed of guests, hosts, crashes or workers.
FreedNightsReturn is stated of syncs that do not overlap (`Syncs` has one): with two, a
delayed 304 answer may store its etag over that of a sync that replaced the events
meanwhile, after which an unchanged calendar answers 304 and is not read again.

## 4. The proofs

TLAPS proves these for every value of the constants that satisfies the named
assumptions of each module. A theorem about a run's property names it; the run shows
it on a small instance first.

*ScheduledChargesProofs*: `TypeCorrect`, `PaidIsCaptured`, `ExecutionIsExclusive`,
`SuccessFinal`, `GraceFixed`, `OneOpenKey`, for positive lengths, a scheduled date at
least a day away, and NoWorker outside Workers. The inductive invariant adds to types
and PaidMeansCaptured: `Protocol` (who holds the lock, and that the attempt of an
executing run exists), `Numbering` (attempts have no gaps, only they have intents),
`HonestAnswers` (an answer of success is Stripe's), `EntitlingPaid` (a webhook past
its commit has a recorded success), `Claims` (the latest claimer owns the lease,
everyone else's has run out) and `GraceFollows` (the deadline is the grace period's).
Without `Claims` exclusive execution is not inductive: a claim relies on the lease
column, the property on when each run's own lease ends.

*AvailabilityProofs*: for Spec, `TypeCorrect`, `ImportedAreTaken`,
`HostBlocksEndByUnblocking`; for SpecTimely, `CalendarMatchesBookings`,
`NoNightSoldTwice` and `CalendarImplementsInventory`, a refinement. Assumed: the last
night is a natural number and no calendar lists other nights. The invariant adds that
stays are real, that only existing bookings are paid, that active bookings hold their
nights, that holders are disjoint and that blocks match holders. `HoldersAreDisjoint`
is stronger than NoDoubleBooking, which speaks of active bookings only: a disputed
booking keeps its nights, and only the stronger form survives its return to confirmed.
The refinement maps a booking to the nights it holds; createBooking is Reserve, the
three ways to let go are Release, and every other step is a stutter.

*LegacyPaymentsProofs*: `TypeCorrect`, `ChargeOnceInLedger`, `RefundsOnceInLedger`,
`ReversalAddsUp`, `RefundNotRepeated`, for any number of checkouts, intents, refunds and
deliveries and any amounts. `RefundedBy`, a sum over rows, is defined as the number of
their minor units, `Cardinality({<<r, u>> ...})`: what a step adds to it is then the
cardinality of a disjoint union, from FiniteSetTheorems, and needs no induction. The
invariant `IInv` adds `Links` (a payment once paid names its intent, a row is linked to a
refund made for it, Stripe's refunds are of rows that exist, and a request under way has
the row and the refund its step implies), `KeysHeld` (a request about to create a refund
has listed or inserted: what was already made for its row is another intent's, or still
has its key) and `Fresh` (nothing is refunded of a booking that waits for its payment,
which is what keeps a second charge out of the ledger). `RefundNotRepeated` rests on
`KeysHeld` as HostTransfers' refinement does on `Single`. The reversed share telescopes:
each success enters the rounded share of what is refunded now less that of what was
before, so that only monotony of the rounding is needed (`ShareIsMonotone`).

*HostTransfersProofs*: for Spec, `TypeCorrect`, `RowsAreHonest`,
`ReleasedOnlyWhenDue`, `OneClaim`; for SpecQuiet, `TransfersImplementSettlement`, a
refinement. The invariant of the first adds `AfterDue` (whatever follows the search is
past the release time), `Carried` (what a run holds in hand exists at Stripe) and
`KeyedExists` (Stripe remembers a key only with its object). The refinement needs
`Single`: a run about to create has either found nothing because there is nothing, or
Stripe still knows the key. That is where the restriction to SpecQuiet is used, and
where the reconciliation by listing and the idempotency key are seen to need each
other. CreateTransfer is Move or a stutter, CreateReturn is Return or a stutter,
everything else stutters.

*PropertyImagesProofs*: `CoverIsOne`, `OrderIsTotal`, `LimitIsKept`, `TypeCorrect` and
`RowsImplementGallery`, a refinement, for any number of uploads and managers. The
invariant `RowsInv` adds that positions are distinct and bounded: only then does an
insert's next position collide with none, and the promoted cover, the row of the least
position, is exactly one row (least elements come from WellFoundedInduction).
`ImagesInv` adds that the rows are finite and within the limit. The gallery of a state
lists the rows by their order. That there is such a list is not an induction: the number
of pictures before a row is its place, and these numbers are distinct and fill
1..n (`PlacesAreDistinct`, `ListInOrder`). RegisterUploadedPropertyImage is Add,
ReorderPropertyImages Arrange, SetPropertyImageCover Choose, DeletePropertyImage
TakeDown, and the rest stutters.

*PlatformProofs*: first the parts, then their composition. Of each part it proves that
its own steps keep its invariant `Inv`, in the part's module; then that PlatformNext does,
since a behaviour stays in its part (`…Carried`); then the property, as a theorem of
PlatformSpec.
* Listings: `TypeCorrect`, `ReviewedBeforeLive`, `ApprovalIsTrue`, `ChangesVoid`, for any
  texts, amenities, categories, editors and counts. `ReviewInv` adds
  `CheckedWasReviewed`: a save that is past its check of the review has a reviewed listing
  behind it, whatever happened since; with it LiveWasReviewed survives the publishing
  write, which does not read the review again. `ApprovalInv` adds `ComplianceIsWhole`:
  readiness tests only the compliance items there are, so that an approval is true only
  while no item is ever missing.
* Accounts: `SessionsStayCurrent`, from the invariant of AccountsProofs.
* Passkeys: `OneSignInEach`, from `ProofsUnspent` (a challenge not yet used and a live
  code have brought nothing so far) and `OneGrantPerProof` (one grant is out for a proof,
  and none once it has brought its sign-in).
* Deletion: `CancelledStaysKept`, an action property, from `Expected` (a sweep lists only
  requests that are due, and a request about to be inserted has no row) and
  `TakenIsPending` (what a sweep holds is due, pending and no other sweep's).
* Aftercare: `LastReviewIsCounted`; `ReviewsSee` says what a review's transaction has
  seen once it has aggregated: its own row and otherwise committed ones.
* Migrations: `RecordedMeansComplete`; `BehindIsRecorded` says that what a runner took
  for applied, and every file before the one it is at, is in the ledger.
* Favourites: `ControlTellsTheTruth`, from `AnswersStand`: an answer that is read is what
  the server last did or said.
* StayPage: `CheckoutFollowsRequest`, from `KeysAreFresh` (a key has no booking before
  its request is answered) and `AnswerIsForRequest`.
* TripPage: `RefundsFitPayment`, from `Covered`: a booking that can be cancelled has no
  refund under way, and since the policy's percentage only falls, what it gives now is
  covered by what was not yet refunded, whatever payment status a cancellation has read.
* FeedPanel: `PanelIsCurrent`, from `AtMostOne` and `ListFollows`: while nothing disturbs
  the list it is behind only while its one handler has yet to show what it changed.
* Search: `SearchIsBookable`, from `ShownIsSo`: until something changes, what is shown is
  what the search's conditions and its limit say. That the conditions agree with
  createBooking's, and the nights counted with those blocked, is then arithmetic on dates,
  guests and nights.
* BookingMoney: `AmountsAddUp`, for any prices, rates, percentages and refunds. Rounding
  of a quotient is pinned down by `2n - d < 2d * Round(n, d) <= 2n + d` (`MoneyRound`),
  from which its monotony, its exactness on whole quotients, and that the rounded shares
  of three parts add up to within a unit of the amount shared (`MoneyShares`) are
  arithmetic.
* HostOnboarding: `AgreementFirst`, an action property: no payout account is recorded
  before the host agreed. The invariant follows a request past its check
  (`PastAgreement`) and says that every account a profile holds exists at Stripe
  (`KnownAtStripe`). It is proved only: no run checks it apart.
* CalendarFormat: `FeedsAreUnderstood`, from the invariant of CalendarFormatProofs.
* `PartsAreTyped`: the type invariants of all parts.

*AccountsProofs*: `AcceptedAreCurrent`. The invariant says of every open session and of
every sign-in under way that it carries no version of the future and, if it carries the
present one, the present password. It rests on every change of the password raising
the version in the same statement.

*CalendarFormatProofs*: `FeedsAreUnderstood`, for feeds of any length. The parser is compared
with the meaning of the whole feed through what it keeps while it reads: the events that
ended are the `Blocks` up to its place, the pending one is what the last line of each
name since its BEGIN says (`PendingIsRead`), and `found` is what the last ended event of
each identifier says (`FoundIsCounted`). A refusal in the middle is right because what
was read stays in every longer feed: the block at hand is unusable however the feed goes
on, and distinct identifiers only become more. The converse is that an accepted feed has
no mark outside a block. What HOST writes is read back by counting: the i-th start is
the one with i - 1 starts before it, so that the ranges are as many as the starts,
distinct, and cover each night exactly once (`GroupsCover`), and the six lines of the
j-th range are at 6j - 5 .. 6j (`ExportRead`).

## 5. Only checked, and not modelled

Only model-checked:
* liveness (CaptureIsNoticed, FreedNightsReturn, PollingEnds) and ENABLED, which TLAPS
  cannot treat;
* the counterexamples of section 6, and CalendarExchange and CheckoutReturn, whose
  properties are liveness.

Every other property of a run is a theorem.

Not modelled, with the reason in `components`:
* Currencies and labels of amounts. BookingMoney has the amounts themselves;
  LegacyPayments keeps one category and small numbers, since its subject is who writes
  them and how often.
* Amounts beyond an INTEGER column (migrations/003_bookings.sql:65), at which the INSERT
  of the price fails; within it every product is exact.
* Lists that only read (trip and host booking lists, dashboards, the admin's lists),
  marketing pages, languages, SEO, layout.
* The concierge, newsletter and contact: a call outside or a single insert.
* Wording, escaping, formatting and time zones. Of what decides whether a feed is accepted
  CalendarFormat keeps the size, the calendar's own line, the order and the fields of
  events, the length of a key and the number of events; that a line can be unfolded, a
  text unescaped and a date parsed is a choice of lines that cannot be read (`Invalid`).
  A date is a number.
* A dispute's own row and account.updated in LegacyPayments; releaseDuePayouts, which
  nothing calls, so that no payout becomes "paid".
* A refund of a deferred booking: cancelBooking refunds only a `payments` row, which
  such a booking does not have (see below).
* Several properties of one host and bookings of several properties, which share no
  row that is written together.
* One-off scripts other than the migration runner.

## 6. What the runs found

Five disagreements, each with a run:

* **charge_after_success**: a webhook that commits between attemptScheduledCharge's
  check for a succeeded attempt and its read of the latest one lets a paid booking be
  charged with a new key.
* **double_booking**: a partial refund makes a cancelled booking confirmed again after
  its nights were sold.
* **charged_twice**: while a payment is processing, or its event late, a second
  checkout makes a second intent; both can be paid and the second charge is in no
  ledger.
* **published_unreviewed**: a save that publishes an approved draft may change its text
  in the same request: readiness reads the old text, the trigger sets the review to
  pending but leaves the new status, and a listing no one reviewed as it now reads is
  public and can be booked. `migrations/031_listing_status_reconciliation.sql:3` says
  that guests' queries fail closed for such rows; createBooking.ts:78 does not ask.
* **quote_not_kept**: the trip page quotes a refund for a paid deferred booking, the
  route of the quote says it is what a cancellation would give, and the cancellation
  asks for none, since it looks for a `payments` row.

What else was met while modelling. Each is a step the models take, or the reason why an
assumption was made; no run is kept for it.

*Charges.*
* After the launch fees are in force, a listing published without VAT rates is shown by
  the search, and every booking of it throws "Property VAT treatment is unconfigured"
  (priceEngine.ts:29). activateLaunchFees.ts:16 asks only about listings published at
  the time, and readiness does not ask. SearchAgreesWithBooking excepts it ("unpriced").
* A lost answer is recorded as a failure and retried under a new key; the
  reconciliation that scheduledCharges.ts:78 describes is not reached (:347).
* A hold that expires is released although a succeeded attempt is recorded
  (createBooking.ts:219 against :215).
* A booking cancelled after the sweep selected it is still charged
  (scheduledCharges.ts:254).
* A crash after the webhook's commit leaves a confirmed booking that redelivery never
  entitles (newFlowWebhookHandling.ts:41, :69). The setup webhook decides the timing
  anew (:130), and clears a hold already in its grace period (:145).

*Payments and refunds.*
* A refund event that overtakes the UPDATE storing its id is acknowledged and lost
  (webhookHandler.ts:269, :211); a late payment_failed overwrites paid (:188); a dispute
  overwrites the status of a cancelled booking (:435).
* A booking cancelled and refunded in part is confirmed again (:288). A redelivered
  payment_intent.succeeded makes its payment paid again (:122), or a cancellation that
  waited for the lock still takes it for paid (cancelBooking.ts:79), and a second
  cancellation asks for a second refund. Both fit in what was paid, but the second cancels
  the payout while the first counted half of it as the host's. After an administrator's
  partial refund a cancellation can ask for more than is left, which Stripe refuses.
* A booking cancelled while its payment is pending, and paid afterwards, is paid with
  no refund asked for.
* A refund tried again after its key was forgotten is repeated once 20 later ones of the
  charge push it off the list (refund.ts:84), or if it was of the other charge of a booking
  charged twice. Two administrators may both be approved for the same balance
  (api/admin/refunds/route.ts:42).
* A process that dies between a cancellation's commit and initiateRefund leaves no
  refund (cancelBooking.ts:118), and the message to the guest speaks of it all the
  same (:131).

*Transfers.*
* The listings used to recover are limited to 20 (hostTransfers.ts:116,
  transferReversal.ts:93); a confirmed reversal can be overwritten as failed by a second
  execution (:109); a lost answer is
  recorded as a failure (:133); a booking cancelled between search and transfer is
  still paid out (:87); a release that crashes after its claim is not taken up (:52);
  two equal refunds share a key (transferReversal.ts:15).

*Listings and accounts.*
* A save that dies between two of its statements leaves the listing without amenities
  (hostProperties.ts:99). The admin's compliance page acts on a detail of before
  (admin/property-compliance/page.tsx:86). A blob callback after a deletion registers
  the picture again (propertyImages.ts:205).
* Two requests of a host make two payout accounts, one of which no profile knows
  (onboarding.ts:115); an account's status read before an event is written after it
  (:187).
* Two passkeys can be removed at once where one must stay
  (api/account/passkeys/route.ts:34); recovery codes shown in two tabs are not the same
  set and only one set is valid (account/page.tsx:182). A booking made while its account
  is deleted, also between the sweep's read of the blocker and the deletion
  (retention.ts:47, :72), is not seen by the deletion.

*After a stay.* The rating drifts from the reviews while two commit together
(createReview.ts:86, src/README.md:96); a second reply overwrites the first (:75); one
failure ends the loop of review requests (scheduledNotifications.ts:50).

*Migrations.* Files 019 to 024 and 033 are not in the manifest, so that nothing verifies
them (migrate.ts:306, :295).

*Calendars.*
* Overlapping syncs and a delayed 304 leave a calendar that is not read again
  (calendarSync.ts:515). A feed cut off before END:VCALENDAR is accepted; a CANCELLED
  event does not remove an earlier one of its UID.
* The calendars route answers 409 to "A property can have no more than 10 calendar
  feeds" (calendars/route.ts:110), while createCalendarFeed throws "A property can have
  up to 10 imported calendars", so that the limit answers 500.
* Keys of events are joined with "::" (ical.ts:177): an event with UID "a::r" and the
  occurrence "r" of the event "a" are taken for one.
* The panel keeps one busy id for all its rows; a lost answer skips its reload, and a
  load that races the rotation of the export link shows the old one.

*Search and pages.*
* Search answers for arrivals in the past and beyond the year ahead, which booking
  refuses (schemas.ts:193, :67); it shows fifty listings at most, with no second page
  (api/properties/route.ts:168); the availability route asks only that a property be
  published (availability/route.ts:18). Search's model narrows the guest to what both
  accept.
* The request that resumes a host's onboarding lacks what its schema needs and is always
  answered 400 (onboarding/complete/page.tsx:53, schemas.ts:106).
* A request repeated while the first is running is told that the dates are not
  available (createBooking.ts:48). The stay page draws a new key after a lost answer
  (stays page, 263), and shows availability of before (97).
* The saved stays' page removes a card on an answer of 401 or 500
  (favourites/page.tsx:35). The trip page says "No refund due" while the row of a refund
  is still missing (trips/[id]/page.tsx:153). A late answer overwrites what the return
  page confirmed, and three polls without a change are taken as a failure.

## 7. Plan

Done: the deferred charges, the calendar, the payments at checkout, the transfers, the
listings, pictures, accounts and onboarding, passkeys, deletion, reviews and messages,
migrations, the format of calendars, the amounts of a booking and the pages that decide
from what they last saw, with proofs of every safety property their runs check; the
exchange of calendars and the return page, checked.

Left, in this order:
1. Reminders of a check-in: two sweeps that overlap, or a crash between the message and
   the notification, repeat one; a crash after it loses the check-in details
   (scheduledNotifications.ts:10). deriveGuestPaymentStatus against a
   reference definition.
2. HostTransfers composed with ScheduledCharges through the entitlement, and the second
   transfer of a host with more than twenty.
3. Accounts composed with Deletion: a booking made during it.
4. A safety property of CalendarExchange, of which only liveness is stated.
