-------------------------- MODULE ScheduledCharges --------------------------
(***************************************************************************)
(* Charging one delayed-flow booking (payment_flow_version                 *)
(* separate_charges_delayed_v1): the claim and lease protocol of           *)
(* lib/payments/scheduledCharges.ts, the Stripe calls it makes, the        *)
(* webhooks that answer them, and the actions that let the booking go.     *)
(*                                                                         *)
(* The advisory lock, the lease, the grace period and the retry date are   *)
(* all per booking, so one booking is the whole protocol.  Each action is  *)
(* one committed transaction or one external call, except the decision     *)
(* phase of attemptScheduledCharge: it runs READ COMMITTED under an        *)
(* advisory lock that webhooks do not take, so its statements interleave   *)
(* with their commits and each is an action.                               *)
(*                                                                         *)
(* Tax treatment is taken as configured and automated charging as enabled: *)
(* otherwise every charge is refused and nothing here happens.             *)
(***************************************************************************)
EXTENDS Integers, FiniteSets

CONSTANTS
  Workers,      \* concurrent runs of the sweep and of setup_intent webhooks
  NoWorker,     \* nobody holds the booking's advisory lock
  MaxAttempts,  \* bound on payment_attempts rows
  MaxSetups,    \* bound on SetupIntents the guest opens
  MaxTime,      \* bound on the clock
  HoldLength,   \* hold_expires_at of a new booking (15 minutes)
  LeaseLength,  \* EXECUTION_LEASE_SECONDS
  RetryLength,  \* REMINDER_AFTER_HOURS, the distance to next_retry_at
  GraceLength,  \* GRACE_PERIOD_HOURS
  DayLength,    \* one day, the rounding of decideChargeTiming
  ScheduledDates \* scheduled_charge_date of a booking; -1 (NULL): charge at once

ASSUME WorkersAssumption == NoWorker \notin Workers
ASSUME BoundsAssumption ==
  /\ MaxAttempts \in Nat \ {0} /\ MaxSetups \in Nat /\ MaxTime \in Nat
ASSUME LengthsAssumption ==
  /\ HoldLength \in Nat \ {0} /\ LeaseLength \in Nat \ {0}
  /\ RetryLength \in Nat \ {0} /\ GraceLength \in Nat \ {0}
  /\ DayLength \in Nat \ {0}
\* More than 60 days ahead means at least 61, so the date is a day away or more.
ASSUME ScheduledDatesAssumption ==
  \A d \in ScheduledDates : d = -1 \/ (d \in Nat /\ d >= DayLength)

VARIABLES
  now,        \* the clock NOW() and new Date() read
  booking,    \* the bookings row
  attempts,   \* the payment_attempts rows, by attempt_number
  count,      \* MAX(attempt_number)
  entitled,   \* a host_transfer_entitlements row exists
  lock,       \* who holds pg_advisory_xact_lock(booking)
  worker,     \* the progress of each run
  entitling,  \* a webhook is between its commit and createEntitlement
  intents,    \* Stripe: the PaymentIntent made under each idempotency key
  setup       \* Stripe: the booking's current SetupIntent

vars == <<now, booking, attempts, count, entitled, lock, worker, entitling,
          intents, setup>>

NoTime == -1   \* SQL NULL in a timestamp column; like new Date(null), never after now
NoCard == 0    \* SQL NULL in stripe_payment_method_id

AttemptNo == 1..MaxAttempts
Time == Nat \cup {NoTime}
Cards == 0..MaxSetups    \* card k is what SetupIntent k collected

BookingStatus == {"pending_payment", "confirmed", "cancelled"}
AttemptStatus == {"none", "pending", "processing", "requires_action",
                  "failed", "succeeded"}
IntentStatus == {"none", "processing", "requires_action", "declined", "succeeded"}
Answers == (IntentStatus \ {"none"}) \cup {"idempotency_error", "api_error"}
Steps == {"idle", "retrieved", "saved", "deferred", "due", "eligible",
          "claiming", "calling", "answered"}

Bookings == [status : BookingStatus, card : Cards, sched : Time,
             hold : Time, grace : Time, retry : Time]
\* token is claim_token, told apart by its owner; recorded: when
\* recordChargeOutcome last wrote the row
Attempts == [status : AttemptStatus, token : Workers \cup {NoWorker},
             lease : Time, recorded : Time]
\* card, retry: values read earlier; att: the attempt; until: the lease taken
WorkerStates == [step : Steps, card : Cards, retry : Time, att : 0..MaxAttempts,
                 until : Time, answer : Answers \cup {"none"}]
Intents == [first : IntentStatus, status : IntentStatus, card : Cards]

TypeOK ==
  /\ now \in Nat
  /\ booking \in Bookings
  /\ attempts \in [AttemptNo -> Attempts]
  /\ count \in 0..MaxAttempts
  /\ entitled \in BOOLEAN
  /\ lock \in Workers \cup {NoWorker}
  /\ worker \in [Workers -> WorkerStates]
  /\ entitling \in BOOLEAN
  /\ intents \in [AttemptNo -> Intents]
  /\ setup \in [no : Cards, done : BOOLEAN]

-----------------------------------------------------------------------------

Idle == [step |-> "idle", card |-> NoCard, retry |-> NoTime, att |-> 0,
         until |-> NoTime, answer |-> "none"]
NoAttempt == [status |-> "none", token |-> NoWorker, lease |-> NoTime,
              recorded |-> NoTime]
NoIntent == [first |-> "none", status |-> "none", card |-> NoCard]

\* The INSERT of createBooking, for a booking of the delayed flow.
NewBooking(sched) ==
  [status |-> "pending_payment", card |-> NoCard, sched |-> sched,
   hold |-> HoldLength, grace |-> NoTime, retry |-> NoTime]

Init ==
  /\ now = 0
  /\ \E sched \in ScheduledDates : booking = NewBooking(sched)
  /\ attempts = [n \in AttemptNo |-> NoAttempt]
  /\ count = 0
  /\ entitled = FALSE
  /\ lock = NoWorker
  /\ worker = [w \in Workers |-> Idle]
  /\ entitling = FALSE
  /\ intents = [n \in AttemptNo |-> NoIntent]
  /\ setup = [no |-> 0, done |-> FALSE]

-----------------------------------------------------------------------------
(* Helpers. *)

\* decideChargeTiming: check-in is at most 60 whole days away.
Immediate == booking.sched = NoTime \/ now > booking.sched - DayLength

GraceIsOver == booking.grace # NoTime /\ booking.hold <= now
Succeeded == \E n \in AttemptNo : attempts[n].status = "succeeded"

\* findBookingsDueForScheduledCharge
DueForScheduledCharge ==
  /\ booking.status = "pending_payment"
  /\ booking.sched # NoTime /\ booking.sched <= now
  /\ booking.grace = NoTime \/ booking.hold > now
  /\ booking.retry <= now
  /\ ~Succeeded

\* Mutated forms: Stripe's status stored as it came; a key conflict taken for
\* the success of the other request.
RecordedVerbatim(answer) == IF answer = "api_error" THEN "failed" ELSE answer
RecordedOptimistically(answer) ==
  IF answer \in {"succeeded", "idempotency_error"} THEN "succeeded" ELSE "failed"

\* What attemptScheduledCharge records for each answer of Stripe.
RecordedStatus(answer) ==
  CASE answer = "succeeded"                -> "succeeded"
    [] answer = "requires_action"          -> "requires_action"
    [] answer \in {"processing", "idempotency_error"} -> "processing"
    [] OTHER                               -> "failed"

\* (BookingAfterExtending, a mutated form, moves the deadline at every outcome, the
\* bug that migration 013 fixed.)
BookingAfterExtending(status) ==
  IF status = "succeeded" \/ booking.status # "pending_payment" THEN booking
  ELSE [booking EXCEPT !.grace = IF @ = NoTime THEN now ELSE @,
                       !.hold  = now + GraceLength,
                       !.retry = IF status = "failed" THEN now + RetryLength ELSE @]

\* recordChargeOutcome on the bookings row: the grace period starts once, a
\* failure schedules the next retry, and only a pending booking is touched.
BookingAfter(status) ==
  IF status = "succeeded" \/ booking.status # "pending_payment" THEN booking
  ELSE [booking EXCEPT
          !.grace = IF @ = NoTime THEN now ELSE @,
          !.hold  = IF booking.grace = NoTime THEN now + GraceLength ELSE @,
          !.retry = IF status = "failed" THEN now + RetryLength ELSE @]

Goto(w, step) == worker' = [worker EXCEPT ![w] = [@ EXCEPT !.step = step]]
Answer(w, answer) ==
  worker' = [worker EXCEPT ![w] = [@ EXCEPT !.step = "answered", !.answer = answer]]
Stop(w) == worker' = [worker EXCEPT ![w] = Idle]
Executing(w) == worker[w].step \in {"calling", "answered"}

-----------------------------------------------------------------------------
(* setup_intent.succeeded: save the card, then defer or charge. *)

\* createSetupIntentForBooking: a new SetupIntent unless the current is open.
OpenSetup ==
  /\ setup.no < MaxSetups
  /\ setup.no = 0 \/ setup.done
  /\ setup' = [no |-> setup.no + 1, done |-> FALSE]
  /\ UNCHANGED <<now, booking, attempts, count, entitled, lock, worker,
                 entitling, intents>>

GuestCompletesSetup ==
  /\ setup.no > 0 /\ ~setup.done
  /\ setup' = [setup EXCEPT !.done = TRUE]
  /\ UNCHANGED <<now, booking, attempts, count, entitled, lock, worker,
                 entitling, intents>>

\* A delivery, first or repeated, retrieves the booking's current SetupIntent.
RetrieveSetup(w) ==
  /\ worker[w].step = "idle"
  /\ setup.done
  /\ worker' = [worker EXCEPT ![w] =
       [@ EXCEPT !.step = "retrieved", !.card = setup.no]]
  /\ UNCHANGED <<now, booking, attempts, count, entitled, lock, entitling,
                 intents, setup>>

\* confirmSetupIntentAndSavePaymentMethod: another card clears the retry date.
SavePaymentMethod(w) ==
  /\ worker[w].step = "retrieved"
  /\ booking' = [booking EXCEPT !.card = worker[w].card,
                                !.retry = IF booking.card = worker[w].card
                                          THEN @ ELSE NoTime]
  /\ Goto(w, "saved")
  /\ UNCHANGED <<now, attempts, count, entitled, lock, entitling, intents, setup>>

DecideTiming(w) ==
  /\ worker[w].step = "saved"
  /\ worker' = [worker EXCEPT ![w] =
       [Idle EXCEPT !.step = IF Immediate THEN "due" ELSE "deferred"]]
  /\ UNCHANGED <<now, booking, attempts, count, entitled, lock, entitling,
                 intents, setup>>

\* A deferred booking is no longer an abandoned checkout: its hold is cleared.
ClearHold(w) ==
  /\ worker[w].step = "deferred"
  /\ booking' = IF booking.status = "pending_payment"
                THEN [booking EXCEPT !.hold = NoTime] ELSE booking
  /\ Stop(w)
  /\ UNCHANGED <<now, attempts, count, entitled, lock, entitling, intents, setup>>

\* The sweep lists the booking as due; the charge comes later in its loop.
SweepSelects(w) ==
  /\ worker[w].step = "idle"
  /\ DueForScheduledCharge
  /\ Goto(w, "due")
  /\ UNCHANGED <<now, booking, attempts, count, entitled, lock, entitling,
                 intents, setup>>

-----------------------------------------------------------------------------
(* attemptScheduledCharge. *)

\* Takes the advisory lock and looks for a succeeded attempt.  The bookings
\* row read after it changes nothing the webhook's commit could be told by, so
\* the two reads are one step.
ReadBooking(w) ==
  /\ worker[w].step = "due"
  /\ lock = NoWorker
  /\ IF Succeeded \/ booking.card = NoCard \/ GraceIsOver
     THEN Stop(w) /\ UNCHANGED lock
     ELSE /\ lock' = w
          /\ worker' = [worker EXCEPT ![w] =
               [@ EXCEPT !.step = "eligible", !.card = booking.card,
                         !.retry = booking.retry]]
  /\ UNCHANGED <<now, booking, attempts, count, entitled, entitling, intents, setup>>

\* Reads the latest attempt: refuse, claim it again, or go on to a new one.
\* (PendingOnly, RefusedDespiteLease: mutated forms of the two below them.)
PendingOnly(n) == n # 0 /\ attempts[n].status = "pending"
Unresolved(n) == n # 0 /\ attempts[n].status \in {"pending", "processing"}
RefusedDespiteLease(w, n) ==
  /\ n # 0
  /\ \/ attempts[n].status = "requires_action"
     \/ attempts[n].status = "failed" /\ worker[w].retry > now
Refused(w, n) ==
  /\ n # 0
  /\ \/ Unresolved(n) /\ attempts[n].lease > now
     \/ attempts[n].status = "requires_action"
     \/ attempts[n].status = "failed" /\ worker[w].retry > now

ReadLatestAttempt(w) ==
  /\ worker[w].step = "eligible"
  /\ IF Refused(w, count)
     THEN Stop(w) /\ lock' = NoWorker
     ELSE /\ worker' = [worker EXCEPT ![w] =
               [@ EXCEPT !.step = "claiming", !.retry = NoTime,
                         !.att = IF Unresolved(count) THEN count ELSE count + 1]]
          /\ Unresolved(count) \/ count < MaxAttempts
          /\ UNCHANGED lock
  /\ UNCHANGED <<now, booking, attempts, count, entitled, entitling, intents, setup>>

\* Claims an existing attempt, or inserts one already claimed; then commits.
ClaimAttempt(w) ==
  LET n == worker[w].att
      lease == now + LeaseLength IN
  /\ worker[w].step = "claiming"
  /\ attempts' = [attempts EXCEPT ![n] =
       IF n <= count
       THEN [@ EXCEPT !.token = w, !.lease = lease]
       ELSE [status |-> "pending", token |-> w, lease |-> lease, recorded |-> NoTime]]
  /\ count' = IF n <= count THEN count ELSE n
  /\ worker' = [worker EXCEPT ![w] = [@ EXCEPT !.step = "calling", !.until = lease]]
  /\ lock' = NoWorker
  /\ UNCHANGED <<now, booking, entitled, entitling, intents, setup>>

\* Stripe executes the first request with a key.  The caller gets its status,
\* or an error when the response is lost on the way back.
StripeExecutes(w) ==
  LET n == worker[w].att IN
  /\ worker[w].step = "calling"
  /\ intents[n].status = "none"
  /\ \E status \in IntentStatus \ {"none"} :
       /\ intents' = [intents EXCEPT ![n] =
            [first |-> status, status |-> status, card |-> worker[w].card]]
       /\ \E answer \in {status, "api_error"} :
            Answer(w, answer)
  /\ UNCHANGED <<now, booking, attempts, count, entitled, lock, entitling, setup>>

\* The same request again is answered as the first was, or with what became of
\* the intent since; it never makes a second intent.
StripeReplays(w) ==
  LET n == worker[w].att IN
  /\ worker[w].step = "calling"
  /\ intents[n].status # "none" /\ intents[n].card = worker[w].card
  /\ \E answer \in {intents[n].first, intents[n].status, "api_error"} :
       Answer(w, answer)
  /\ UNCHANGED <<now, booking, attempts, count, entitled, lock, entitling,
                 intents, setup>>

\* A request with a used key but another card, or while a request with its key
\* is being served, is an idempotency error; one that never arrives fails.
KeyConflict(w) ==
  LET n == worker[w].att IN
  \/ intents[n].status # "none" /\ intents[n].card # worker[w].card
  \/ \E v \in Workers \ {w} : worker[v].step = "calling" /\ worker[v].att = n

StripeRefuses(w) ==
  /\ worker[w].step = "calling"
  /\ \E answer \in {"api_error", "idempotency_error"} :
       /\ answer = "idempotency_error" => KeyConflict(w)
       /\ Answer(w, answer)
  /\ UNCHANGED <<now, booking, attempts, count, entitled, lock, entitling,
                 intents, setup>>

\* The compare-and-set of recordChargeOutcome; OwnsToken is a mutated form.
OwnsToken(w, n) == attempts[n].token = w
OwnsClaim(w, n) == attempts[n].token = w /\ attempts[n].status # "succeeded"

RecordChargeOutcome(w) ==
  LET n == worker[w].att
      status == RecordedStatus(worker[w].answer) IN
  /\ worker[w].step = "answered"
  /\ lock = NoWorker
  /\ IF OwnsClaim(w, n)
     THEN /\ attempts' = [attempts EXCEPT ![n] =
               [@ EXCEPT !.status = status, !.token = NoWorker,
                         !.lease = NoTime, !.recorded = now]]
          /\ booking' = BookingAfter(status)
     ELSE UNCHANGED <<attempts, booking>>
  /\ Stop(w)
  /\ UNCHANGED <<now, count, entitled, lock, entitling, intents, setup>>

\* The process dies, or PostgreSQL aborts its transaction (recordChargeOutcome
\* and the webhook lock the attempt and the booking in opposite orders).
Crash(w) ==
  /\ worker[w].step # "idle"
  /\ Stop(w)
  /\ lock' = IF lock = w THEN NoWorker ELSE lock
  /\ UNCHANGED <<now, booking, attempts, count, entitled, entitling, intents, setup>>

-----------------------------------------------------------------------------
(* payment_intent.succeeded, delivered at least once. *)

StripeSettles(n) ==
  /\ intents[n].status = "processing"
  /\ \E status \in {"succeeded", "declined"} :
       intents' = [intents EXCEPT ![n].status = status]
  /\ UNCHANGED <<now, booking, attempts, count, entitled, lock, worker,
                 entitling, setup>>

\* A success to act on; PaymentOfOpenAttempt is a mutated form, for which an
\* attempt given up as failed is closed.
PaymentOfOpenAttempt(n) ==
  /\ intents[n].status = "succeeded" /\ booking.status # "confirmed"
  /\ attempts[n].status # "failed"
PaymentToConfirm(n) == intents[n].status = "succeeded" /\ booking.status # "confirmed"

\* The transaction of onNewFlowPaymentSucceeded.  It does not take the
\* advisory lock and leaves the claim and lease columns alone.
OnNewFlowPaymentSucceeded(n) ==
  /\ PaymentToConfirm(n)
  /\ attempts' = [attempts EXCEPT ![n].status = "succeeded"]
  /\ booking' = [booking EXCEPT !.status = IF @ = "pending_payment"
                                           THEN "confirmed" ELSE @]
  /\ entitling' = TRUE
  /\ UNCHANGED <<now, count, entitled, lock, worker, intents, setup>>

\* After the commit, on another connection; ON CONFLICT DO NOTHING.
CreateEntitlement ==
  /\ entitling
  /\ entitled' = TRUE
  /\ entitling' = FALSE
  /\ UNCHANGED <<now, booking, attempts, count, lock, worker, intents, setup>>

CrashWebhook ==
  /\ entitling
  /\ entitling' = FALSE
  /\ UNCHANGED <<now, booking, attempts, count, entitled, lock, worker,
                 intents, setup>>

-----------------------------------------------------------------------------
(* Letting the booking go, and time. *)

ReleaseExpiredHold ==
  /\ booking.status = "pending_payment"
  /\ booking.hold # NoTime /\ booking.hold <= now
  /\ booking' = [booking EXCEPT !.status = "cancelled"]
  /\ UNCHANGED <<now, attempts, count, entitled, lock, worker, entitling,
                 intents, setup>>

CancelBooking ==
  /\ booking.status \in {"confirmed", "pending_payment"}
  /\ booking' = [booking EXCEPT !.status = "cancelled"]
  /\ UNCHANGED <<now, attempts, count, entitled, lock, worker, entitling,
                 intents, setup>>

DiscardUnpaidBooking ==
  /\ booking.status = "pending_payment"
  /\ ~Succeeded /\ ~entitled
  /\ booking' = [booking EXCEPT !.status = "cancelled", !.retry = NoTime]
  /\ UNCHANGED <<now, attempts, count, entitled, lock, worker, entitling,
                 intents, setup>>

Tick ==
  /\ now < MaxTime
  /\ now' = now + 1
  /\ UNCHANGED <<booking, attempts, count, entitled, lock, worker, entitling,
                 intents, setup>>

Run(w) ==
  \/ RetrieveSetup(w) \/ SavePaymentMethod(w) \/ DecideTiming(w) \/ ClearHold(w)
  \/ SweepSelects(w) \/ ReadBooking(w) \/ ReadLatestAttempt(w) \/ ClaimAttempt(w)
  \/ StripeExecutes(w) \/ StripeReplays(w) \/ StripeRefuses(w)
  \/ RecordChargeOutcome(w) \/ Crash(w)

Deliver(n) == StripeSettles(n) \/ OnNewFlowPaymentSucceeded(n)

Next ==
  \/ OpenSetup \/ GuestCompletesSetup
  \/ \E w \in Workers : Run(w)
  \/ \E n \in AttemptNo : Deliver(n)
  \/ CreateEntitlement \/ CrashWebhook
  \/ ReleaseExpiredHold \/ CancelBooking \/ DiscardUnpaidBooking
  \/ Tick

Spec == Init /\ [][Next]_vars

\* Stripe redelivers a webhook until it is acknowledged, and a handler that has
\* started runs on: both are fair.  Crashes, the sweep and the guest are not.
Fairness ==
  /\ \A n \in AttemptNo : WF_vars(OnNewFlowPaymentSucceeded(n))
  /\ WF_vars(CreateEntitlement)
FairSpec == Spec /\ Fairness

-----------------------------------------------------------------------------
(* What the protocol promises. *)

\* Two runs that still hold their lease never execute the same attempt at once:
\* a second caller stays away from Stripe until the first is presumed dead.
ExclusiveExecution ==
  \A v, w \in Workers :
    v # w /\ Executing(v) /\ Executing(w) /\ worker[v].att = worker[w].att
      => worker[v].until <= now \/ worker[w].until <= now

\* HOST believes in a payment only if Stripe captured it: a recorded success
\* has a succeeded intent, a confirmed booking or an entitlement has a recorded
\* success, whatever order answers, crashes and webhooks come in.
PaidMeansCaptured ==
  /\ \A n \in AttemptNo :
       attempts[n].status = "succeeded" => intents[n].status = "succeeded"
  /\ booking.status = "confirmed" \/ entitled => Succeeded

\* An attempt known to have succeeded is never downgraded, by a late decline,
\* a lost response or a stale owner.
SuccessIsFinal ==
  [][\A n \in AttemptNo : attempts[n].status = "succeeded"
                            => attempts'[n].status = "succeeded"]_vars

\* Once the grace period has begun no retry moves its start or its deadline.
GraceDeadlineFixed ==
  [][booking.grace # NoTime =>
       /\ booking'.grace = booking.grace
       /\ booking'.hold \in {NoTime, booking.grace + GraceLength}]_vars

\* An attempt that is unresolved, or waits for the guest to authenticate, is
\* never superseded by a new attempt with a new key.
NoSecondKeyWhileOpen ==
  [][count' > count /\ count > 0 =>
       attempts[count].status \notin {"pending", "processing", "requires_action"}]_vars

\* Money captured for a pending booking is noticed: the booking is confirmed,
\* or was let go before.
CaptureIsNoticed ==
  \A n \in AttemptNo :
    intents[n].status = "succeeded" ~> booking.status # "pending_payment"

-----------------------------------------------------------------------------
(* What the repository says of the protocol and the code does not do. *)

\* "a succeeded attempt already exists -> refuse (no reuse, ever)": a new
\* attempt is reserved only when there is none, or the latest has failed.
NewAttemptOnlyAfterFailure ==
  [][count' > count /\ count > 0 => attempts[count].status = "failed"]_vars
=============================================================================
