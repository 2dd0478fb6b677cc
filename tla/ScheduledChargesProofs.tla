----------------------- MODULE ScheduledChargesProofs -----------------------
(***************************************************************************)
(* What ScheduledCharges promises for any number of workers, attempts and  *)
(* cards, and without a bound on the clock's lengths.                      *)
(***************************************************************************)
EXTENDS ScheduledCharges, TLAPS

LEMMA ConstantsType ==
  /\ NoWorker \notin Workers
  /\ MaxAttempts \in Nat /\ MaxAttempts > 0 /\ MaxSetups \in Nat /\ MaxTime \in Nat
  /\ HoldLength \in Nat /\ LeaseLength \in Nat /\ RetryLength \in Nat
  /\ GraceLength \in Nat /\ DayLength \in Nat
  /\ LeaseLength > 0
BY WorkersAssumption, BoundsAssumption, LengthsAssumption

-----------------------------------------------------------------------------
(* The strengthening: where a run stands in the protocol. *)

\* The advisory lock is held through the decision phase and by nobody else; the
\* attempt a run works on exists, or is the one it is about to insert.
Protocol ==
  \A w \in Workers :
    /\ worker[w].step \in {"eligible", "claiming"} <=> lock = w
    /\ worker[w].step = "claiming"
         => worker[w].att \in AttemptNo /\ worker[w].att <= count + 1
    /\ Executing(w) => worker[w].att \in 1..count

\* Attempts are numbered without gaps, and only they have an intent.
Numbering ==
  \A n \in AttemptNo : n > count =>
    attempts[n].status = "none" /\ intents[n].status = "none"

\* The answers a run carries, and those Stripe keeps, come from real intents.
HonestAnswers ==
  /\ \A w \in Workers :
       worker[w].step = "answered" =>
         /\ worker[w].answer \in Answers
         /\ worker[w].answer = "succeeded" => intents[worker[w].att].status = "succeeded"
  /\ \A n \in AttemptNo :
       /\ intents[n].first = "succeeded" => intents[n].status = "succeeded"
       /\ intents[n].status # "none" => intents[n].first # "none"

\* A webhook on its way to the entitlement has recorded a success.
EntitlingPaid == entitling => Succeeded

\* A run that executes an attempt owns its claim and lease, or has outlived
\* its lease; a run that will claim an attempt again has seen its lease end, and
\* one that will insert a new attempt has seen the latest one closed.
Claims ==
  \A w \in Workers :
    /\ Executing(w) =>
         \/ /\ attempts[worker[w].att].token = w
            /\ attempts[worker[w].att].lease = worker[w].until
         \/ worker[w].until <= now
    /\ worker[w].step = "claiming" =>
         IF worker[w].att <= count THEN attempts[worker[w].att].lease <= now
         ELSE count > 0 => attempts[count].status
                             \notin {"pending", "processing", "requires_action"}

\* The grace period's deadline follows from its start, unless it was cleared.
GraceFollows ==
  booking.grace # NoTime => booking.hold \in {NoTime, booking.grace + GraceLength}

IInv == /\ TypeOK /\ Protocol /\ Numbering /\ HonestAnswers /\ PaidMeansCaptured
        /\ EntitlingPaid /\ Claims /\ GraceFollows

-----------------------------------------------------------------------------
(* Type correctness. *)

LEMMA InitType == Init => TypeOK
<1> SUFFICES ASSUME Init PROVE TypeOK
  OBVIOUS
<1> USE ConstantsType
<1>1. NoTime \in Time /\ NoCard \in Cards /\ ScheduledDates \subseteq Time
  BY ScheduledDatesAssumption DEF Time, NoTime, NoCard, Cards
<1>2. booking \in Bookings
  BY <1>1 DEF Init, NewBooking, Bookings, BookingStatus, Time
<1>3. NoAttempt \in Attempts
  BY <1>1 DEF NoAttempt, Attempts, AttemptStatus
<1>4. Idle \in WorkerStates
  BY <1>1 DEF Idle, WorkerStates, Steps
<1>5. NoIntent \in Intents
  BY <1>1 DEF NoIntent, Intents, IntentStatus
<1>6. setup \in [no : Cards, done : BOOLEAN]
  BY DEF Init, Cards
<1>7. /\ attempts \in [AttemptNo -> Attempts]
      /\ worker \in [Workers -> WorkerStates]
      /\ intents \in [AttemptNo -> Intents]
  BY <1>3, <1>4, <1>5 DEF Init
<1>8. now \in Nat /\ count \in 0..MaxAttempts /\ lock \in Workers \cup {NoWorker}
  BY DEF Init
<1>9. entitled \in BOOLEAN /\ entitling \in BOOLEAN
  BY Zenon DEF Init
<1> QED BY <1>2, <1>6, <1>7, <1>8, <1>9 DEF TypeOK

LEMMA BookingAfterType ==
  ASSUME TypeOK, NEW status \in AttemptStatus
  PROVE  BookingAfter(status) \in Bookings
<1>1. now \in Time /\ now + GraceLength \in Time /\ now + RetryLength \in Time
  BY ConstantsType DEF TypeOK, Time
<1> QED BY <1>1 DEF TypeOK, BookingAfter, Bookings

LEMMA RecordedStatusType ==
  ASSUME NEW answer \in Answers \cup {"none"}
  PROVE  RecordedStatus(answer) \in AttemptStatus
BY DEF RecordedStatus, Answers, AttemptStatus, IntentStatus

LEMMA IdleType == Idle \in WorkerStates
BY ConstantsType DEF Idle, WorkerStates, Steps, Cards, Time, NoTime, NoCard

\* A step of one run changes its own state only, and keeps its type.
LEMMA UpdateType ==
  ASSUME TypeOK, NEW w \in Workers, NEW s \in WorkerStates,
         worker' = [worker EXCEPT ![w] = s]
  PROVE  worker' \in [Workers -> WorkerStates]
BY DEF TypeOK

LEMMA StopType ==
  ASSUME TypeOK, NEW w \in Workers, Stop(w)
  PROVE  worker' \in [Workers -> WorkerStates]
BY IdleType, UpdateType DEF Stop

LEMMA GotoType ==
  ASSUME TypeOK, NEW w \in Workers, NEW step \in Steps, Goto(w, step)
  PROVE  worker' \in [Workers -> WorkerStates]
BY DEF TypeOK, Goto, WorkerStates

LEMMA AnswerType ==
  ASSUME TypeOK, NEW w \in Workers, NEW answer \in Answers, Answer(w, answer)
  PROVE  worker' \in [Workers -> WorkerStates]
<1>1. "answered" \in Steps
  BY DEF Steps
<1> QED BY <1>1 DEF TypeOK, Answer, WorkerStates

LEMMA RunType ==
  ASSUME TypeOK, Protocol, HonestAnswers, NEW w \in Workers, Run(w)
  PROVE  TypeOK'
<1> USE ConstantsType
<1>1. CASE RetrieveSetup(w)
  <2>1. "retrieved" \in Steps /\ setup.no \in Cards
    BY DEF Steps, TypeOK
  <2>2. worker' \in [Workers -> WorkerStates]
    BY <1>1, <2>1 DEF RetrieveSetup, TypeOK, WorkerStates
  <2> QED BY <1>1, <2>2 DEF RetrieveSetup, TypeOK
<1>2. CASE SavePaymentMethod(w)
  <2>1. worker' \in [Workers -> WorkerStates]
    BY <1>2, GotoType DEF SavePaymentMethod, Steps
  <2>2. booking' \in Bookings
    BY <1>2 DEF SavePaymentMethod, TypeOK, Bookings, WorkerStates, Time, NoTime
  <2> QED BY <1>2, <2>1, <2>2 DEF SavePaymentMethod, TypeOK
<1>3. CASE DecideTiming(w)
  <2>1. worker' \in [Workers -> WorkerStates]
    BY <1>3, IdleType DEF DecideTiming, TypeOK, WorkerStates, Steps
  <2> QED BY <1>3, <2>1 DEF DecideTiming, TypeOK
<1>4. CASE ClearHold(w)
  <2>1. booking' \in Bookings
    BY <1>4 DEF ClearHold, TypeOK, Bookings, Time, NoTime
  <2> QED BY <1>4, <2>1, StopType DEF ClearHold, TypeOK
<1>5. CASE SweepSelects(w)
  BY <1>5, GotoType DEF SweepSelects, TypeOK, Steps
<1>6. CASE ReadBooking(w)
  <2>1. CASE Stop(w) /\ UNCHANGED lock
    BY <1>6, <2>1, StopType DEF ReadBooking, TypeOK
  <2>2. CASE ~(Stop(w) /\ UNCHANGED lock)
    <3>1. worker' \in [Workers -> WorkerStates]
      <4>1. "eligible" \in Steps
        BY DEF Steps
      <4> DEFINE s == [worker[w] EXCEPT !.step = "eligible", !.card = booking.card,
                                        !.retry = booking.retry]
      <4>2. s \in WorkerStates
        BY <4>1, ZenonT(60) DEF TypeOK, WorkerStates, Bookings
      <4>3. worker' = [worker EXCEPT ![w] = s]
        BY <1>6, <2>2 DEF ReadBooking
      <4> HIDE DEF s
      <4> QED BY <4>2, <4>3, UpdateType
    <3> QED BY <1>6, <2>2, <3>1 DEF ReadBooking, TypeOK
  <2> QED BY <2>1, <2>2
<1>7. CASE ReadLatestAttempt(w)
  <2>1. CASE Stop(w)
    BY <1>7, <2>1, StopType DEF ReadLatestAttempt, TypeOK
  <2>2. CASE ~Stop(w)
    <3>1. worker' \in [Workers -> WorkerStates]
      <4> DEFINE next == IF Unresolved(count) THEN count ELSE count + 1
      <4>1. "claiming" \in Steps /\ NoTime \in Time
        BY DEF Steps, Time, NoTime
      <4>2. next \in 0..MaxAttempts
        BY <1>7, <2>2 DEF ReadLatestAttempt, TypeOK
      <4> DEFINE s == [worker[w] EXCEPT !.step = "claiming", !.retry = NoTime,
                                        !.att = next]
      <4>3. s \in WorkerStates
        <5> HIDE DEF next
        <5> QED BY <4>1, <4>2 DEF TypeOK, WorkerStates
      <4>4. worker' = [worker EXCEPT ![w] = s]
        BY <1>7, <2>2 DEF ReadLatestAttempt
      <4> HIDE DEF s
      <4> QED BY <4>3, <4>4, UpdateType
    <3> QED BY <1>7, <2>2, <3>1 DEF ReadLatestAttempt, TypeOK
  <2> QED BY <2>1, <2>2
<1>8. CASE ClaimAttempt(w)
  <2>1. worker[w].att \in AttemptNo /\ worker[w].att \in 1..MaxAttempts
    BY <1>8 DEF ClaimAttempt, Protocol, AttemptNo
  <2>2. worker' \in [Workers -> WorkerStates]
    <3>1. "calling" \in Steps /\ now + LeaseLength \in Time
      BY DEF Steps, Time, TypeOK
    <3> QED BY <1>8, <3>1, ZenonT(60) DEF ClaimAttempt, TypeOK, WorkerStates
  <2>3. attempts' \in [AttemptNo -> Attempts]
    <3>1. now + LeaseLength \in Time /\ NoTime \in Time /\ "pending" \in AttemptStatus
      BY DEF Time, NoTime, TypeOK, AttemptStatus
    <3> QED BY <1>8, <2>1, <3>1, ZenonT(60) DEF ClaimAttempt, TypeOK, Attempts
  <2>4. count' \in 0..MaxAttempts
    BY <1>8, <2>1 DEF ClaimAttempt, TypeOK
  <2> QED BY <1>8, <2>2, <2>3, <2>4 DEF ClaimAttempt, TypeOK
<1>9. CASE StripeExecutes(w)
  <2>1. PICK status \in IntentStatus \ {"none"} :
          /\ intents' = [intents EXCEPT ![worker[w].att] =
               [first |-> status, status |-> status, card |-> worker[w].card]]
          /\ \E answer \in {status, "api_error"} : Answer(w, answer)
    BY <1>9 DEF StripeExecutes
  <2>2. intents' \in [AttemptNo -> Intents]
    BY <2>1 DEF TypeOK, Intents, WorkerStates
  <2>3. {status, "api_error"} \subseteq Answers
    BY DEF Answers
  <2>4. worker' \in [Workers -> WorkerStates]
    BY <2>1, <2>3, AnswerType
  <2> QED BY <1>9, <2>2, <2>4 DEF StripeExecutes, TypeOK
<1>10. CASE StripeReplays(w)
  <2>1. PICK answer \in {intents[worker[w].att].first, intents[worker[w].att].status,
                         "api_error"} : Answer(w, answer)
    BY <1>10 DEF StripeReplays
  <2>2. worker[w].att \in AttemptNo
    BY <1>10 DEF StripeReplays, Protocol, Executing, TypeOK, AttemptNo
  <2>3. intents[worker[w].att].first \in IntentStatus \ {"none"}
    BY <1>10, <2>2 DEF StripeReplays, TypeOK, Intents, HonestAnswers
  <2>4. intents[worker[w].att].status \in IntentStatus \ {"none"}
    BY <1>10, <2>2 DEF StripeReplays, TypeOK, Intents
  <2>5. answer \in Answers
    BY <2>1, <2>3, <2>4 DEF Answers
  <2> QED BY <1>10, <2>1, <2>5, AnswerType DEF StripeReplays, TypeOK
<1>11. CASE StripeRefuses(w)
  <2>1. PICK answer \in {"api_error", "idempotency_error"} : Answer(w, answer)
    BY <1>11 DEF StripeRefuses
  <2>2. answer \in Answers
    BY <2>1 DEF Answers
  <2> QED BY <1>11, <2>1, <2>2, AnswerType DEF StripeRefuses, TypeOK
<1>12. CASE RecordChargeOutcome(w)
  <2>1. RecordedStatus(worker[w].answer) \in AttemptStatus
    BY RecordedStatusType DEF TypeOK, WorkerStates
  <2>2. attempts' \in [AttemptNo -> Attempts]
    <3>1. now \in Time /\ NoTime \in Time
      BY DEF Time, NoTime, TypeOK
    <3>2. CASE UNCHANGED attempts
      BY <3>2 DEF TypeOK
    <3>3. CASE attempts' = [attempts EXCEPT ![worker[w].att] =
                 [@ EXCEPT !.status = RecordedStatus(worker[w].answer),
                           !.token = NoWorker, !.lease = NoTime, !.recorded = now]]
      BY <2>1, <3>1, <3>3, ZenonT(60) DEF TypeOK, Attempts
    <3> QED BY <1>12, <3>2, <3>3 DEF RecordChargeOutcome
  <2>3. booking' \in Bookings
    BY <1>12, <2>1, BookingAfterType DEF RecordChargeOutcome, TypeOK
  <2> QED BY <1>12, <2>2, <2>3, StopType DEF RecordChargeOutcome, TypeOK
<1>13. CASE Crash(w)
  BY <1>13, StopType DEF Crash, TypeOK
<1> QED
  BY <1>1, <1>2, <1>3, <1>4, <1>5, <1>6, <1>7, <1>8, <1>9, <1>10, <1>11,
     <1>12, <1>13 DEF Run

LEMMA TypeStep ==
  ASSUME TypeOK, Protocol, HonestAnswers, [Next]_vars
  PROVE  TypeOK'
<1> USE ConstantsType
<1>1. CASE OpenSetup
  BY <1>1 DEF OpenSetup, TypeOK, Cards
<1>2. CASE GuestCompletesSetup
  BY <1>2 DEF GuestCompletesSetup, TypeOK
<1>3. ASSUME NEW w \in Workers, Run(w) PROVE TypeOK'
  BY <1>3, RunType
<1>4. ASSUME NEW n \in AttemptNo, StripeSettles(n) PROVE TypeOK'
  <2>1. intents' \in [AttemptNo -> Intents]
    BY <1>4 DEF StripeSettles, TypeOK, Intents, IntentStatus
  <2> QED BY <1>4, <2>1 DEF StripeSettles, TypeOK
<1>5. ASSUME NEW n \in AttemptNo, OnNewFlowPaymentSucceeded(n) PROVE TypeOK'
  <2>1. attempts' \in [AttemptNo -> Attempts]
    BY <1>5 DEF OnNewFlowPaymentSucceeded, TypeOK, Attempts, AttemptStatus
  <2>2. booking' \in Bookings
    BY <1>5 DEF OnNewFlowPaymentSucceeded, TypeOK, Bookings, BookingStatus
  <2>3. entitling' \in BOOLEAN
    BY <1>5, Zenon DEF OnNewFlowPaymentSucceeded
  <2> QED BY <1>5, <2>1, <2>2, <2>3 DEF OnNewFlowPaymentSucceeded, TypeOK
<1>6. CASE CreateEntitlement
  <2>1. entitled' \in BOOLEAN /\ entitling' \in BOOLEAN
    BY <1>6, Zenon DEF CreateEntitlement
  <2> QED BY <1>6, <2>1 DEF CreateEntitlement, TypeOK
<1>7. CASE CrashWebhook
  <2>1. entitling' \in BOOLEAN
    BY <1>7, Zenon DEF CrashWebhook
  <2> QED BY <1>7, <2>1 DEF CrashWebhook, TypeOK
<1>8. CASE ReleaseExpiredHold \/ CancelBooking \/ DiscardUnpaidBooking
  <2>1. booking' \in Bookings
    <3>1. "cancelled" \in BookingStatus /\ NoTime \in Time
      BY DEF BookingStatus, Time, NoTime
    <3> QED BY <1>8, <3>1 DEF ReleaseExpiredHold, CancelBooking,
                DiscardUnpaidBooking, TypeOK, Bookings
  <2> QED BY <1>8, <2>1 DEF ReleaseExpiredHold, CancelBooking,
             DiscardUnpaidBooking, TypeOK
<1>9. CASE Tick
  BY <1>9 DEF Tick, TypeOK
<1>10. CASE UNCHANGED vars
  BY <1>10 DEF vars, TypeOK
<1> QED
  BY <1>1, <1>2, <1>3, <1>4, <1>5, <1>6, <1>7, <1>8, <1>9, <1>10
     DEF Next, Deliver

-----------------------------------------------------------------------------
(* Where a run stands. *)

\* Every step either is one run's, or leaves the runs, the lock and the number
\* of attempts alone.
LEMMA RunsOrQuiet ==
  ASSUME [Next]_vars
  PROVE  (\E w \in Workers : Run(w)) \/ UNCHANGED <<worker, lock, count>>
BY DEF Next, vars, OpenSetup, GuestCompletesSetup, Deliver, StripeSettles,
       OnNewFlowPaymentSucceeded, CreateEntitlement, CrashWebhook,
       ReleaseExpiredHold, CancelBooking, DiscardUnpaidBooking, Tick

\* A run's step leaves the state of every other run alone.
LEMMA OthersUnchanged ==
  ASSUME TypeOK, NEW w \in Workers, Run(w), NEW v \in Workers, v # w
  PROVE  worker'[v] = worker[v]
BY DEF TypeOK, Run, RetrieveSetup, SavePaymentMethod, DecideTiming, ClearHold,
       SweepSelects, ReadBooking, ReadLatestAttempt, ClaimAttempt,
       StripeExecutes, StripeReplays, StripeRefuses, RecordChargeOutcome, Crash,
       Goto, Stop, Answer

\* What each way to end a step makes of the run.
LEMMA StopEffect ==
  ASSUME TypeOK, NEW w \in Workers, Stop(w)
  PROVE  worker'[w].step = "idle" /\ ~Executing(w)'
<1>1. worker'[w] = Idle
  BY DEF TypeOK, Stop
<1> QED BY <1>1 DEF Idle, Executing

LEMMA GotoEffect ==
  ASSUME TypeOK, NEW w \in Workers, NEW step, Goto(w, step)
  PROVE  worker'[w].step = step
BY DEF TypeOK, Goto, WorkerStates

LEMMA AnswerEffect ==
  ASSUME TypeOK, NEW w \in Workers, NEW answer, Answer(w, answer)
  PROVE  /\ worker'[w].step = "answered" /\ worker'[w].answer = answer
         /\ worker'[w].att = worker[w].att /\ worker'[w].until = worker[w].until
BY DEF TypeOK, Answer, WorkerStates

\* A run reads the latest attempt and stops, or goes on to claim it or the next.
LEMMA ReadLatestEffect ==
  ASSUME TypeOK, NEW w \in Workers, ReadLatestAttempt(w), ~Stop(w)
  PROVE  /\ worker'[w].step = "claiming"
         /\ worker'[w].att = IF Unresolved(count) THEN count ELSE count + 1
         /\ ~Refused(w, count)
<1> DEFINE next == IF Unresolved(count) THEN count ELSE count + 1
<1>1. /\ worker' = [worker EXCEPT ![w] = [@ EXCEPT
           !.step = "claiming", !.retry = NoTime, !.att = next]]
      /\ ~Refused(w, count)
  BY DEF ReadLatestAttempt
<1> HIDE DEF next
<1>2. worker'[w].step = "claiming" /\ worker'[w].att = next
  BY <1>1 DEF TypeOK, WorkerStates
<1> QED BY <1>1, <1>2 DEF next

\* The steps of a run that neither claims, calls nor answers.
LEMMA QuietStep ==
  ASSUME TypeOK, NEW w \in Workers, Run(w), ~ReadLatestAttempt(w), ~ClaimAttempt(w),
         ~StripeExecutes(w), ~StripeReplays(w), ~StripeRefuses(w)
  PROVE  worker'[w].step \notin {"claiming", "calling", "answered"}
<1>1. CASE ClearHold(w) \/ Crash(w) \/ RecordChargeOutcome(w)
  BY <1>1, StopEffect DEF ClearHold, Crash, RecordChargeOutcome
<1>2. CASE SavePaymentMethod(w) \/ SweepSelects(w)
  BY <1>2, GotoEffect DEF SavePaymentMethod, SweepSelects
<1>3. CASE RetrieveSetup(w)
  <2>1. worker' = [worker EXCEPT ![w] =
          [@ EXCEPT !.step = "retrieved", !.card = setup.no]]
    BY <1>3 DEF RetrieveSetup
  <2> QED BY <2>1 DEF TypeOK, WorkerStates
<1>4. CASE DecideTiming(w)
  BY <1>4 DEF DecideTiming, TypeOK, WorkerStates, Idle
<1>5. CASE ReadBooking(w) /\ ~Stop(w)
  <2>1. worker' = [worker EXCEPT ![w] = [@ EXCEPT
          !.step = "eligible", !.card = booking.card, !.retry = booking.retry]]
    BY <1>5 DEF ReadBooking
  <2> QED BY <2>1 DEF TypeOK, WorkerStates
<1>6. CASE Stop(w)
  BY <1>6, StopEffect
<1> QED BY <1>1, <1>2, <1>3, <1>4, <1>5, <1>6 DEF Run

LEMMA ProtocolStep ==
  ASSUME TypeOK, Protocol, [Next]_vars
  PROVE  Protocol'
<1> USE ConstantsType
<1>1. CASE UNCHANGED <<worker, lock, count>>
  BY <1>1 DEF Protocol, Executing
<1>2. ASSUME NEW w \in Workers, Run(w) PROVE Protocol'
  <2>1. count' \in Nat /\ count \in Nat /\ count <= count'
    BY <1>2 DEF TypeOK, Run, RetrieveSetup, SavePaymentMethod, DecideTiming,
       ClearHold, SweepSelects, ReadBooking, ReadLatestAttempt, ClaimAttempt,
       StripeExecutes, StripeReplays, StripeRefuses, RecordChargeOutcome, Crash,
       WorkerStates
  <2>2. (lock = w => lock' \in {w, NoWorker}) /\ (lock # w => lock' \in {lock, w})
        /\ (lock \notin {w, NoWorker} => lock' = lock)
    BY <1>2 DEF Protocol, Run, RetrieveSetup, SavePaymentMethod, DecideTiming,
       ClearHold, SweepSelects, ReadBooking, ReadLatestAttempt, ClaimAttempt,
       StripeExecutes, StripeReplays, StripeRefuses, RecordChargeOutcome, Crash
  <2>3. ASSUME NEW v \in Workers, v # w
        PROVE  /\ worker'[v].step \in {"eligible", "claiming"} <=> lock' = v
               /\ worker'[v].step = "claiming"
                    => worker'[v].att \in AttemptNo /\ worker'[v].att <= count' + 1
               /\ Executing(v)' => worker'[v].att \in 1..count'
    BY <1>2, <2>1, <2>2, <2>3, OthersUnchanged DEF Protocol, Executing, TypeOK, AttemptNo
  <2>4. /\ worker'[w].step \in {"eligible", "claiming"} <=> lock' = w
        /\ worker'[w].step = "claiming"
             => worker'[w].att \in AttemptNo /\ worker'[w].att <= count' + 1
        /\ Executing(w)' => worker'[w].att \in 1..count'
    <3>1. CASE \/ RetrieveSetup(w) \/ SavePaymentMethod(w) \/ DecideTiming(w)
               \/ SweepSelects(w)
      <4>1. /\ worker'[w].step \in {"retrieved", "saved", "due", "deferred"}
            /\ worker[w].step \notin {"eligible", "claiming"} /\ lock' = lock
        <5>1. CASE RetrieveSetup(w)
          <6>1. worker' = [worker EXCEPT ![w] =
                  [@ EXCEPT !.step = "retrieved", !.card = setup.no]]
            BY <5>1 DEF RetrieveSetup
          <6>2. worker'[w].step = "retrieved"
            BY <6>1 DEF TypeOK, WorkerStates
          <6> QED BY <5>1, <6>2 DEF RetrieveSetup
        <5>2. CASE SavePaymentMethod(w)
          BY <5>2, GotoEffect DEF SavePaymentMethod
        <5>3. CASE DecideTiming(w)
          BY <5>3 DEF DecideTiming, TypeOK, WorkerStates, Idle
        <5>4. CASE SweepSelects(w)
          BY <5>4, GotoEffect DEF SweepSelects
        <5> QED BY <3>1, <5>1, <5>2, <5>3, <5>4
      <4> QED BY <4>1 DEF Protocol, Executing
    <3>2. CASE ClearHold(w) \/ Crash(w) \/ RecordChargeOutcome(w)
      <4>1. worker'[w].step = "idle" /\ ~Executing(w)'
        BY <3>2, StopEffect DEF ClearHold, Crash, RecordChargeOutcome
      <4>2. lock' # w
        BY <3>2 DEF ClearHold, Crash, RecordChargeOutcome, Protocol
      <4> QED BY <4>1, <4>2
    <3>3. CASE ReadBooking(w)
      <4>1. CASE Stop(w) /\ UNCHANGED lock
        BY <3>3, <4>1, StopEffect DEF ReadBooking, Protocol
      <4>2. CASE ~(Stop(w) /\ UNCHANGED lock)
        <5>1. /\ lock' = w
              /\ worker' = [worker EXCEPT ![w] = [@ EXCEPT
                   !.step = "eligible", !.card = booking.card, !.retry = booking.retry]]
          BY <3>3, <4>2 DEF ReadBooking
        <5>2. worker'[w].step = "eligible"
          BY <5>1 DEF TypeOK, WorkerStates
        <5> QED BY <5>1, <5>2 DEF Executing
      <4> QED BY <4>1, <4>2
    <3>4. CASE ReadLatestAttempt(w)
      <4>1. CASE Stop(w) /\ lock' = NoWorker
        BY <4>1, StopEffect
      <4>2. CASE ~(Stop(w) /\ lock' = NoWorker)
        <5> DEFINE next == IF Unresolved(count) THEN count ELSE count + 1
        <5>0. /\ worker' = [worker EXCEPT ![w] = [@ EXCEPT
                   !.step = "claiming", !.retry = NoTime, !.att = next]]
              /\ lock' = lock /\ count' = count
              /\ Unresolved(count) \/ count < MaxAttempts
          BY <3>4, <4>2 DEF ReadLatestAttempt
        <5>1. worker'[w].step = "claiming" /\ worker'[w].att = next
          <6> HIDE DEF next
          <6> QED BY <5>0 DEF TypeOK, WorkerStates
        <5>2. worker'[w].att \in AttemptNo /\ worker'[w].att <= count' + 1
          BY <5>0, <5>1 DEF Unresolved, TypeOK, AttemptNo
        <5>3. lock' = w
          BY <3>4, <5>0 DEF ReadLatestAttempt, Protocol
        <5> QED BY <5>0, <5>1, <5>2, <5>3 DEF Executing
      <4> QED BY <4>1, <4>2
    <3>5. CASE ClaimAttempt(w)
      <4>1. /\ worker'[w].step = "calling" /\ worker'[w].att = worker[w].att
            /\ lock' = NoWorker
        BY <3>5 DEF ClaimAttempt, TypeOK, WorkerStates
      <4>2. worker'[w].att \in 1..count'
        BY <3>5, <4>1 DEF ClaimAttempt, Protocol, AttemptNo, TypeOK
      <4> QED BY <4>1, <4>2
    <3>6. CASE StripeExecutes(w) \/ StripeReplays(w) \/ StripeRefuses(w)
      <4>1. \E answer : Answer(w, answer)
        BY <3>6 DEF StripeExecutes, StripeReplays, StripeRefuses
      <4>2. worker'[w].step = "answered" /\ worker'[w].att = worker[w].att
        BY <4>1, AnswerEffect
      <4>3. worker[w].step = "calling" /\ lock' = lock /\ count' = count
        BY <3>6 DEF StripeExecutes, StripeReplays, StripeRefuses
      <4> QED BY <4>2, <4>3 DEF Protocol, Executing
    <3> QED BY <1>2, <3>1, <3>2, <3>3, <3>4, <3>5, <3>6 DEF Run
  <2> QED BY <2>3, <2>4 DEF Protocol
<1> QED BY <1>1, <1>2, RunsOrQuiet

-----------------------------------------------------------------------------
(* Attempts, intents and answers. *)

\* The steps that touch an attempt or an intent.
LEMMA AttemptsOrQuiet ==
  ASSUME [Next]_vars
  PROVE  \/ \E w \in Workers : ClaimAttempt(w) \/ StripeExecutes(w) \/ RecordChargeOutcome(w)
         \/ \E n \in AttemptNo : StripeSettles(n) \/ OnNewFlowPaymentSucceeded(n)
         \/ UNCHANGED <<attempts, intents, count>>
BY DEF Next, vars, OpenSetup, GuestCompletesSetup, Deliver, CreateEntitlement,
       CrashWebhook, ReleaseExpiredHold, CancelBooking, DiscardUnpaidBooking, Tick,
       Run, RetrieveSetup, SavePaymentMethod, DecideTiming, ClearHold, SweepSelects,
       ReadBooking, ReadLatestAttempt, StripeReplays, StripeRefuses, Crash

LEMMA NumberingStep ==
  ASSUME TypeOK, Protocol, Numbering, [Next]_vars
  PROVE  Numbering'
<1> USE ConstantsType DEF Numbering
<1>1. ASSUME NEW w \in Workers, ClaimAttempt(w) PROVE Numbering'
  <2>1. worker[w].att \in AttemptNo /\ worker[w].att <= count + 1
    BY <1>1 DEF ClaimAttempt, Protocol
  <2> QED BY <1>1, <2>1 DEF ClaimAttempt, TypeOK, AttemptNo
<1>2. ASSUME NEW w \in Workers, StripeExecutes(w) PROVE Numbering'
  <2>1. worker[w].att \in 1..count
    BY <1>2 DEF StripeExecutes, Protocol, Executing
  <2> QED BY <1>2, <2>1 DEF StripeExecutes, TypeOK, AttemptNo
<1>3. ASSUME NEW w \in Workers, RecordChargeOutcome(w) PROVE Numbering'
  <2>1. worker[w].att \in 1..count
    BY <1>3 DEF RecordChargeOutcome, Protocol, Executing
  <2>2. UNCHANGED <<intents, count>>
    BY <1>3 DEF RecordChargeOutcome
  <2>3. \A m \in AttemptNo : m # worker[w].att => attempts'[m] = attempts[m]
    BY <1>3 DEF RecordChargeOutcome, TypeOK
  <2> QED BY <2>1, <2>2, <2>3 DEF TypeOK, AttemptNo
<1>4. ASSUME NEW n \in AttemptNo, StripeSettles(n) \/ OnNewFlowPaymentSucceeded(n)
      PROVE  Numbering'
  <2>1. n <= count
    BY <1>4 DEF StripeSettles, OnNewFlowPaymentSucceeded, PaymentToConfirm, TypeOK, AttemptNo
  <2>2. \A m \in AttemptNo : m # n => attempts'[m] = attempts[m] /\ intents'[m] = intents[m]
    BY <1>4 DEF StripeSettles, OnNewFlowPaymentSucceeded, TypeOK
  <2>3. UNCHANGED count
    BY <1>4 DEF StripeSettles, OnNewFlowPaymentSucceeded
  <2> QED BY <2>1, <2>2, <2>3 DEF TypeOK, AttemptNo
<1>5. CASE UNCHANGED <<attempts, intents, count>>
  BY <1>5
<1> QED BY <1>1, <1>2, <1>3, <1>4, <1>5, AttemptsOrQuiet

\* An intent that succeeded stays so, and what Stripe first answered stays true.
LEMMA CapturedStays ==
  ASSUME TypeOK, Protocol, HonestAnswers, [Next]_vars, NEW n \in AttemptNo
  PROVE  /\ intents[n].status = "succeeded" => intents'[n].status = "succeeded"
         /\ intents'[n].first = "succeeded" => intents'[n].status = "succeeded"
         /\ intents'[n].status # "none" => intents'[n].first # "none"
<1> USE DEF HonestAnswers
<1>1. ASSUME NEW w \in Workers, StripeExecutes(w)
      PROVE  /\ intents[n].status = "succeeded" => intents'[n].status = "succeeded"
             /\ intents'[n].first = "succeeded" => intents'[n].status = "succeeded"
             /\ intents'[n].status # "none" => intents'[n].first # "none"
  BY <1>1 DEF StripeExecutes, TypeOK, Intents
<1>2. ASSUME NEW m \in AttemptNo, StripeSettles(m)
      PROVE  /\ intents[n].status = "succeeded" => intents'[n].status = "succeeded"
             /\ intents'[n].first = "succeeded" => intents'[n].status = "succeeded"
             /\ intents'[n].status # "none" => intents'[n].first # "none"
  BY <1>2 DEF StripeSettles, TypeOK, Intents
<1>3. CASE UNCHANGED intents
  BY <1>3
<1>4. ASSUME NEW w \in Workers, ClaimAttempt(w) \/ RecordChargeOutcome(w)
      PROVE  UNCHANGED intents
  BY <1>4 DEF ClaimAttempt, RecordChargeOutcome
<1>5. ASSUME NEW m \in AttemptNo, OnNewFlowPaymentSucceeded(m)
      PROVE  UNCHANGED intents
  BY <1>5 DEF OnNewFlowPaymentSucceeded
<1> QED BY <1>1, <1>2, <1>3, <1>4, <1>5, AttemptsOrQuiet

LEMMA HonestStep ==
  ASSUME TypeOK, Protocol, HonestAnswers, [Next]_vars
  PROVE  HonestAnswers'
<1> DEFINE Honest(w) ==
      worker[w].step = "answered" =>
        /\ worker[w].answer \in Answers
        /\ worker[w].answer = "succeeded" => intents[worker[w].att].status = "succeeded"
<1>1. ASSUME NEW w \in Workers, worker'[w] = worker[w] PROVE Honest(w)'
  <2>1. CASE worker[w].step = "answered"
    <3>1. worker[w].att \in AttemptNo
      BY <2>1, ConstantsType DEF Protocol, Executing, TypeOK, AttemptNo
    <3> QED BY <1>1, <3>1, CapturedStays DEF HonestAnswers
  <2>2. CASE worker[w].step # "answered"
    BY <1>1, <2>2
  <2> QED BY <2>1, <2>2
<1>2. ASSUME NEW w \in Workers, Run(w) PROVE Honest(w)'
  <2>1. CASE StripeExecutes(w)
    <3>1. PICK status \in IntentStatus \ {"none"} :
            /\ intents' = [intents EXCEPT ![worker[w].att] =
                 [first |-> status, status |-> status, card |-> worker[w].card]]
            /\ \E answer \in {status, "api_error"} : Answer(w, answer)
      BY <2>1 DEF StripeExecutes
    <3>2. worker[w].att \in AttemptNo
      BY <2>1, ConstantsType DEF StripeExecutes, Protocol, Executing, TypeOK, AttemptNo
    <3>3. intents'[worker[w].att].status = status
      BY <3>1, <3>2 DEF TypeOK
    <3> QED BY <3>1, <3>3, AnswerEffect DEF Answers
  <2>2. CASE StripeReplays(w)
    <3>1. PICK answer \in {intents[worker[w].att].first, intents[worker[w].att].status,
                           "api_error"} : Answer(w, answer)
      BY <2>2 DEF StripeReplays
    <3>2. worker[w].att \in AttemptNo
      BY <2>2, ConstantsType DEF StripeReplays, Protocol, Executing, TypeOK, AttemptNo
    <3>3. /\ intents[worker[w].att].first \in Answers
          /\ intents[worker[w].att].status \in Answers
          /\ intents[worker[w].att].first = "succeeded"
               => intents[worker[w].att].status = "succeeded"
      BY <2>2, <3>2 DEF StripeReplays, TypeOK, Intents, HonestAnswers, Answers
    <3>4. UNCHANGED intents
      BY <2>2 DEF StripeReplays
    <3> QED BY <3>1, <3>3, <3>4, AnswerEffect DEF Answers
  <2>3. CASE StripeRefuses(w)
    <3>1. PICK answer \in {"api_error", "idempotency_error"} : Answer(w, answer)
      BY <2>3 DEF StripeRefuses
    <3> QED BY <3>1, AnswerEffect DEF Answers
  <2>4. CASE ~(StripeExecutes(w) \/ StripeReplays(w) \/ StripeRefuses(w))
    <3>1. worker'[w].step # "answered"
      <4>1. CASE ClaimAttempt(w)
        BY <4>1 DEF ClaimAttempt, TypeOK, WorkerStates
      <4>2. CASE ReadLatestAttempt(w)
        BY <4>2, ReadLatestEffect, StopEffect
      <4> QED BY <1>2, <2>4, <4>1, <4>2, QuietStep
    <3> QED BY <3>1
  <2> QED BY <2>1, <2>2, <2>3, <2>4
<1>3. ASSUME NEW v \in Workers PROVE Honest(v)'
  <2>1. CASE UNCHANGED worker
    BY <1>1, <2>1
  <2>2. ASSUME NEW w \in Workers, Run(w) PROVE Honest(v)'
    BY <1>1, <1>2, <2>2, OthersUnchanged
  <2> QED BY <2>1, <2>2, RunsOrQuiet
<1> QED BY <1>3, CapturedStays DEF HonestAnswers

-----------------------------------------------------------------------------
(* What is recorded as paid. *)

\* The compare-and-set, and the numbering of new attempts, keep a success.
LEMMA SuccessStays ==
  ASSUME TypeOK, Protocol, Numbering, [Next]_vars, NEW n \in AttemptNo,
         attempts[n].status = "succeeded"
  PROVE  attempts'[n].status = "succeeded"
<1>1. ASSUME NEW w \in Workers, ClaimAttempt(w)
      PROVE  attempts'[n].status = "succeeded"
  <2>1. CASE worker[w].att # n
    BY <1>1, <2>1 DEF ClaimAttempt, TypeOK
  <2>2. CASE worker[w].att = n
    <3>1. n <= count
      BY ConstantsType DEF Numbering, TypeOK, AttemptNo
    <3>2. attempts' = [attempts EXCEPT ![n] =
             [@ EXCEPT !.token = w, !.lease = now + LeaseLength]]
      BY <1>1, <2>2, <3>1 DEF ClaimAttempt
    <3> QED BY <3>2 DEF TypeOK, Attempts
  <2> QED BY <2>1, <2>2
<1>2. ASSUME NEW w \in Workers, RecordChargeOutcome(w)
      PROVE  attempts'[n].status = "succeeded"
  BY <1>2 DEF RecordChargeOutcome, OwnsClaim, TypeOK
<1>3. ASSUME NEW m \in AttemptNo, OnNewFlowPaymentSucceeded(m)
      PROVE  attempts'[n].status = "succeeded"
  BY <1>3 DEF OnNewFlowPaymentSucceeded, TypeOK, Attempts
<1>4. ASSUME NEW w \in Workers, StripeExecutes(w) PROVE UNCHANGED attempts
  BY <1>4 DEF StripeExecutes
<1>5. ASSUME NEW m \in AttemptNo, StripeSettles(m) PROVE UNCHANGED attempts
  BY <1>5 DEF StripeSettles
<1> QED BY <1>1, <1>2, <1>3, <1>4, <1>5, AttemptsOrQuiet

\* A success is recorded only by an honest answer or by Stripe's webhook.
LEMMA RecordedWasCaptured ==
  ASSUME TypeOK, Protocol, Numbering, HonestAnswers, PaidMeansCaptured, [Next]_vars,
         NEW n \in AttemptNo, attempts'[n].status = "succeeded"
  PROVE  intents'[n].status = "succeeded"
<1> USE CapturedStays
<1>1. CASE attempts[n].status = "succeeded"
  BY <1>1 DEF PaidMeansCaptured
<1>2. CASE attempts[n].status # "succeeded"
  <2>1. ASSUME NEW w \in Workers, ClaimAttempt(w) PROVE FALSE
    <3>1. CASE worker[w].att # n
      BY <1>2, <2>1, <3>1 DEF ClaimAttempt, TypeOK
    <3>2. CASE worker[w].att = n /\ n <= count
      <4>1. attempts' = [attempts EXCEPT ![n] =
               [@ EXCEPT !.token = w, !.lease = now + LeaseLength]]
        BY <2>1, <3>2 DEF ClaimAttempt
      <4> QED BY <1>2, <4>1 DEF TypeOK, Attempts
    <3>3. CASE worker[w].att = n /\ ~(n <= count)
      BY <2>1, <3>3 DEF ClaimAttempt, TypeOK
    <3> QED BY <3>1, <3>2, <3>3
  <2>2. ASSUME NEW w \in Workers, RecordChargeOutcome(w)
        PROVE  intents[n].status = "succeeded"
    <3>1. worker[w].att = n /\ RecordedStatus(worker[w].answer) = "succeeded"
      <4> DEFINE status == RecordedStatus(worker[w].answer)
      <4>1. attempts' # attempts
        BY <1>2
      <4>2. attempts' = [attempts EXCEPT ![worker[w].att] =
               [@ EXCEPT !.status = status, !.token = NoWorker,
                         !.lease = NoTime, !.recorded = now]]
        BY <2>2, <4>1 DEF RecordChargeOutcome
      <4> HIDE DEF status
      <4>3. worker[w].att = n
        BY <1>2, <4>2 DEF TypeOK
      <4>4. attempts'[n].status = status
        BY <4>2, <4>3 DEF TypeOK, Attempts
      <4> QED BY <4>3, <4>4 DEF status
    <3>2. worker[w].answer = "succeeded"
      BY <3>1 DEF RecordedStatus
    <3> QED BY <2>2, <3>1, <3>2 DEF RecordChargeOutcome, HonestAnswers
  <2>3. ASSUME NEW m \in AttemptNo, OnNewFlowPaymentSucceeded(m)
        PROVE  intents[n].status = "succeeded"
    BY <1>2, <2>3 DEF OnNewFlowPaymentSucceeded, PaymentToConfirm, TypeOK
  <2>4. ASSUME NEW w \in Workers, StripeExecutes(w) PROVE FALSE
    BY <1>2, <2>4 DEF StripeExecutes
  <2>5. ASSUME NEW m \in AttemptNo, StripeSettles(m) PROVE FALSE
    BY <1>2, <2>5 DEF StripeSettles
  <2> QED BY <1>2, <2>1, <2>2, <2>3, <2>4, <2>5, AttemptsOrQuiet
<1> QED BY <1>1, <1>2

\* A booking is confirmed by the step that records the success, an entitlement
\* created after it.
LEMMA ConfirmedStep ==
  ASSUME TypeOK, Protocol, Numbering, PaidMeansCaptured, EntitlingPaid, [Next]_vars
  PROVE  /\ booking'.status = "confirmed" \/ entitled' => Succeeded'
         /\ EntitlingPaid'
<1>1. Succeeded => Succeeded'
  BY SuccessStays DEF Succeeded
<1>2. CASE Succeeded
  BY <1>1, <1>2 DEF EntitlingPaid
<1>3. CASE ~Succeeded
  <2>1. booking.status # "confirmed" /\ ~entitled /\ ~entitling
    BY <1>3 DEF PaidMeansCaptured, EntitlingPaid
  <2>2. ASSUME NEW n \in AttemptNo, OnNewFlowPaymentSucceeded(n) PROVE Succeeded'
    <3>1. attempts'[n].status = "succeeded"
      BY <2>2 DEF OnNewFlowPaymentSucceeded, TypeOK, Attempts
    <3> QED BY <3>1 DEF Succeeded
  <2>3. ASSUME NEW n \in AttemptNo, StripeSettles(n)
        PROVE  UNCHANGED <<booking, entitled, entitling>>
    BY <2>3 DEF StripeSettles
  <2>4. ASSUME NEW w \in Workers, Run(w)
        PROVE  booking'.status = booking.status /\ UNCHANGED <<entitled, entitling>>
    <3>1. CASE SavePaymentMethod(w)
      BY <3>1 DEF SavePaymentMethod, TypeOK, Bookings
    <3>2. CASE ClearHold(w)
      BY <3>2 DEF ClearHold, TypeOK, Bookings
    <3>3. CASE RecordChargeOutcome(w)
      BY <3>3 DEF RecordChargeOutcome, BookingAfter, TypeOK, Bookings
    <3>4. CASE ~(SavePaymentMethod(w) \/ ClearHold(w) \/ RecordChargeOutcome(w))
      BY <2>4, <3>4 DEF Run, RetrieveSetup, DecideTiming, SweepSelects, ReadBooking,
         ReadLatestAttempt, ClaimAttempt, StripeExecutes, StripeReplays,
         StripeRefuses, Crash
    <3> QED BY <3>1, <3>2, <3>3, <3>4
  <2>5. CASE \/ OpenSetup \/ GuestCompletesSetup \/ CreateEntitlement \/ CrashWebhook
             \/ Tick \/ UNCHANGED vars
    BY <2>1, <2>5 DEF OpenSetup, GuestCompletesSetup, CreateEntitlement, CrashWebhook,
       Tick, vars, EntitlingPaid
  <2>6. CASE ReleaseExpiredHold \/ CancelBooking \/ DiscardUnpaidBooking
    <3>1. booking'.status = "cancelled" /\ UNCHANGED <<entitled, entitling>>
      BY <2>6 DEF ReleaseExpiredHold, CancelBooking, DiscardUnpaidBooking, TypeOK, Bookings
    <3> QED BY <2>1, <3>1 DEF EntitlingPaid
  <2> QED
    BY <2>1, <2>2, <2>3, <2>4, <2>5, <2>6 DEF Next, Deliver, EntitlingPaid
<1> QED BY <1>2, <1>3

-----------------------------------------------------------------------------
(* Claims, leases and the grace period. *)

\* Nothing but a claim, a recorded outcome and a success touches an attempt;
\* the webhook leaves its token and lease alone.
LEMMA ClaimsStep ==
  ASSUME TypeOK, Protocol, Numbering, Claims, [Next]_vars
  PROVE  Claims'
<1> USE ConstantsType
<1> DEFINE Holds(v) ==
      Executing(v) =>
        \/ /\ attempts[worker[v].att].token = v
           /\ attempts[worker[v].att].lease = worker[v].until
        \/ worker[v].until <= now
<1> DEFINE Closed(v) ==
      worker[v].step = "claiming" =>
        IF worker[v].att <= count THEN attempts[worker[v].att].lease <= now
        ELSE count > 0 => attempts[count].status
                            \notin {"pending", "processing", "requires_action"}
<1>0. /\ \A v \in Workers : Holds(v) /\ Closed(v)
      /\ \A v \in Workers : Executing(v) => worker[v].att \in 1..count /\ worker[v].att \in AttemptNo
      /\ \A v \in Workers : worker[v].step = "claiming" => lock = v /\ worker[v].att \in AttemptNo
      /\ count \in Nat /\ (count > 0 => count \in AttemptNo)
  BY DEF Claims, Protocol, TypeOK, AttemptNo
<1>1. CASE Tick
  <2>1. /\ UNCHANGED <<worker, attempts, count>> /\ now' = now + 1 /\ now \in Nat
    BY <1>1 DEF Tick, TypeOK
  <2>2. \A t \in Time : t <= now => t <= now'
    BY <2>1 DEF Time, NoTime
  <2>3. \A v \in Workers : worker[v].until \in Time
    BY DEF TypeOK, WorkerStates
  <2>4. \A n \in AttemptNo : attempts[n].lease \in Time
    BY DEF TypeOK, Attempts
  <2> QED BY <1>0, <2>1, <2>2, <2>3, <2>4 DEF Claims, Executing
<1>2. ASSUME NEW m \in AttemptNo, OnNewFlowPaymentSucceeded(m) PROVE Claims'
  <2>1. \A n \in AttemptNo :
          /\ attempts'[n].token = attempts[n].token /\ attempts'[n].lease = attempts[n].lease
          /\ attempts'[n].status \in {attempts[n].status, "succeeded"}
    BY <1>2 DEF OnNewFlowPaymentSucceeded, TypeOK, Attempts
  <2>2. UNCHANGED <<worker, count, now>>
    BY <1>2 DEF OnNewFlowPaymentSucceeded
  <2> QED BY <1>0, <2>1, <2>2 DEF Claims, Executing
<1>3. ASSUME NEW w \in Workers, ClaimAttempt(w) PROVE Claims'
  <2>1. /\ worker'[w].step = "calling" /\ worker'[w].att = worker[w].att
        /\ worker'[w].until = now + LeaseLength
    BY <1>3 DEF ClaimAttempt, TypeOK, WorkerStates
  <2>2. /\ attempts'[worker[w].att].token = w
        /\ attempts'[worker[w].att].lease = now + LeaseLength
    BY <1>0, <1>3 DEF ClaimAttempt, TypeOK, Attempts
  <2>3. \A n \in AttemptNo : n # worker[w].att => attempts'[n] = attempts[n]
    BY <1>3 DEF ClaimAttempt, TypeOK
  <2>4. now' = now /\ worker[w].step = "claiming" /\ Run(w)
    BY <1>3 DEF ClaimAttempt, Run
  <2>5. Holds(w)' /\ Closed(w)'
    BY <2>1, <2>2
  <2>6. ASSUME NEW v \in Workers, v # w PROVE Holds(v)' /\ Closed(v)'
    <3>1. worker'[v] = worker[v]
      BY <2>4, <2>6, OthersUnchanged
    <3>2. worker[v].step # "claiming"
      BY <1>0, <2>4, <2>6
    <3>3. CASE worker[v].att # worker[w].att
      BY <1>0, <2>3, <2>4, <3>1, <3>2, <3>3 DEF Executing
    <3>4. CASE worker[v].att = worker[w].att /\ Executing(v)
      BY <1>0, <2>4, <3>1, <3>2, <3>4
    <3> QED BY <3>1, <3>2, <3>3, <3>4 DEF Executing
  <2> QED BY <2>5, <2>6 DEF Claims
<1>4. ASSUME NEW w \in Workers, RecordChargeOutcome(w) PROVE Claims'
  <2>1. worker'[w].step = "idle" /\ ~Executing(w)'
    BY <1>4, StopEffect DEF RecordChargeOutcome
  <2>2. /\ lock = NoWorker /\ now' = now /\ count' = count /\ Run(w)
        /\ ~OwnsClaim(w, worker[w].att) => UNCHANGED attempts
    BY <1>4 DEF RecordChargeOutcome, Run
  <2>3. \A n \in AttemptNo : n # worker[w].att => attempts'[n] = attempts[n]
    BY <1>4 DEF RecordChargeOutcome, TypeOK
  <2>4. ASSUME NEW v \in Workers, v # w PROVE Holds(v)' /\ Closed(v)'
    <3>1. worker'[v] = worker[v]
      BY <2>2, <2>4, OthersUnchanged
    <3>2. worker[v].step # "claiming"
      BY <1>0, <2>2
    <3>3. CASE worker[v].att # worker[w].att \/ UNCHANGED attempts
      BY <1>0, <2>2, <2>3, <3>1, <3>2, <3>3 DEF Executing
    <3>4. CASE worker[v].att = worker[w].att /\ OwnsClaim(w, worker[w].att)
      BY <1>0, <2>2, <2>4, <3>1, <3>2, <3>4 DEF OwnsClaim, Executing
    <3> QED BY <2>2, <3>3, <3>4
  <2> QED BY <2>1, <2>4 DEF Claims
<1>5. ASSUME NEW w \in Workers, Run(w), ~ClaimAttempt(w), ~RecordChargeOutcome(w)
      PROVE  Claims'
  <2>1. UNCHANGED <<attempts, count, now>>
    BY <1>5 DEF Run, RetrieveSetup, SavePaymentMethod, DecideTiming, ClearHold,
       SweepSelects, ReadBooking, ReadLatestAttempt, StripeExecutes, StripeReplays,
       StripeRefuses, Crash
  <2>2. ASSUME NEW v \in Workers, v # w PROVE Holds(v)' /\ Closed(v)'
    BY <1>0, <1>5, <2>1, <2>2, OthersUnchanged DEF Executing
  <2>3. CASE StripeExecutes(w) \/ StripeReplays(w) \/ StripeRefuses(w)
    <3>1. (\E answer : Answer(w, answer)) /\ worker[w].step = "calling"
      BY <2>3 DEF StripeExecutes, StripeReplays, StripeRefuses
    <3>2. /\ worker'[w].step = "answered" /\ worker'[w].att = worker[w].att
          /\ worker'[w].until = worker[w].until
      BY <3>1, AnswerEffect
    <3> QED BY <1>0, <2>1, <2>2, <3>1, <3>2 DEF Executing, Claims
  <2>4. CASE ReadLatestAttempt(w) /\ ~Stop(w)
    <3>1. /\ worker'[w].step = "claiming" /\ ~Refused(w, count)
          /\ worker'[w].att = IF Unresolved(count) THEN count ELSE count + 1
      BY <2>4, ReadLatestEffect
    <3>2. Closed(w)'
      <4>1. CASE Unresolved(count)
        <5>1. ~(attempts[count].lease > now) /\ count \in AttemptNo
          BY <1>0, <3>1, <4>1 DEF Refused, Unresolved
        <5>2. attempts[count].lease \in Time /\ now \in Nat
          BY <5>1 DEF TypeOK, Attempts
        <5>3. attempts[count].lease <= now
          BY <5>1, <5>2 DEF Time, NoTime
        <5>4. worker'[w].att = count' /\ count' <= count' /\ count' = count
              /\ attempts'[count'].lease <= now'
          BY <1>0, <2>1, <3>1, <4>1, <5>3
        <5> QED BY <5>4
      <4>2. CASE ~Unresolved(count)
        BY <1>0, <2>1, <3>1, <4>2 DEF Refused, Unresolved
      <4> QED BY <4>1, <4>2
    <3> QED BY <2>2, <3>1, <3>2 DEF Claims, Executing
  <2>5. CASE \/ Stop(w)
             \/ ~(ReadLatestAttempt(w) \/ StripeExecutes(w) \/ StripeReplays(w)
                   \/ StripeRefuses(w))
    BY <1>5, <2>2, <2>5, QuietStep, StopEffect DEF Claims, Executing
  <2> QED BY <2>3, <2>4, <2>5
<1>6. CASE UNCHANGED <<worker, attempts, count, now>>
  BY <1>6 DEF Claims, Executing
<1> QED
  BY <1>1, <1>2, <1>3, <1>4, <1>5, <1>6 DEF Next, Deliver, vars, OpenSetup,
     GuestCompletesSetup, StripeSettles, CreateEntitlement, CrashWebhook,
     ReleaseExpiredHold, CancelBooking, DiscardUnpaidBooking

\* Only recordChargeOutcome starts the grace period, and then sets its deadline.
LEMMA GraceStep ==
  ASSUME TypeOK, GraceFollows, [Next]_vars
  PROVE  /\ GraceFollows'
         /\ booking.grace # NoTime => booking'.grace = booking.grace
<1> USE DEF GraceFollows
<1>1. ASSUME NEW w \in Workers, SavePaymentMethod(w)
      PROVE  booking'.grace = booking.grace /\ booking'.hold = booking.hold
  BY <1>1 DEF SavePaymentMethod, TypeOK, Bookings
<1>2. ASSUME NEW w \in Workers, ClearHold(w)
      PROVE  booking'.grace = booking.grace /\ booking'.hold \in {booking.hold, NoTime}
  BY <1>2 DEF ClearHold, TypeOK, Bookings
<1>3. ASSUME NEW w \in Workers, RecordChargeOutcome(w)
      PROVE  \/ booking'.grace = booking.grace /\ booking'.hold = booking.hold
             \/ /\ booking.grace = NoTime
                /\ booking'.grace = now /\ booking'.hold = now + GraceLength
  <2>1. booking' = booking \/ booking' = BookingAfter(RecordedStatus(worker[w].answer))
    BY <1>3 DEF RecordChargeOutcome
  <2> DEFINE status == RecordedStatus(worker[w].answer)
  <2> HIDE DEF status
  <2> QED BY <2>1 DEF BookingAfter, TypeOK, Bookings, status
<1>4. ASSUME NEW n \in AttemptNo, OnNewFlowPaymentSucceeded(n)
      PROVE  booking'.grace = booking.grace /\ booking'.hold = booking.hold
  BY <1>4 DEF OnNewFlowPaymentSucceeded, TypeOK, Bookings
<1>5. CASE ReleaseExpiredHold \/ CancelBooking \/ DiscardUnpaidBooking
  BY <1>5 DEF ReleaseExpiredHold, CancelBooking, DiscardUnpaidBooking, TypeOK, Bookings
<1>6. CASE UNCHANGED booking
  BY <1>6
<1>7. ASSUME NEW w \in Workers, Run(w), ~SavePaymentMethod(w), ~ClearHold(w),
             ~RecordChargeOutcome(w)
      PROVE  UNCHANGED booking
  BY <1>7 DEF Run, RetrieveSetup, DecideTiming, SweepSelects, ReadBooking,
     ReadLatestAttempt, ClaimAttempt, StripeExecutes, StripeReplays, StripeRefuses, Crash
<1> QED
  BY <1>1, <1>2, <1>3, <1>4, <1>5, <1>6, <1>7 DEF Next, Deliver, vars, OpenSetup,
     GuestCompletesSetup, StripeSettles, CreateEntitlement, CrashWebhook, Tick

-----------------------------------------------------------------------------
(* The theorems. *)

LEMMA InitIInv == Init => IInv
<1> SUFFICES ASSUME Init PROVE IInv
  OBVIOUS
<1> USE ConstantsType
<1>1. TypeOK
  BY InitType
<1>2. \A w \in Workers : worker[w].step = "idle" /\ ~Executing(w)
  BY DEF Init, Idle, Executing
<1>3. Protocol
  BY <1>2 DEF Protocol, Init
<1>4. Numbering /\ HonestAnswers
  BY <1>2 DEF Numbering, HonestAnswers, Init, NoAttempt, NoIntent
<1>5. booking.status = "pending_payment" /\ booking.grace = NoTime
  BY DEF Init, NewBooking
<1>6. PaidMeansCaptured /\ EntitlingPaid
  BY <1>5 DEF PaidMeansCaptured, EntitlingPaid, Init, NoAttempt
<1>7. Claims
  BY <1>2 DEF Claims
<1>8. GraceFollows
  BY <1>5 DEF GraceFollows
<1> QED BY <1>1, <1>3, <1>4, <1>6, <1>7, <1>8 DEF IInv

LEMMA IInvStep == IInv /\ [Next]_vars => IInv'
<1> SUFFICES ASSUME IInv, [Next]_vars PROVE IInv'
  OBVIOUS
<1> USE DEF IInv
<1>1. TypeOK' /\ Protocol' /\ Numbering' /\ HonestAnswers'
  BY TypeStep, ProtocolStep, NumberingStep, HonestStep
<1>2. PaidMeansCaptured' /\ EntitlingPaid'
  <2>1. \A n \in AttemptNo :
          attempts'[n].status = "succeeded" => intents'[n].status = "succeeded"
    BY RecordedWasCaptured
  <2> QED BY <2>1, ConfirmedStep DEF PaidMeansCaptured
<1>3. Claims' /\ GraceFollows'
  BY ClaimsStep, GraceStep
<1> QED BY <1>1, <1>2, <1>3

\* The strengthened invariant holds in every reachable state.
THEOREM Invariance == Spec => []IInv
<1>1. Init => IInv
  BY InitIInv
<1>2. IInv /\ [Next]_vars => IInv'
  BY IInvStep
<1> QED BY <1>1, <1>2, PTL DEF Spec

\* Type correctness: the rows, the runs and Stripe's intents keep their shape.
THEOREM TypeCorrect == Spec => []TypeOK
<1>1. IInv => TypeOK
  BY DEF IInv
<1> QED BY <1>1, Invariance, PTL

\* HOST believes in a payment only if Stripe captured it: no order of answers,
\* lost responses, crashes and webhooks confirms a booking that is not paid.
THEOREM PaidIsCaptured == Spec => []PaidMeansCaptured
<1>1. IInv => PaidMeansCaptured
  BY DEF IInv
<1> QED BY <1>1, Invariance, PTL

\* Two runs within their leases never execute one attempt: the advisory lock,
\* the claim token and the lease together keep the second away from Stripe.
THEOREM ExecutionIsExclusive == Spec => []ExclusiveExecution
<1>1. IInv => ExclusiveExecution
  BY DEF IInv, Claims, ExclusiveExecution
<1> QED BY <1>1, Invariance, PTL

\* A recorded success is final: no late decline or stale owner overwrites it.
THEOREM SuccessFinal == Spec => SuccessIsFinal
<1>1. IInv /\ [Next]_vars
        => [\A n \in AttemptNo : attempts[n].status = "succeeded"
                                    => attempts'[n].status = "succeeded"]_vars
  BY SuccessStays DEF IInv
<1> QED BY <1>1, Invariance, PTL DEF Spec, SuccessIsFinal

\* The grace period's start and deadline never move, whatever is retried.
THEOREM GraceFixed == Spec => GraceDeadlineFixed
<1>1. IInv /\ [Next]_vars
        => [booking.grace # NoTime =>
              /\ booking'.grace = booking.grace
              /\ booking'.hold \in {NoTime, booking.grace + GraceLength}]_vars
  BY GraceStep DEF IInv, GraceFollows
<1> QED BY <1>1, Invariance, PTL DEF Spec, GraceDeadlineFixed

\* No second idempotency key while an attempt is open: a run that inserts an
\* attempt has seen the latest closed, under a lock that keeps it so.
THEOREM OneOpenKey == Spec => NoSecondKeyWhileOpen
<1>1. IInv /\ [Next]_vars
        => [count' > count /\ count > 0 =>
              attempts[count].status \notin {"pending", "processing", "requires_action"}]_vars
  <2> SUFFICES ASSUME IInv, [Next]_vars, count' > count, count > 0
               PROVE  attempts[count].status
                        \notin {"pending", "processing", "requires_action"}
    OBVIOUS
  <2>1. PICK w \in Workers : ClaimAttempt(w)
    <3>1. count' # count
      BY DEF IInv, TypeOK
    <3>2. ASSUME NEW w \in Workers, StripeExecutes(w) \/ RecordChargeOutcome(w)
          PROVE  count' = count
      BY <3>2 DEF StripeExecutes, RecordChargeOutcome
    <3>3. ASSUME NEW n \in AttemptNo, StripeSettles(n) \/ OnNewFlowPaymentSucceeded(n)
          PROVE  count' = count
      BY <3>3 DEF StripeSettles, OnNewFlowPaymentSucceeded
    <3> QED BY <3>1, <3>2, <3>3, AttemptsOrQuiet
  <2>2. ~(worker[w].att <= count) /\ worker[w].step = "claiming"
    BY <2>1 DEF ClaimAttempt, IInv, TypeOK
  <2> QED BY <2>2 DEF IInv, Claims
<1> QED BY <1>1, Invariance, PTL DEF Spec, NoSecondKeyWhileOpen
=============================================================================
