----------------------------- MODULE MCLiveness -----------------------------
(***************************************************************************)
(* What must happen in the end: of a charge, of two calendars that import  *)
(* each other, and of a page that waits for a payment.  The three share no *)
(* state; a behaviour picks its part at the start, and the other two stay  *)
(* where they began, without fairness.                                     *)
(***************************************************************************)
EXTENDS ScheduledCharges

CONSTANTS LastNight, Syncs, Echoes  \* of CalendarExchange
CONSTANTS Patience, SettledAfter, Polls  \* of CheckoutReturn

VARIABLES
  part,
  sold, feed, events, sync, held, linked,
  stay, checkout, asks, shown, polls, polling

Exchange == INSTANCE CalendarExchange
Return == INSTANCE CheckoutReturn WITH attempts <- polls
exchangeVars == <<sold, feed, events, sync, held, linked>>
returnVars == <<stay, checkout, asks, shown, polls, polling>>

ASSUME LivenessAssumption == Exchange!ExchangeAssumption /\ Return!CheckoutReturnAssumption

DeferredOrImmediate == {1, NoTime}

all == <<part, vars, exchangeVars, returnVars>>

InCharge(A) == part = "charge" /\ A /\ UNCHANGED <<part, exchangeVars, returnVars>>
InExchange(A) == part = "exchange" /\ A /\ UNCHANGED <<part, vars, returnVars>>
InReturn(A) == part = "return" /\ A /\ UNCHANGED <<part, vars, exchangeVars>>

LivenessInit ==
  /\ part \in {"charge", "exchange", "return"}
  /\ Init /\ Exchange!Init /\ Return!Init
  /\ part # "charge" => booking.sched = NoTime
  /\ part # "return" => stay.flow = "destination_charge_legacy" /\ ~stay.deferred

LivenessSpec ==
  /\ LivenessInit
  /\ [][InCharge(Next) \/ InExchange(Exchange!Next) \/ InReturn(Return!Next)]_all
  /\ \A n \in AttemptNo : WF_all(InCharge(OnNewFlowPaymentSucceeded(n)))
  /\ WF_all(InCharge(CreateEntitlement))
  /\ \A s \in Syncs :
       /\ WF_all(InExchange(Exchange!BeginSync(s)))
       /\ SF_all(InExchange(Exchange!Fetch(s)))
       /\ SF_all(InExchange(Exchange!FinishSync(s)))
  /\ WF_all(InExchange(Exchange!Poll))
  /\ WF_all(InReturn(Return!Tick))

(* A night sold on neither side is free on both in the end, while the      *)
(* calendars stay connected: see CalendarExchange.                         *)
FreedNightsReturn ==
  \A n \in Exchange!Nights :
    <>[](part = "exchange" /\ Exchange!SoldNowhere(n)) => <>[]Exchange!FreeOnBoth(n)

(* The page a guest returns to stops asking, whatever becomes of the       *)
(* booking and of the answers: see CheckoutReturn.                         *)
PollingEnds == [](part = "return" /\ polling => <>~polling)

=============================================================================
