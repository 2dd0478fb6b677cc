---------------------------- MODULE HostTransfers ----------------------------
(***************************************************************************)
(* Paying the host of one delayed-flow booking: its row of                  *)
(* host_transfer_entitlements, the runs that release it                     *)
(* (lib/payouts/hostTransfers.ts), the rows of host_transfer_reversals and  *)
(* the runs that execute them (lib/payouts/transferReversal.ts), with       *)
(* transfer execution enabled.                                              *)
(*                                                                         *)
(* Each statement commits by itself and each call to Stripe is a step, so a *)
(* run interleaves with others everywhere and may die anywhere.  A release  *)
(* that died is tried again by calling attemptRelease once more, at the     *)
(* same time as another or days later.                                      *)
(***************************************************************************)
EXTENDS Integers, FiniteSets

CONSTANTS
  Releasers,    \* concurrent runs that release the entitlement
  NoReleaser,   \* claimed_by_worker_id is NULL
  Reversers,    \* concurrent runs of executeReversal
  NoAsk,        \* a run has no reversal in hand
  Asks,         \* reversals: pairs of a reason and an amount, the UNIQUE key
  MaxMade       \* bound: transfers, and reversals for one row, at Stripe

ASSUME HostTransfersAssumption ==
  NoReleaser \notin Releasers /\ NoAsk \notin Asks /\ MaxMade \in Nat

VARIABLES
  due,          \* scheduled_release_at has passed
  clear,        \* the booking is neither cancelled, disputed nor refunded
  entitlement,  \* the host_transfer_entitlements row
  transfers,    \* Stripe's transfers for it
  releaser,     \* the progress of each release
  reversal,     \* the host_transfer_reversals rows
  returns,      \* Stripe's reversals for each row
  reverser      \* the progress of each executeReversal

vars == <<due, clear, entitlement, transfers, releaser, reversal, returns, reverser>>
releaseVars == <<due, clear, entitlement, transfers, releaser>>
reversalVars == <<reversal, returns, reverser>>

Made == 0..MaxMade
\* transfer: provider_transfer_id, 0 for NULL.
Entitlements ==
  [status : {"none", "entitled", "transfer_claimed", "transfer_created", "transfer_failed"},
   owner : Releasers \cup {NoReleaser}, transfer : Made]
\* keyed: Stripe remembers the idempotency key; recent: the latest is among the 20
\* latest transfers to the host.
Transfers == [count : Made, keyed : BOOLEAN, recent : BOOLEAN]
ReleaserStates ==
  [step : {"idle", "found", "claimed", "listing", "creating", "saving", "failing"}, transfer : Made]
Reversals ==
  [status : {"none", "reversal_requested", "reversal_confirmed", "reversal_failed"}, provider : Made]
\* recent: the latest is among the 20 latest reversals of the transfer.
Returns == [count : Made, keyed : BOOLEAN, recent : BOOLEAN]
ReverserStates ==
  [step : {"idle", "listing", "creating", "confirming", "failing"}, ask : Asks \cup {NoAsk},
   provider : Made]

TypeOK ==
  /\ due \in BOOLEAN /\ clear \in BOOLEAN
  /\ entitlement \in Entitlements
  /\ transfers \in Transfers
  /\ releaser \in [Releasers -> ReleaserStates]
  /\ reversal \in [Asks -> Reversals]
  /\ returns \in [Asks -> Returns]
  /\ reverser \in [Reversers -> ReverserStates]

NoRelease == [step |-> "idle", transfer |-> 0]
NoExecution == [step |-> "idle", ask |-> NoAsk, provider |-> 0]

Init ==
  /\ due = FALSE /\ clear = TRUE
  /\ entitlement = [status |-> "none", owner |-> NoReleaser, transfer |-> 0]
  /\ transfers = [count |-> 0, keyed |-> FALSE, recent |-> FALSE]
  /\ releaser = [w \in Releasers |-> NoRelease]
  /\ reversal = [q \in Asks |-> [status |-> "none", provider |-> 0]]
  /\ returns = [q \in Asks |-> [count |-> 0, keyed |-> FALSE, recent |-> FALSE]]
  /\ reverser = [v \in Reversers |-> NoExecution]

-----------------------------------------------------------------------------
(* What happens elsewhere. *)

ReleaseTimePasses ==
  /\ due' = TRUE
  /\ UNCHANGED <<clear, entitlement, transfers, releaser, reversalVars>>

\* For good.  (Disputes and refunds, which the release looks for too, need a payments
\* row, and a booking of this flow has none.)
CancelBooking ==
  /\ clear' = FALSE
  /\ UNCHANGED <<due, entitlement, transfers, releaser, reversalVars>>

\* A day or so after a request, Stripe forgets its key.
TransferKeyExpires ==
  /\ transfers.keyed
  /\ \A w \in Releasers : releaser[w].step \notin {"listing", "creating"}
  /\ transfers' = [transfers EXCEPT !.keyed = FALSE]
  /\ UNCHANGED <<due, clear, entitlement, releaser, reversalVars>>

ReturnKeyExpires(q) ==
  /\ returns[q].keyed
  /\ \A v \in Reversers : reverser[v].ask # q
  /\ returns' = [returns EXCEPT ![q].keyed = FALSE]
  /\ UNCHANGED <<releaseVars, reversal, reverser>>

\* The host receives 20 transfers for other bookings.
OtherTransfers ==
  /\ transfers' = [transfers EXCEPT !.recent = FALSE]
  /\ UNCHANGED <<due, clear, entitlement, releaser, reversalVars>>

\* The transfer is reversed 20 times more.
OtherReturns(q) ==
  /\ returns' = [returns EXCEPT ![q].recent = FALSE]
  /\ UNCHANGED <<releaseVars, reversal, reverser>>

-----------------------------------------------------------------------------
(* The entitlement: create, find, claim. *)

\* ON CONFLICT (booking_id) DO NOTHING
CreateEntitlement ==
  /\ entitlement.status = "none"
  /\ entitlement' = [entitlement EXCEPT !.status = "entitled"]
  /\ UNCHANGED <<due, clear, transfers, releaser, reversalVars>>

ReleaseDue == entitlement.status = "entitled" /\ due /\ clear

FindReleaseDue(w) ==
  /\ releaser[w].step = "idle"
  /\ ReleaseDue
  /\ releaser' = [releaser EXCEPT ![w].step = "found"]
  /\ UNCHANGED <<due, clear, entitlement, transfers, reversalVars>>

Claimable == entitlement.status = "entitled"

ClaimEntitlement(w) ==
  /\ releaser[w].step = "found"
  /\ IF Claimable
     THEN /\ entitlement' = [entitlement EXCEPT !.status = "transfer_claimed", !.owner = w]
          /\ releaser' = [releaser EXCEPT ![w].step = "claimed"]
     ELSE /\ releaser' = [releaser EXCEPT ![w] = NoRelease]
          /\ UNCHANGED entitlement
  /\ UNCHANGED <<due, clear, transfers, reversalVars>>

-----------------------------------------------------------------------------
(* attemptRelease. *)

Releasable == entitlement.status = "transfer_claimed" /\ entitlement.transfer = 0

BeginRelease(w) ==
  /\ \/ releaser[w].step = "claimed"
     \/ releaser[w].step = "idle" /\ Releasable
  /\ releaser' = [releaser EXCEPT ![w] =
       IF Releasable THEN [@ EXCEPT !.step = "listing"] ELSE NoRelease]
  /\ UNCHANGED <<due, clear, entitlement, transfers, reversalVars>>

\* transfers.list, the 20 latest to this host, looked through for metadata.
ListTransfers(w) ==
  /\ releaser[w].step = "listing"
  /\ releaser' = [releaser EXCEPT ![w] =
       IF transfers.count > 0 /\ transfers.recent
       THEN [step |-> "saving", transfer |-> transfers.count]
       ELSE [@ EXCEPT !.step = "creating"]]
  /\ UNCHANGED <<due, clear, entitlement, transfers, reversalVars>>

\* transfers.create: a key Stripe remembers answers the transfer made with it.  The
\* answer may be lost.
CreateTransfer(w) ==
  /\ releaser[w].step = "creating"
  /\ IF transfers.keyed
     THEN UNCHANGED transfers
     ELSE /\ transfers.count < MaxMade
          /\ transfers' = [count |-> transfers.count + 1, keyed |-> TRUE, recent |-> TRUE]
  /\ \E answer \in {"saving", "failing"} :
       releaser' = [releaser EXCEPT ![w] = [step |-> answer, transfer |->
         IF answer = "saving" THEN transfers'.count ELSE 0]]
  /\ UNCHANGED <<due, clear, entitlement, reversalVars>>

\* Stripe refuses, or is not reached.
TransferRefused(w) ==
  /\ releaser[w].step = "creating"
  /\ releaser' = [releaser EXCEPT ![w].step = "failing"]
  /\ UNCHANGED <<due, clear, entitlement, transfers, reversalVars>>

\* (CreatedAllTheSame, a mutated form, records an attempt whatever came of it.)
CreatedAllTheSame == [entitlement EXCEPT !.status = "transfer_created"]
AfterTransferError == [entitlement EXCEPT !.status = "transfer_failed"]

SaveTransfer(w) ==
  /\ \/ /\ releaser[w].step = "saving"
        /\ entitlement' = [entitlement EXCEPT !.status = "transfer_created",
                                              !.transfer = releaser[w].transfer]
     \/ /\ releaser[w].step = "failing"
        /\ entitlement' = AfterTransferError
  /\ releaser' = [releaser EXCEPT ![w] = NoRelease]
  /\ UNCHANGED <<due, clear, transfers, reversalVars>>

ReleaserDies(w) ==
  /\ releaser[w].step # "idle"
  /\ releaser' = [releaser EXCEPT ![w] = NoRelease]
  /\ UNCHANGED <<due, clear, entitlement, transfers, reversalVars>>

-----------------------------------------------------------------------------
(* Reversals. *)

\* ON CONFLICT (idempotency_key) DO NOTHING: a second request for the same reason
\* and amount is the first one.
RequestReversal(q) ==
  /\ entitlement.status # "none"
  /\ reversal[q].status = "none"
  /\ reversal' = [reversal EXCEPT ![q].status = "reversal_requested"]
  /\ UNCHANGED <<releaseVars, returns, reverser>>

BeginReversal(v, q) ==
  /\ reverser[v].step = "idle"
  /\ reversal[q].status = "reversal_requested"
  /\ entitlement.transfer # 0
  /\ reverser' = [reverser EXCEPT ![v] = [step |-> "listing", ask |-> q, provider |-> 0]]
  /\ UNCHANGED <<releaseVars, reversal, returns>>

\* transfers.listReversals, the 20 latest of this transfer, looked through for metadata.
\* (NeverFound, a mutated form, relies on the idempotency key alone.)
NeverFound(q) == FALSE
FoundReturn(q) == returns[q].count > 0 /\ returns[q].recent

ListReturns(v) ==
  LET q == reverser[v].ask IN
  /\ reverser[v].step = "listing"
  /\ reverser' = [reverser EXCEPT ![v] =
       IF FoundReturn(q)
       THEN [@ EXCEPT !.step = "confirming", !.provider = returns[q].count]
       ELSE [@ EXCEPT !.step = "creating"]]
  /\ UNCHANGED <<releaseVars, reversal, returns>>

CreateReturn(v) ==
  LET q == reverser[v].ask IN
  /\ reverser[v].step = "creating"
  /\ IF returns[q].keyed
     THEN UNCHANGED returns
     ELSE /\ returns[q].count < MaxMade
          /\ returns' = [returns EXCEPT ![q] =
               [count |-> @.count + 1, keyed |-> TRUE, recent |-> TRUE]]
  /\ \E answer \in {"confirming", "failing"} :
       reverser' = [reverser EXCEPT ![v] = [step |-> answer, ask |-> q, provider |->
         IF answer = "confirming" THEN returns'[q].count ELSE 0]]
  /\ UNCHANGED <<releaseVars, reversal>>

\* The host's balance does not suffice, or Stripe is not reached.
ReturnRefused(v) ==
  /\ reverser[v].step = "creating"
  /\ reverser' = [reverser EXCEPT ![v].step = "failing"]
  /\ UNCHANGED <<releaseVars, reversal, returns>>

ConfirmReversal(v) ==
  /\ reverser[v].step = "confirming"
  /\ reversal' = [reversal EXCEPT ![reverser[v].ask] =
       [status |-> "reversal_confirmed", provider |-> reverser[v].provider]]
  /\ reverser' = [reverser EXCEPT ![v] = NoExecution]
  /\ UNCHANGED <<releaseVars, returns>>

\* The catch covers a failure of confirmReversal, too.
MarkReversalFailed(v) ==
  /\ reverser[v].step \in {"confirming", "failing"}
  /\ reversal' = [reversal EXCEPT ![reverser[v].ask].status = "reversal_failed"]
  /\ reverser' = [reverser EXCEPT ![v] = NoExecution]
  /\ UNCHANGED <<releaseVars, returns>>

ReverserDies(v) ==
  /\ reverser[v].step # "idle"
  /\ reverser' = [reverser EXCEPT ![v] = NoExecution]
  /\ UNCHANGED <<releaseVars, reversal, returns>>

-----------------------------------------------------------------------------

QuietStep ==
  \/ ReleaseTimePasses \/ CancelBooking \/ TransferKeyExpires \/ CreateEntitlement
  \/ \E w \in Releasers :
       \/ FindReleaseDue(w) \/ ClaimEntitlement(w) \/ BeginRelease(w) \/ ListTransfers(w)
       \/ CreateTransfer(w) \/ TransferRefused(w) \/ SaveTransfer(w) \/ ReleaserDies(w)
  \/ \E q \in Asks :
       RequestReversal(q) \/ ReturnKeyExpires(q) \/ \E v \in Reversers : BeginReversal(v, q)
  \/ \E v \in Reversers :
       \/ ListReturns(v) \/ CreateReturn(v) \/ ReturnRefused(v) \/ ConfirmReversal(v)
       \/ MarkReversalFailed(v) \/ ReverserDies(v)

Next == QuietStep \/ OtherTransfers \/ \E q \in Asks : OtherReturns(q)
Spec == Init /\ [][Next]_vars

\* Fewer than 20 transfers to the host since this one, and fewer than 20 reversals of it
\* since the one looked for: what was made is always listed.
SpecQuiet == Init /\ [][QuietStep]_vars

-----------------------------------------------------------------------------
(* Properties. *)

\* One run ever claims the entitlement, and the claim is never given back, however
\* many runs found it due (claimEntitlement's conditional UPDATE).
ClaimedOnce ==
  [][entitlement.owner # NoReleaser =>
       entitlement'.owner = entitlement.owner /\ entitlement'.status # "entitled"]_vars

\* What the rows call done is done: a created transfer, a confirmed reversal and a
\* reversal at all rest on Stripe's objects, whichever of several runs wrote last.
EvidenceIsReal ==
  /\ entitlement.status = "transfer_created" => entitlement.transfer # 0
  /\ entitlement.transfer <= transfers.count
  /\ \A q \in Asks :
       /\ reversal[q].status = "reversal_confirmed" => reversal[q].provider # 0
       /\ reversal[q].provider <= returns[q].count
       /\ returns[q].count > 0 => transfers.count > 0

\* No money reaches the host before the release time, on any path.
NothingBeforeRelease == transfers.count > 0 => due

\* The host's share moves once and each reversal takes its part back once, through
\* crashes, lost answers, concurrent retries and forgotten keys.  It holds of
\* SpecQuiet, and not of Spec: a transfer (or a reversal) that is no longer listed, tried
\* again after its key was forgotten, is made again.
Abstract == INSTANCE Settlement
  WITH moved <- transfers.count, returned <- [q \in Asks |-> returns[q].count]
ImplementsSettlement == Abstract!Spec
=============================================================================
