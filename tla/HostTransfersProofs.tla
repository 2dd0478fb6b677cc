------------------------ MODULE HostTransfersProofs ------------------------
(***************************************************************************)
(* Theorems about HostTransfers, for any number of runs and reversals: of   *)
(* Spec, what the rows say and who claims; of SpecQuiet, that money moves   *)
(* as Settlement says.                                                      *)
(***************************************************************************)
EXTENDS HostTransfers, TLAPS

\* What is past scheduled_release_at: a release found it so, and whatever follows.
AfterDue ==
  /\ \A w \in Releasers : releaser[w].step # "idle" => due
  /\ entitlement.status \notin {"none", "entitled"} => due

\* What a run carries from Stripe, and what the rows keep of it, exists at Stripe.
Carried ==
  /\ \A w \in Releasers : releaser[w].step = "saving" =>
       releaser[w].transfer \in 1..transfers.count
  /\ \A v \in Reversers :
       /\ reverser[v].step # "idle" => reverser[v].ask \in Asks /\ transfers.count > 0
       /\ reverser[v].step = "confirming" =>
            reverser[v].provider \in 1..returns[reverser[v].ask].count

\* Stripe remembers a key only with what was made under it.
KeyedExists ==
  /\ transfers.keyed => transfers.count > 0
  /\ \A q \in Asks : returns[q].keyed => returns[q].count > 0

IInv == TypeOK /\ AfterDue /\ Carried /\ KeyedExists /\ EvidenceIsReal /\ NothingBeforeRelease

LEMMA InitIInv == Init => IInv
<1> SUFFICES ASSUME Init PROVE IInv
  OBVIOUS
<1>1. TypeOK
  <2> USE HostTransfersAssumption DEF Init, Made
  <2>1. entitlement \in Entitlements /\ transfers \in Transfers
    BY DEF Entitlements, Transfers
  <2>2. releaser \in [Releasers -> ReleaserStates]
    BY DEF NoRelease, ReleaserStates
  <2>3. reversal \in [Asks -> Reversals] /\ returns \in [Asks -> Returns]
    BY DEF Reversals, Returns
  <2>4. reverser \in [Reversers -> ReverserStates]
    BY DEF NoExecution, ReverserStates
  <2> QED
    BY <2>1, <2>2, <2>3, <2>4 DEF TypeOK
<1>2. AfterDue /\ Carried /\ KeyedExists /\ NothingBeforeRelease
  BY DEF Init, AfterDue, Carried, KeyedExists, NothingBeforeRelease, NoRelease, NoExecution
<1>3. EvidenceIsReal
  BY DEF Init, EvidenceIsReal
<1> QED
  BY <1>1, <1>2, <1>3 DEF IInv

\* The rows' types, opened once.
LEMMA Typed ==
  ASSUME TypeOK
  PROVE  /\ entitlement.status \in
              {"none", "entitled", "transfer_claimed", "transfer_created", "transfer_failed"}
         /\ entitlement = [status |-> entitlement.status, owner |-> entitlement.owner,
                           transfer |-> entitlement.transfer]
         /\ entitlement.owner \in Releasers \cup {NoReleaser} /\ entitlement.transfer \in Nat
         /\ transfers = [count |-> transfers.count, keyed |-> transfers.keyed,
                         recent |-> transfers.recent]
         /\ transfers.count \in Nat
         /\ \A q \in Asks : returns[q].count \in Nat /\ reversal[q].provider \in Nat
BY HostTransfersAssumption DEF TypeOK, Entitlements, Transfers, Returns, Reversals, Made

-----------------------------------------------------------------------------
(* Type correctness. *)

ReleaseStep(w) ==
  \/ FindReleaseDue(w) \/ ClaimEntitlement(w) \/ BeginRelease(w) \/ ListTransfers(w)
  \/ CreateTransfer(w) \/ TransferRefused(w) \/ SaveTransfer(w) \/ ReleaserDies(w)
Elsewhere ==
  \/ ReleaseTimePasses \/ CancelBooking \/ TransferKeyExpires \/ CreateEntitlement
  \/ OtherTransfers \/ \E q \in Asks : OtherReturns(q)
AskStep(q) ==
  RequestReversal(q) \/ ReturnKeyExpires(q) \/ \E v \in Reversers : BeginReversal(v, q)
ReverseStep(v) ==
  \/ ListReturns(v) \/ CreateReturn(v) \/ ReturnRefused(v) \/ ConfirmReversal(v)
  \/ MarkReversalFailed(v) \/ ReverserDies(v)

LEMMA Steps ==
  Next => \/ Elsewhere
          \/ \E w \in Releasers : ReleaseStep(w)
          \/ \E q \in Asks : AskStep(q)
          \/ \E v \in Reversers : ReverseStep(v)
BY DEF Next, QuietStep, Elsewhere, ReleaseStep, AskStep, ReverseStep

LEMMA ElsewhereTyped == TypeOK /\ Elsewhere => TypeOK'
<1> SUFFICES ASSUME TypeOK, Elsewhere PROVE TypeOK'
  OBVIOUS
<1> USE DEF TypeOK, releaseVars, reversalVars
<1>1. CASE ReleaseTimePasses \/ CancelBooking
  BY <1>1 DEF ReleaseTimePasses, CancelBooking
<1>2. CASE TransferKeyExpires \/ OtherTransfers
  BY <1>2 DEF TransferKeyExpires, OtherTransfers, Transfers
<1>3. CASE CreateEntitlement
  BY <1>3 DEF CreateEntitlement, Entitlements
<1>4. ASSUME NEW q \in Asks, OtherReturns(q) PROVE TypeOK'
  BY <1>4 DEF OtherReturns, Returns
<1> QED
  BY <1>1, <1>2, <1>3, <1>4 DEF Elsewhere

LEMMA ReleaseTyped == ASSUME TypeOK, NEW w \in Releasers, ReleaseStep(w) PROVE TypeOK'
<1> USE HostTransfersAssumption DEF TypeOK, reversalVars, ReleaserStates, NoRelease, Made
<1>1. CASE FindReleaseDue(w)
  BY <1>1 DEF FindReleaseDue
<1>2. CASE ClaimEntitlement(w)
  <2>1. entitlement' \in Entitlements
    BY <1>2 DEF ClaimEntitlement, Entitlements
  <2>2. releaser' \in [Releasers -> ReleaserStates]
    BY <1>2 DEF ClaimEntitlement
  <2> QED
    BY <1>2, <2>1, <2>2 DEF ClaimEntitlement
<1>3. CASE BeginRelease(w)
  BY <1>3 DEF BeginRelease
<1>4. CASE ListTransfers(w)
  BY <1>4 DEF ListTransfers, Transfers
<1>5. CASE CreateTransfer(w)
  <2>0. transfers.count \in 0..MaxMade
    BY DEF Transfers
  <2>1. transfers' \in Transfers
    <3>1. CASE transfers.keyed
      BY <1>5, <3>1 DEF CreateTransfer
    <3>2. CASE ~transfers.keyed
      <4>1. /\ transfers.count < MaxMade
            /\ transfers' = [count |-> transfers.count + 1, keyed |-> TRUE, recent |-> TRUE]
        BY <1>5, <3>2 DEF CreateTransfer
      <4>2. transfers.count + 1 \in 0..MaxMade
        BY <2>0, <4>1
      <4> QED
        BY <4>1, <4>2 DEF Transfers
    <3> QED
      BY <3>1, <3>2
  <2>2. transfers'.count \in 0..MaxMade
    BY <2>1 DEF Transfers
  <2> QED
    BY <1>5, <2>1, <2>2 DEF CreateTransfer
<1>6. CASE TransferRefused(w)
  BY <1>6 DEF TransferRefused
<1>7. CASE SaveTransfer(w)
  <2>1. entitlement' \in Entitlements
    <3>1. CASE releaser[w].step = "saving"
      <4>1. entitlement' = [entitlement EXCEPT !.status = "transfer_created",
                                               !.transfer = releaser[w].transfer]
        BY <1>7, <3>1 DEF SaveTransfer
      <4>2. releaser[w].transfer \in 0..MaxMade
        OBVIOUS
      <4> QED
        BY <4>1, <4>2 DEF Entitlements
    <3>2. CASE releaser[w].step # "saving"
      BY <1>7, <3>2 DEF SaveTransfer, AfterTransferError, Entitlements
    <3> QED
      BY <3>1, <3>2
  <2>2. releaser' \in [Releasers -> ReleaserStates]
    BY <1>7 DEF SaveTransfer
  <2> QED
    BY <1>7, <2>1, <2>2 DEF SaveTransfer
<1>8. CASE ReleaserDies(w)
  BY <1>8 DEF ReleaserDies
<1> QED
  BY <1>1, <1>2, <1>3, <1>4, <1>5, <1>6, <1>7, <1>8 DEF ReleaseStep

LEMMA AskTyped == ASSUME TypeOK, NEW q \in Asks, AskStep(q) PROVE TypeOK'
<1> USE HostTransfersAssumption DEF TypeOK, releaseVars, Made
<1>1. CASE RequestReversal(q)
  BY <1>1 DEF RequestReversal, Reversals
<1>2. CASE ReturnKeyExpires(q)
  BY <1>2 DEF ReturnKeyExpires, Returns
<1>3. ASSUME NEW v \in Reversers, BeginReversal(v, q) PROVE TypeOK'
  BY <1>3 DEF BeginReversal, ReverserStates
<1> QED
  BY <1>1, <1>2, <1>3 DEF AskStep

LEMMA ReverseTyped ==
  ASSUME TypeOK, Carried, NEW v \in Reversers, ReverseStep(v) PROVE TypeOK'
<1> USE HostTransfersAssumption DEF TypeOK, releaseVars, ReverserStates, NoExecution, Made
<1>0. reverser[v].step # "idle" => reverser[v].ask \in Asks
  BY DEF Carried
<1>1. CASE ListReturns(v)
  BY <1>0, <1>1, ZenonT(60) DEF ListReturns, FoundReturn, Returns
<1>2. CASE CreateReturn(v)
  <2> DEFINE q == reverser[v].ask
  <2>1. q \in Asks
    BY <1>0, <1>2 DEF CreateReturn
  <2>2. returns' \in [Asks -> Returns]
    <3>1. CASE returns[q].keyed
      BY <1>2, <3>1 DEF CreateReturn
    <3>2. CASE ~returns[q].keyed
      <4> DEFINE made == [count |-> returns[q].count + 1, keyed |-> TRUE, recent |-> TRUE]
      <4>1. returns[q].count < MaxMade /\ returns' = [returns EXCEPT ![q] = made]
        BY <1>2, <2>1, <3>2 DEF CreateReturn
      <4>2. returns[q].count \in 0..MaxMade
        BY <2>1 DEF Returns
      <4>3. made \in Returns
        BY <4>1, <4>2 DEF Returns
      <4> QED
        BY <4>1, <4>3
    <3> QED
      BY <3>1, <3>2
  <2>3. returns'[q].count \in 0..MaxMade
    BY <2>1, <2>2 DEF Returns
  <2>4. reverser' \in [Reversers -> ReverserStates]
    <3>1. PICK answer \in {"confirming", "failing"} :
            reverser' = [reverser EXCEPT ![v] = [step |-> answer, ask |-> q, provider |->
              IF answer = "confirming" THEN returns'[q].count ELSE 0]]
      BY <1>2 DEF CreateReturn
    <3> QED
      BY <2>1, <2>3, <3>1
  <2> QED
    BY <1>2, <2>2, <2>4 DEF CreateReturn
<1>3. CASE ReturnRefused(v)
  BY <1>3 DEF ReturnRefused
<1>4. CASE ConfirmReversal(v)
  BY <1>0, <1>4 DEF ConfirmReversal, Reversals
<1>5. CASE MarkReversalFailed(v)
  BY <1>0, <1>5 DEF MarkReversalFailed, Reversals
<1>6. CASE ReverserDies(v)
  BY <1>6 DEF ReverserDies
<1> QED
  BY <1>1, <1>2, <1>3, <1>4, <1>5, <1>6 DEF ReverseStep

-----------------------------------------------------------------------------
(* What the rows say. *)

Says == AfterDue /\ Carried /\ KeyedExists /\ EvidenceIsReal /\ NothingBeforeRelease

LEMMA ElsewhereSays == IInv /\ Elsewhere => Says'
<1> SUFFICES ASSUME IInv, Elsewhere PROVE Says'
  OBVIOUS
<1>1. UNCHANGED <<releaser, reversal, reverser>>
  BY DEF Elsewhere, ReleaseTimePasses, CancelBooking, TransferKeyExpires, CreateEntitlement,
     OtherTransfers, OtherReturns, releaseVars, reversalVars
<1>2. due => due'
  BY DEF Elsewhere, ReleaseTimePasses, CancelBooking, TransferKeyExpires, CreateEntitlement,
     OtherTransfers, OtherReturns, releaseVars
<1>3. transfers'.count = transfers.count /\ (transfers'.keyed => transfers.keyed)
  BY Typed DEF Elsewhere, ReleaseTimePasses, CancelBooking, TransferKeyExpires,
     CreateEntitlement, OtherTransfers, OtherReturns, releaseVars, IInv
<1>4. /\ entitlement'.transfer = entitlement.transfer
      /\ entitlement'.status \in {entitlement.status, "entitled"}
  BY Typed DEF Elsewhere, ReleaseTimePasses, CancelBooking, TransferKeyExpires,
     CreateEntitlement, OtherTransfers, OtherReturns, releaseVars, IInv
<1>5. \A p \in Asks : returns'[p].count = returns[p].count /\ returns'[p].keyed = returns[p].keyed
  <2>1. ASSUME NEW q \in Asks, OtherReturns(q)
        PROVE  \A p \in Asks :
                 returns'[p].count = returns[p].count /\ returns'[p].keyed = returns[p].keyed
    BY <2>1 DEF OtherReturns, IInv, TypeOK, Returns
  <2> QED
    BY <2>1 DEF Elsewhere, ReleaseTimePasses, CancelBooking, TransferKeyExpires,
       CreateEntitlement, OtherTransfers, reversalVars
<1> QED
  BY <1>1, <1>2, <1>3, <1>4, <1>5
  DEF IInv, Says, AfterDue, Carried, KeyedExists, EvidenceIsReal, NothingBeforeRelease

\* A release changes nothing of the reversals and loses no transfer.
LEMMA ReleaseSays == ASSUME IInv, NEW w \in Releasers, ReleaseStep(w) PROVE Says'
<1>1. UNCHANGED <<due, reversal, returns, reverser>>
  BY DEF ReleaseStep, FindReleaseDue, ClaimEntitlement, BeginRelease, ListTransfers,
     CreateTransfer, TransferRefused, SaveTransfer, ReleaserDies, reversalVars
<1>2. /\ releaser \in [Releasers -> ReleaserStates]
      /\ \A u \in Releasers \ {w} : releaser'[u] = releaser[u]
  BY DEF ReleaseStep, FindReleaseDue, ClaimEntitlement, BeginRelease, ListTransfers,
     CreateTransfer, TransferRefused, SaveTransfer, ReleaserDies, IInv, TypeOK
<1> DEFINE Grows == /\ transfers'.count \in Nat /\ transfers'.count >= transfers.count
                    /\ transfers'.keyed => transfers'.count > 0
           Own == releaser'[w].step = "saving" => releaser'[w].transfer \in 1..transfers'.count
           Row == /\ entitlement'.status = "transfer_created" => entitlement'.transfer # 0
                  /\ entitlement'.transfer \in 0..transfers'.count
           When == /\ releaser'[w].step # "idle" => due
                   /\ entitlement'.status \notin {"none", "entitled"} => due
                   /\ transfers'.count > 0 => due
<1>3. entitlement.transfer \in 0..transfers.count /\ transfers.count \in Nat
  BY Typed DEF IInv, EvidenceIsReal
<1>4. Grows /\ Own /\ Row /\ When
  <2> USE <1>2, <1>3 DEF IInv, AfterDue, Carried, KeyedExists, EvidenceIsReal,
               NothingBeforeRelease
  <2>1. CASE FindReleaseDue(w)
    BY <2>1 DEF FindReleaseDue, ReleaseDue
  <2>2. CASE ClaimEntitlement(w)
    <3>1. due /\ releaser'[w].step # "saving" /\ UNCHANGED transfers
      BY <2>2 DEF ClaimEntitlement, NoRelease, ReleaserStates
    <3>2. \/ entitlement' = entitlement
          \/ entitlement' = [entitlement EXCEPT !.status = "transfer_claimed", !.owner = w]
      BY <2>2 DEF ClaimEntitlement
    <3>3. entitlement'.transfer = entitlement.transfer
          /\ entitlement'.status \in {entitlement.status, "transfer_claimed"}
      BY <3>2, Typed
    <3> QED
      BY <3>1, <3>3
  <2>3. CASE BeginRelease(w)
    BY <2>3 DEF BeginRelease, Releasable, NoRelease
  <2>4. CASE ListTransfers(w)
    BY <2>4 DEF ListTransfers
  <2>5. CASE CreateTransfer(w)
    <3>1. Grows /\ (transfers.keyed \/ transfers'.count > 0)
      BY <2>5 DEF CreateTransfer
    <3>2. due /\ UNCHANGED entitlement
      BY <2>5 DEF CreateTransfer
    <3>3. PICK answer \in {"saving", "failing"} :
            releaser' = [releaser EXCEPT ![w] = [step |-> answer, transfer |->
              IF answer = "saving" THEN transfers'.count ELSE 0]]
      BY <2>5 DEF CreateTransfer
    <3>4. releaser'[w].step = "saving" =>
            releaser'[w].transfer = transfers'.count /\ transfers'.count > 0
      BY <3>1, <3>3 DEF KeyedExists
    <3> QED
      BY <3>1, <3>2, <3>4
  <2>6. CASE TransferRefused(w)
    BY <2>6 DEF TransferRefused
  <2>7. CASE SaveTransfer(w)
    <3>1. due /\ releaser'[w].step # "saving" /\ UNCHANGED transfers
      BY <2>7 DEF SaveTransfer, NoRelease
    <3>2. CASE releaser[w].step = "saving"
      <4>1. entitlement' = [entitlement EXCEPT !.status = "transfer_created",
                                               !.transfer = releaser[w].transfer]
        BY <2>7, <3>2 DEF SaveTransfer
      <4>2. entitlement'.transfer = releaser[w].transfer
        BY <4>1, Typed
      <4> QED
        BY <3>1, <3>2, <4>2
    <3>3. CASE releaser[w].step # "saving"
      <4>1. entitlement' = [entitlement EXCEPT !.status = "transfer_failed"]
        BY <2>7, <3>3 DEF SaveTransfer, AfterTransferError
      <4>2. entitlement'.transfer = entitlement.transfer
            /\ entitlement'.status = "transfer_failed"
        BY <4>1, Typed
      <4> QED
        BY <3>1, <4>2
    <3> QED
      BY <3>2, <3>3
  <2>8. CASE ReleaserDies(w)
    BY <2>8 DEF ReleaserDies, NoRelease
  <2> QED
    BY <2>1, <2>2, <2>3, <2>4, <2>5, <2>6, <2>7, <2>8 DEF ReleaseStep
<1>5. AfterDue' /\ NothingBeforeRelease'
  BY <1>1, <1>2, <1>4 DEF IInv, AfterDue, NothingBeforeRelease
<1>6. Carried' /\ KeyedExists'
  BY <1>1, <1>2, <1>3, <1>4 DEF IInv, Carried, KeyedExists
<1>7. EvidenceIsReal'
  BY <1>1, <1>3, <1>4 DEF IInv, EvidenceIsReal
<1> QED
  BY <1>5, <1>6, <1>7 DEF Says

LEMMA AskSays == ASSUME IInv, NEW q \in Asks, AskStep(q) PROVE Says'
<1> USE DEF IInv, Says, AfterDue, Carried, KeyedExists, EvidenceIsReal, NothingBeforeRelease,
            releaseVars
<1>1. CASE RequestReversal(q)
  <2>1. /\ reversal'[q].status = "reversal_requested"
        /\ \A p \in Asks : reversal'[p].provider = reversal[p].provider
        /\ \A p \in Asks \ {q} : reversal'[p] = reversal[p]
    BY <1>1 DEF RequestReversal, TypeOK, Reversals
  <2> QED
    BY <1>1, <2>1 DEF RequestReversal
<1>2. CASE ReturnKeyExpires(q)
  <2>1. \A p \in Asks : /\ returns'[p].count = returns[p].count
                        /\ returns'[p].keyed => returns[p].keyed
    BY <1>2 DEF ReturnKeyExpires, TypeOK, Returns
  <2> QED
    BY <1>2, <2>1 DEF ReturnKeyExpires
<1>3. ASSUME NEW v \in Reversers, BeginReversal(v, q) PROVE Says'
  <2>1. transfers.count > 0
    BY <1>3, Typed DEF BeginReversal
  <2>2. \A u \in Reversers :
          \/ reverser'[u] = reverser[u]
          \/ reverser'[u].step = "listing" /\ reverser'[u].ask = q
    BY <1>3 DEF BeginReversal, TypeOK
  <2> QED
    BY <1>3, <2>1, <2>2 DEF BeginReversal
<1> QED
  BY <1>1, <1>2, <1>3 DEF AskStep

\* An execution changes nothing of the release and loses no reversal.
LEMMA ReverseSays == ASSUME IInv, NEW v \in Reversers, ReverseStep(v) PROVE Says'
<1> DEFINE q == reverser[v].ask
<1>1. UNCHANGED releaseVars
  BY DEF ReverseStep, ListReturns, CreateReturn, ReturnRefused, ConfirmReversal,
     MarkReversalFailed, ReverserDies, releaseVars
<1>2. reverser[v].step # "idle" /\ q \in Asks /\ transfers.count > 0
  BY DEF ReverseStep, ListReturns, CreateReturn, ReturnRefused, ConfirmReversal,
     MarkReversalFailed, ReverserDies, IInv, Carried
<1>3. /\ reverser \in [Reversers -> ReverserStates]
      /\ \A u \in Reversers \ {v} : reverser'[u] = reverser[u]
  BY DEF ReverseStep, ListReturns, CreateReturn, ReturnRefused, ConfirmReversal,
     MarkReversalFailed, ReverserDies, IInv, TypeOK
<1>4. \A p \in Asks : returns[p].count \in Nat /\ reversal[p].provider \in Nat
  BY Typed DEF IInv
<1> DEFINE Grow == \A p \in Asks : /\ returns'[p].count \in Nat
                                    /\ returns'[p].count >= returns[p].count
           Keys == \A p \in Asks : returns'[p].keyed => returns'[p].count > 0
           Own == /\ reverser'[v].step # "idle" => reverser'[v].ask = q
                  /\ reverser'[v].step = "confirming" =>
                       reverser'[v].provider \in 1..returns'[q].count
           Rows == \A p \in Asks :
                     /\ reversal'[p].status = "reversal_confirmed" => reversal'[p].provider # 0
                     /\ reversal'[p].provider \in 0..returns'[p].count
<1>5. Grow /\ Keys /\ Own /\ Rows
  <2> USE <1>2, <1>3, <1>4 DEF IInv, Carried, KeyedExists, EvidenceIsReal
  <2>1. CASE ListReturns(v)
    BY <2>1 DEF ListReturns, FoundReturn, ReverserStates
  <2>2. CASE CreateReturn(v)
    <3>1. Grow /\ Keys /\ returns'[q].count > 0
      <4>1. CASE returns[q].keyed
        BY <2>2, <4>1 DEF CreateReturn
      <4>2. CASE ~returns[q].keyed
        <5> DEFINE made == [count |-> returns[q].count + 1, keyed |-> TRUE, recent |-> TRUE]
        <5>1. returns' = [returns EXCEPT ![q] = made]
          BY <2>2, <4>2 DEF CreateReturn
        <5>2. returns'[q] = made /\ \A p \in Asks \ {q} : returns'[p] = returns[p]
          BY <5>1 DEF TypeOK
        <5> QED
          BY <5>2
      <4> QED
        BY <4>1, <4>2
    <3>2. PICK answer \in {"confirming", "failing"} :
            reverser' = [reverser EXCEPT ![v] = [step |-> answer, ask |-> q, provider |->
              IF answer = "confirming" THEN returns'[q].count ELSE 0]]
      BY <2>2 DEF CreateReturn
    <3>3. Own
      <4>1. reverser'[v] = [step |-> answer, ask |-> q, provider |->
              IF answer = "confirming" THEN returns'[q].count ELSE 0]
        BY <3>2
      <4>2. returns'[q].count \in Nat /\ returns'[q].count > 0
        BY <3>1, <1>2
      <4> HIDE DEF q
      <4> QED
        BY <4>1, <4>2
    <3>4. Rows
      <4>1. UNCHANGED reversal
        BY <2>2 DEF CreateReturn
      <4>2. \A p \in Asks : reversal[p].provider \in 0..returns[p].count
        BY DEF EvidenceIsReal
      <4>3. \A p \in Asks : reversal[p].provider \in 0..returns'[p].count
        BY <3>1, <4>2
      <4> QED
        BY <4>1, <4>3
    <3> QED
      BY <3>1, <3>3, <3>4
  <2>3. CASE ReturnRefused(v)
    BY <2>3 DEF ReturnRefused, ReverserStates
  <2>4. CASE ConfirmReversal(v)
    <3>1. reversal'[q] = [status |-> "reversal_confirmed", provider |-> reverser[v].provider]
          /\ \A p \in Asks \ {q} : reversal'[p] = reversal[p]
      BY <2>4 DEF ConfirmReversal, TypeOK
    <3> QED
      BY <2>4, <3>1 DEF ConfirmReversal, NoExecution
  <2>5. CASE MarkReversalFailed(v)
    <3>1. /\ reversal'[q].status = "reversal_failed"
          /\ reversal'[q].provider = reversal[q].provider
          /\ \A p \in Asks \ {q} : reversal'[p] = reversal[p]
      BY <2>5 DEF MarkReversalFailed, TypeOK, Reversals
    <3> QED
      BY <2>5, <3>1 DEF MarkReversalFailed, NoExecution
  <2>6. CASE ReverserDies(v)
    BY <2>6 DEF ReverserDies, NoExecution
  <2> QED
    BY <2>1, <2>2, <2>3, <2>4, <2>5, <2>6 DEF ReverseStep
<1>6. AfterDue' /\ NothingBeforeRelease'
  BY <1>1 DEF IInv, AfterDue, NothingBeforeRelease, releaseVars
<1>7. Carried' /\ KeyedExists'
  <2>1. \A w \in Releasers : releaser'[w].step = "saving" =>
          releaser'[w].transfer \in 1..transfers'.count
    BY <1>1 DEF IInv, Carried, releaseVars
  <2>2. ASSUME NEW u \in Reversers, reverser'[u].step # "idle"
        PROVE  /\ reverser'[u].ask \in Asks /\ transfers'.count > 0
               /\ reverser'[u].step = "confirming" =>
                    reverser'[u].provider \in 1..returns'[reverser'[u].ask].count
    <3>1. UNCHANGED transfers /\ Grow
      BY <1>1, <1>5 DEF releaseVars
    <3>2. CASE u = v
      BY <1>2, <1>5, <2>2, <3>1, <3>2
    <3>3. CASE u # v
      <4>1. /\ reverser'[u] = reverser[u] /\ reverser[u].ask \in Asks
            /\ reverser[u].step = "confirming" =>
                 reverser[u].provider \in 1..returns[reverser[u].ask].count
        BY <1>3, <2>2, <3>3 DEF IInv, Carried
      <4>2. returns'[reverser[u].ask].count >= returns[reverser[u].ask].count
            /\ returns'[reverser[u].ask].count \in Nat
        BY <3>1, <4>1
      <4>3. returns[reverser[u].ask].count \in Nat
        BY <1>4, <4>1
      <4> QED
        BY <1>2, <3>1, <4>1, <4>2, <4>3
    <3> QED
      BY <3>2, <3>3
  <2>3. KeyedExists'
    <3>1. UNCHANGED transfers /\ \A p \in Asks : returns'[p].keyed => returns'[p].count > 0
      BY <1>1, <1>5 DEF releaseVars
    <3> QED
      BY <3>1 DEF IInv, KeyedExists
  <2> QED
    BY <2>1, <2>2, <2>3 DEF Carried
<1>8. EvidenceIsReal'
  BY <1>1, <1>2, <1>4, <1>5 DEF IInv, EvidenceIsReal, releaseVars
<1> QED
  BY <1>6, <1>7, <1>8 DEF Says

LEMMA StepIInv == IInv /\ [Next]_vars => IInv'
<1> SUFFICES ASSUME IInv, [Next]_vars PROVE IInv'
  OBVIOUS
<1>1. CASE Elsewhere
  BY <1>1, ElsewhereTyped, ElsewhereSays DEF IInv, Says
<1>2. ASSUME NEW w \in Releasers, ReleaseStep(w) PROVE IInv'
  BY <1>2, ReleaseTyped, ReleaseSays DEF IInv, Says
<1>3. ASSUME NEW q \in Asks, AskStep(q) PROVE IInv'
  BY <1>3, AskTyped, AskSays DEF IInv, Says
<1>4. ASSUME NEW v \in Reversers, ReverseStep(v) PROVE IInv'
  BY <1>4, ReverseTyped, ReverseSays DEF IInv, Says
<1>5. CASE UNCHANGED vars
  BY <1>5 DEF vars, IInv, TypeOK, AfterDue, Carried, KeyedExists, EvidenceIsReal,
     NothingBeforeRelease
<1> QED
  BY <1>1, <1>2, <1>3, <1>4, <1>5, Steps

-----------------------------------------------------------------------------
(* Theorems of Spec. *)

\* Every row, and what every run carries, has its type.
THEOREM TypeCorrect == Spec => []TypeOK
<1>1. IInv => TypeOK
  BY DEF IInv
<1> QED
  BY <1>1, InitIInv, StepIInv, PTL DEF Spec

\* A row that says a transfer was created or a reversal confirmed names an object
\* that exists at Stripe, and a reversal only follows a transfer.
THEOREM RowsAreHonest == Spec => []EvidenceIsReal
<1>1. IInv => EvidenceIsReal
  BY DEF IInv
<1> QED
  BY <1>1, InitIInv, StepIInv, PTL DEF Spec

\* No transfer is made before scheduled_release_at.
THEOREM ReleasedOnlyWhenDue == Spec => []NothingBeforeRelease
<1>1. IInv => NothingBeforeRelease
  BY DEF IInv
<1> QED
  BY <1>1, InitIInv, StepIInv, PTL DEF Spec

-----------------------------------------------------------------------------
(* One claim. *)

\* An owned entitlement is past being claimed.
Owned == entitlement.owner # NoReleaser => entitlement.status \notin {"none", "entitled"}

\* What a step may do to the row.
LEMMA EntitlementSteps ==
  ASSUME TypeOK, [Next]_vars
  PROVE  \/ UNCHANGED entitlement
         \/ /\ entitlement.status = "none"
            /\ entitlement'.owner = entitlement.owner
         \/ /\ entitlement.status = "entitled"
            /\ entitlement'.status = "transfer_claimed"
         \/ /\ entitlement'.owner = entitlement.owner
            /\ entitlement'.status \in {"transfer_created", "transfer_failed"}
<1>1. CASE Elsewhere
  BY <1>1, Typed DEF Elsewhere, ReleaseTimePasses, CancelBooking, TransferKeyExpires,
     CreateEntitlement, OtherTransfers, OtherReturns, releaseVars
<1>2. ASSUME NEW w \in Releasers, ReleaseStep(w)
      PROVE  \/ UNCHANGED entitlement
             \/ /\ entitlement.status = "entitled"
                /\ entitlement'.status = "transfer_claimed"
             \/ /\ entitlement'.owner = entitlement.owner
                /\ entitlement'.status \in {"transfer_created", "transfer_failed"}
  <2>1. CASE ClaimEntitlement(w)
    BY <2>1, Typed DEF ClaimEntitlement, Claimable
  <2>2. CASE SaveTransfer(w)
    BY <2>2, Typed DEF SaveTransfer, AfterTransferError
  <2>3. CASE ~ClaimEntitlement(w) /\ ~SaveTransfer(w)
    BY <1>2, <2>3 DEF ReleaseStep, FindReleaseDue, BeginRelease, ListTransfers,
       CreateTransfer, TransferRefused, ReleaserDies
  <2> QED
    BY <2>1, <2>2, <2>3
<1>3. ASSUME NEW q \in Asks, AskStep(q) PROVE UNCHANGED entitlement
  BY <1>3 DEF AskStep, RequestReversal, ReturnKeyExpires, BeginReversal, releaseVars
<1>4. ASSUME NEW v \in Reversers, ReverseStep(v) PROVE UNCHANGED entitlement
  BY <1>4 DEF ReverseStep, ListReturns, CreateReturn, ReturnRefused, ConfirmReversal,
     MarkReversalFailed, ReverserDies, releaseVars
<1>5. CASE UNCHANGED vars
  BY <1>5 DEF vars
<1> QED
  BY <1>1, <1>2, <1>3, <1>4, <1>5, Steps

\* However many runs found the entitlement due, one claims it, for good.
THEOREM OneClaim == Spec => ClaimedOnce
<1>1. Init => Owned
  BY DEF Init, Owned
<1>2. TypeOK /\ Owned /\ [Next]_vars => Owned'
  BY EntitlementSteps DEF Owned
<1>3. TypeOK /\ Owned /\ [Next]_vars =>
        [entitlement.owner # NoReleaser =>
           entitlement'.owner = entitlement.owner /\ entitlement'.status # "entitled"]_vars
  BY EntitlementSteps DEF Owned
<1> QED
  BY <1>1, <1>2, <1>3, TypeCorrect, PTL DEF Spec, ClaimedOnce

-----------------------------------------------------------------------------
(* SpecQuiet implements Settlement. *)

\* While the transfer is listed, a run that found none is right or Stripe still knows
\* its key, and so is an execution that found no reversal.
Single ==
  /\ transfers.count \in 0..1
  /\ transfers.count > 0 => transfers.recent
  /\ \A w \in Releasers :
       releaser[w].step = "creating" => transfers.count = 0 \/ transfers.keyed
  /\ \A q \in Asks : returns[q].count \in 0..1 /\ (returns[q].count > 0 => returns[q].recent)
  /\ \A v \in Reversers : reverser[v].step = "creating" =>
       \/ returns[reverser[v].ask].count = 0
       \/ returns[reverser[v].ask].keyed

Made1 == <<transfers.count, [q \in Asks |-> returns[q].count]>>

LEMMA InitSingle == Init => Single /\ Abstract!Init
<1> SUFFICES ASSUME Init PROVE Single /\ Abstract!Init
  OBVIOUS
<1>1. \A q \in Asks : returns[q].count = 0
  BY DEF Init
<1>2. Single
  BY <1>1 DEF Init, Single, NoRelease, NoExecution
<1>3. [q \in Asks |-> returns[q].count] = [q \in Asks |-> 0]
  BY <1>1
<1> QED
  BY <1>2, <1>3 DEF Init, Abstract!Init

LEMMA ReleaseSingle ==
  ASSUME IInv, Single, NEW w \in Releasers, ReleaseStep(w)
  PROVE  Single' /\ [Abstract!Next]_Made1
<1>1. UNCHANGED <<reversal, returns, reverser>>
  BY DEF ReleaseStep, FindReleaseDue, ClaimEntitlement, BeginRelease, ListTransfers,
     CreateTransfer, TransferRefused, SaveTransfer, ReleaserDies, reversalVars
<1>2. /\ releaser \in [Releasers -> ReleaserStates]
      /\ \A u \in Releasers \ {w} : releaser'[u] = releaser[u]
  BY DEF ReleaseStep, FindReleaseDue, ClaimEntitlement, BeginRelease, ListTransfers,
     CreateTransfer, TransferRefused, SaveTransfer, ReleaserDies, IInv, TypeOK
<1>3. CASE CreateTransfer(w) /\ ~transfers.keyed
  <2>1. transfers.count = 0
    BY <1>3 DEF CreateTransfer, Single
  <2>2. transfers' = [count |-> 1, keyed |-> TRUE, recent |-> TRUE]
    BY <1>3, <2>1 DEF CreateTransfer
  <2>3. Single'
    BY <1>1, <2>2 DEF Single
  <2>4. Abstract!Next
    BY <1>1, <2>1, <2>2 DEF Abstract!Next, Abstract!Move
  <2> QED
    BY <2>3, <2>4
<1>4. CASE ~(CreateTransfer(w) /\ ~transfers.keyed)
  <2>1. UNCHANGED transfers
    BY <1>4 DEF ReleaseStep, FindReleaseDue, ClaimEntitlement, BeginRelease, ListTransfers,
       CreateTransfer, TransferRefused, SaveTransfer, ReleaserDies
  <2>2. releaser'[w].step = "creating" => transfers.count = 0
    <3>1. CASE ListTransfers(w)
      BY <1>2, <3>1 DEF ListTransfers, Single
    <3>2. CASE ~ListTransfers(w)
      BY <1>2, <3>2 DEF ReleaseStep, FindReleaseDue, ClaimEntitlement, BeginRelease,
         CreateTransfer, TransferRefused, SaveTransfer, ReleaserDies, NoRelease,
         ReleaserStates
    <3> QED
      BY <3>1, <3>2
  <2>3. Single'
    BY <1>1, <1>2, <2>1, <2>2 DEF Single
  <2> QED
    BY <1>1, <2>1, <2>3 DEF Made1
<1> QED
  BY <1>3, <1>4

LEMMA ReverseSingle ==
  ASSUME IInv, Single, NEW v \in Reversers, ReverseStep(v)
  PROVE  Single' /\ [Abstract!Next]_Made1
<1> DEFINE q == reverser[v].ask
<1>1. UNCHANGED <<transfers, releaser>>
  BY DEF ReverseStep, ListReturns, CreateReturn, ReturnRefused, ConfirmReversal,
     MarkReversalFailed, ReverserDies, releaseVars
<1>2. q \in Asks /\ transfers.count = 1
  BY DEF ReverseStep, ListReturns, CreateReturn, ReturnRefused, ConfirmReversal,
     MarkReversalFailed, ReverserDies, IInv, Carried, Single
<1>3. /\ reverser \in [Reversers -> ReverserStates] /\ returns \in [Asks -> Returns]
      /\ \A u \in Reversers \ {v} : reverser'[u] = reverser[u]
  BY DEF ReverseStep, ListReturns, CreateReturn, ReturnRefused, ConfirmReversal,
     MarkReversalFailed, ReverserDies, IInv, TypeOK
<1>4. CASE CreateReturn(v) /\ ~returns[q].keyed
  <2> DEFINE made == [count |-> 1, keyed |-> TRUE, recent |-> TRUE]
  <2>1. returns[q].count = 0
    BY <1>2, <1>4 DEF CreateReturn, Single
  <2>2. returns' = [returns EXCEPT ![q] = made]
    BY <1>4, <2>1 DEF CreateReturn
  <2>3. returns'[q] = made /\ \A p \in Asks \ {q} : returns'[p] = returns[p]
    BY <1>2, <1>3, <2>2
  <2>4. reverser'[v].step # "creating"
    BY <1>3, <1>4 DEF CreateReturn
  <2>5. ASSUME NEW u \in Reversers, reverser'[u].step = "creating"
        PROVE  \/ returns'[reverser'[u].ask].count = 0
               \/ returns'[reverser'[u].ask].keyed
    <3>1. reverser'[u] = reverser[u] /\ reverser[u].ask \in Asks
      BY <1>3, <2>4, <2>5 DEF IInv, Carried
    <3> QED
      BY <2>3, <2>5, <3>1 DEF Single
  <2>6. \A p \in Asks :
          returns'[p].count \in 0..1 /\ (returns'[p].count > 0 => returns'[p].recent)
    BY <2>3 DEF Single
  <2>7. Single'
    BY <1>1, <2>5, <2>6 DEF Single
  <2>8. Abstract!Next
    <3>1. PICK p \in Asks : p = q
      BY <1>2
    <3> DEFINE now == [a \in Asks |-> returns[a].count]
               next == [a \in Asks |-> returns'[a].count]
    <3>2. now[p] = 0
      BY <2>1, <3>1
    <3>3. next = [now EXCEPT ![p] = 1]
      <4>1. returns'[p].count = 1
        BY <2>3, <3>1
      <4>2. \A a \in Asks : next[a] = IF a = p THEN 1 ELSE now[a]
        BY <2>3, <3>1, <4>1
      <4>3. next = [a \in Asks |-> IF a = p THEN 1 ELSE now[a]]
        BY <4>2
      <4> QED
        BY <4>3
    <3>4. Abstract!Return(p)
      BY <1>1, <1>2, <3>2, <3>3 DEF Abstract!Return
    <3> QED
      BY <3>4 DEF Abstract!Next
  <2> QED
    BY <2>7, <2>8
<1>5. CASE ~(CreateReturn(v) /\ ~returns[q].keyed)
  <2>1. UNCHANGED returns
    BY <1>5 DEF ReverseStep, ListReturns, CreateReturn, ReturnRefused, ConfirmReversal,
       MarkReversalFailed, ReverserDies
  <2>2. reverser'[v].step = "creating" =>
          reverser'[v].ask = q /\ returns[q].count = 0
    <3>1. CASE ListReturns(v)
      BY <1>2, <1>3, <3>1 DEF ListReturns, FoundReturn, Single, ReverserStates
    <3>2. CASE ~ListReturns(v)
      BY <1>3, <3>2 DEF ReverseStep, CreateReturn, ReturnRefused, ConfirmReversal,
         MarkReversalFailed, ReverserDies, NoExecution, ReverserStates
    <3> QED
      BY <3>1, <3>2
  <2>3. Single'
    BY <1>1, <1>3, <2>1, <2>2 DEF Single
  <2> QED
    BY <1>1, <2>1, <2>3 DEF Made1
<1> QED
  BY <1>4, <1>5

\* A forgotten key does no harm: nobody relies on it, and what was made is listed.
LEMMA OthersSingle ==
  ASSUME IInv, Single,
         \/ ReleaseTimePasses \/ CancelBooking \/ TransferKeyExpires \/ CreateEntitlement
         \/ \E q \in Asks : AskStep(q)
         \/ UNCHANGED vars
  PROVE  Single' /\ UNCHANGED Made1
<1>1. CASE ReleaseTimePasses \/ CancelBooking \/ CreateEntitlement \/ UNCHANGED vars
  BY <1>1 DEF ReleaseTimePasses, CancelBooking, CreateEntitlement, Single, Made1,
     reversalVars, vars
<1>2. CASE TransferKeyExpires
  <2>1. transfers'.count = transfers.count /\ transfers'.recent = transfers.recent
    BY <1>2, Typed DEF TransferKeyExpires, IInv
  <2>2. /\ UNCHANGED <<releaser, reversalVars>>
        /\ \A w \in Releasers : releaser[w].step # "creating"
    BY <1>2 DEF TransferKeyExpires
  <2> QED
    BY <2>1, <2>2 DEF Single, Made1, reversalVars
<1>3. ASSUME NEW q \in Asks, RequestReversal(q) PROVE Single' /\ UNCHANGED Made1
  BY <1>3 DEF RequestReversal, releaseVars, Single, Made1
<1>4. ASSUME NEW q \in Asks, ReturnKeyExpires(q) PROVE Single' /\ UNCHANGED Made1
  <2>1. /\ \A p \in Asks : /\ returns'[p].count = returns[p].count
                           /\ returns'[p].recent = returns[p].recent
        /\ \A p \in Asks \ {q} : returns'[p] = returns[p]
    BY <1>4 DEF ReturnKeyExpires, IInv, TypeOK, Returns
  <2>2. UNCHANGED <<transfers, releaser, reverser>>
        /\ \A v \in Reversers : reverser[v].ask # q
    BY <1>4 DEF ReturnKeyExpires, releaseVars
  <2>3. ASSUME NEW v \in Reversers, reverser[v].step = "creating"
        PROVE  \/ returns'[reverser[v].ask].count = 0
               \/ returns'[reverser[v].ask].keyed
    BY <2>1, <2>2, <2>3 DEF Single, IInv, Carried
  <2> QED
    BY <2>1, <2>2, <2>3 DEF Single, Made1
<1>5. ASSUME NEW q \in Asks, NEW v \in Reversers, BeginReversal(v, q)
      PROVE  Single' /\ UNCHANGED Made1
  <2>1. UNCHANGED <<transfers, releaser, returns>>
    BY <1>5 DEF BeginReversal, releaseVars
  <2>2. \A u \in Reversers : reverser'[u].step = "creating" => reverser'[u] = reverser[u]
    BY <1>5 DEF BeginReversal, IInv, TypeOK, ReverserStates
  <2> QED
    BY <2>1, <2>2 DEF Single, Made1
<1> QED
  BY <1>1, <1>2, <1>3, <1>4, <1>5 DEF AskStep

\* The host is paid once and each reversal is made once, if the transfer stays listed.
THEOREM TransfersImplementSettlement == SpecQuiet => ImplementsSettlement
<1>1. Init => IInv /\ Single /\ Abstract!Init
  BY InitIInv, InitSingle
<1>2. IInv /\ Single /\ [QuietStep]_vars => IInv' /\ Single' /\ [Abstract!Next]_Made1
  <2> SUFFICES ASSUME IInv, Single, [QuietStep]_vars
               PROVE  IInv' /\ Single' /\ [Abstract!Next]_Made1
    OBVIOUS
  <2>1. IInv'
    BY StepIInv DEF Next
  <2>2. Single' /\ [Abstract!Next]_Made1
    <3>1. ASSUME NEW w \in Releasers, ReleaseStep(w) PROVE Single' /\ [Abstract!Next]_Made1
      BY <3>1, ReleaseSingle
    <3>2. ASSUME NEW v \in Reversers, ReverseStep(v) PROVE Single' /\ [Abstract!Next]_Made1
      BY <3>2, ReverseSingle
    <3>3. \/ ReleaseTimePasses \/ CancelBooking \/ TransferKeyExpires \/ CreateEntitlement
          \/ \E w \in Releasers : ReleaseStep(w)
          \/ \E q \in Asks : AskStep(q)
          \/ \E v \in Reversers : ReverseStep(v)
          \/ UNCHANGED vars
      BY DEF QuietStep, ReleaseStep, AskStep, ReverseStep
    <3> QED
      BY <3>1, <3>2, <3>3, OthersSingle
  <2> QED
    BY <2>1, <2>2
<1> QED
  BY <1>1, <1>2, PTL DEF SpecQuiet, ImplementsSettlement, Abstract!Spec, Made1, Abstract!vars
============================================================================
