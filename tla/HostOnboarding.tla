--------------------------- MODULE HostOnboarding ---------------------------
(***************************************************************************)
(* A user becomes a host: the agreement, the Stripe account that will be   *)
(* paid, and the readiness of that account as the profile records it.      *)
(*                                                                         *)
(* The route is a row of statements and calls to Stripe without a          *)
(* transaction; a visit is one request, at one of its steps, and may die   *)
(* at each.  The recorded status is a copy, written by the start, by the   *)
(* page that asks Stripe and by Stripe's events, each after a read.        *)
(***************************************************************************)
EXTENDS Naturals

CONSTANTS
  Accounts,   \* accounts Stripe may create
  NoAccount,  \* stripe_connect_account_id IS NULL
  Visits,     \* requests of the host's pages
  Events      \* deliveries of Stripe's events

(* What is assumed of the constants. *)
OnboardingAssumption == NoAccount \notin Accounts

VARIABLES
  profile,  \* the row of host_profiles
  stripe,   \* what each account is ready for, at Stripe
  visit,    \* the requests under way
  event     \* the deliveries under way

vars == <<profile, stripe, visit, event>>

Readiness == {"not_connected", "pending", "active"}
Steps == {"idle", "posted", "profiled", "agreed", "created", "linking", "linked",
          "asking", "refused", "failed"}
Idle == [step |-> "idle", account |-> NoAccount, status |-> "not_connected"]

Profiles == [exists : BOOLEAN, agreed : BOOLEAN,
             account : Accounts \cup {NoAccount}, status : Readiness]
VisitStates == [step : Steps, account : Accounts \cup {NoAccount}, status : Readiness]

(* Every row and every request has its type. *)
TypeOK ==
  /\ profile \in Profiles
  /\ stripe \in [Accounts -> Readiness \cup {"absent"}]
  /\ visit \in [Visits -> VisitStates]
  /\ event \in [Events -> [account : Accounts \cup {NoAccount}, status : Readiness]]

NoProfile == [exists |-> FALSE, agreed |-> FALSE, account |-> NoAccount, status |-> "not_connected"]

\* A host of before migration 028 has an account and no recorded agreement.
HostOfBefore(a) == [exists |-> TRUE, agreed |-> FALSE, account |-> a, status |-> "pending"]

Init ==
  /\ \/ profile = NoProfile /\ stripe = [a \in Accounts |-> "absent"]
     \/ \E a \in Accounts :
          /\ profile = HostOfBefore(a)
          /\ stripe = [b \in Accounts |-> IF b = a THEN "pending" ELSE "absent"]
  /\ visit = [v \in Visits |-> Idle]
  /\ event = [e \in Events |-> [account |-> NoAccount, status |-> "not_connected"]]

At(v, step) == visit[v].step = step
Step(v, step) == visit' = [visit EXCEPT ![v].step = step]

-----------------------------------------------------------------------------
(* The two pages that post to the route.                                   *)

\* hostOnboardingStartSchema: both acceptances must be true.
Valid(accepted) == accepted

Post(v, accepted) ==
  /\ At(v, "idle")
  /\ Step(v, IF Valid(accepted) THEN "posted" ELSE "refused")
  /\ UNCHANGED <<profile, stripe, event>>

\* The form posts both acceptances, or nothing.
HandleContinue(v) == Post(v, TRUE)

\* "Continue Stripe setup" posts the country alone.
HandleResume(v) == profile.exists /\ profile.status = "pending" /\ Post(v, FALSE)

-----------------------------------------------------------------------------
(* The route.                                                              *)

EnsureHostProfile(v) ==
  /\ At(v, "posted")
  /\ profile' = [profile EXCEPT !.exists = TRUE]
  /\ Step(v, "profiled")
  /\ UNCHANGED <<stripe, event>>

RecordHostAgreementAcceptance(v) ==
  /\ At(v, "profiled")
  /\ profile' = [profile EXCEPT !.agreed = TRUE]
  /\ Step(v, "agreed")
  /\ UNCHANGED <<stripe, event>>

StartsAfter == {"agreed"}

\* startHostConnectOnboarding reads the account; without one Stripe creates it.
CreateAccount(v, a) ==
  /\ visit[v].step \in StartsAfter
  /\ profile.account = NoAccount /\ stripe[a] = "absent"
  /\ stripe' = [stripe EXCEPT ![a] = "not_connected"]
  /\ visit' = [visit EXCEPT ![v] = [step |-> "created", account |-> a, status |-> "not_connected"]]
  /\ UNCHANGED <<profile, event>>

\* The account another request recorded meanwhile is overwritten.
RecordAccount(v) ==
  /\ At(v, "created")
  /\ profile' = [profile EXCEPT !.account = visit[v].account, !.status = "pending"]
  /\ Step(v, "linking")
  /\ UNCHANGED <<stripe, event>>

KeepAccount(v) ==
  /\ visit[v].step \in StartsAfter
  /\ profile.account # NoAccount
  /\ Step(v, "linking")
  /\ UNCHANGED <<profile, stripe, event>>

\* accountLinks.create answers with the page to go to.
CreateLink(v) ==
  /\ At(v, "linking")
  /\ Step(v, "linked")
  /\ UNCHANGED <<profile, stripe, event>>

\* Stripe, the database or the process fails: what was done stays.
Fail(v) ==
  /\ visit[v].step \in {"posted", "profiled", "agreed", "created", "linking", "asking"}
  /\ Step(v, "failed")
  /\ UNCHANGED <<profile, stripe, event>>

Return(v) ==
  /\ visit[v].step \in {"linked", "refused", "failed"}
  /\ visit' = [visit EXCEPT ![v] = Idle]
  /\ UNCHANGED <<profile, stripe, event>>

-----------------------------------------------------------------------------
(* Readiness.                                                              *)

\* computeReadinessStatus, and the holder's answers to Stripe behind it.
BecomeReady(a, ready) ==
  /\ stripe[a] # "absent"
  /\ stripe' = [stripe EXCEPT ![a] = ready]
  /\ UNCHANGED <<profile, visit, event>>

\* getHostOnboardingStatus retrieves the account it read; the same status is not written ...
AskStripe(v) ==
  /\ At(v, "idle") /\ profile.account # NoAccount
  /\ stripe[profile.account] # profile.status
  /\ visit' = [visit EXCEPT ![v] = [step |-> "asking", account |-> profile.account,
                                    status |-> stripe[profile.account]]]
  /\ UNCHANGED <<profile, stripe, event>>

\* ... and another one is, by the profile's id.
WriteStatus(v) ==
  /\ At(v, "asking")
  /\ profile' = [profile EXCEPT !.status = visit[v].status]
  /\ visit' = [visit EXCEPT ![v] = Idle]
  /\ UNCHANGED <<stripe, event>>

\* handleStripeV2ThinEvent retrieves the account the event names ...
ReadEvent(e, a) ==
  /\ event[e].account = NoAccount /\ stripe[a] # "absent"
  /\ event' = [event EXCEPT ![e] = [account |-> a, status |-> stripe[a]]]
  /\ UNCHANGED <<profile, stripe, visit>>

\* ... and writes by the account's id; a delivery that fails is repeated.
WriteEvent(e) ==
  /\ event[e].account # NoAccount
  /\ profile' = IF profile.account = event[e].account
                THEN [profile EXCEPT !.status = event[e].status] ELSE profile
  /\ event' = [event EXCEPT ![e].account = NoAccount]
  /\ UNCHANGED <<stripe, visit>>

-----------------------------------------------------------------------------
(* The route of the start, the page that asks, and the webhook.            *)

StartHostConnectOnboarding(v) ==
  \/ \E a \in Accounts : CreateAccount(v, a)
  \/ RecordAccount(v) \/ KeepAccount(v) \/ CreateLink(v)
ConnectAccountRoute(v) ==
  \/ EnsureHostProfile(v) \/ RecordHostAgreementAcceptance(v)
  \/ StartHostConnectOnboarding(v)
  \/ Fail(v) \/ Return(v)
GetHostOnboardingStatus(v) == AskStripe(v) \/ WriteStatus(v)
HandleStripeV2ThinEvent(e) == WriteEvent(e) \/ \E a \in Accounts : ReadEvent(e, a)

Next ==
  \/ \E v \in Visits :
       \/ HandleContinue(v) \/ HandleResume(v)
       \/ ConnectAccountRoute(v) \/ GetHostOnboardingStatus(v)
  \/ \E a \in Accounts, ready \in Readiness : BecomeReady(a, ready)
  \/ \E e \in Events : HandleStripeV2ThinEvent(e)

Spec == Init /\ [][Next]_vars

-----------------------------------------------------------------------------
(* The account that will be paid is recorded only for a host whose         *)
(* agreement is recorded, whichever of several requests, dead or alive,    *)
(* recorded it (connect-account/route.ts:46).                              *)
AccountFollowsAgreement == profile'.account # profile.account => profile.agreed

-----------------------------------------------------------------------------
(* What the steps keep, and rely on.                                       *)

\* A request that is past the agreement has it on record.
PastAgreement ==
  \A v \in Visits : visit[v].step \in {"agreed", "created"} => profile.agreed

\* An account the profile or a request knows exists at Stripe.
KnownAtStripe ==
  /\ profile.account # NoAccount => stripe[profile.account] # "absent"
  /\ \A v \in Visits :
       visit[v].step = "created" => visit[v].account \in Accounts
                                    /\ stripe[visit[v].account] # "absent"

Inv == TypeOK /\ KnownAtStripe /\ PastAgreement
=============================================================================
