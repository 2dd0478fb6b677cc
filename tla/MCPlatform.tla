----------------------------- MODULE MCPlatform -----------------------------
(***************************************************************************)
(* The parts of the platform that share no state with each other, checked  *)
(* in one run.  A behaviour picks its part at the start and stays in it.   *)
(* The variables of a part are the first of v1, v2, ..., in the order of   *)
(* its module's VARIABLES; the others keep the value Unused, and those of  *)
(* Listings, which this module extends, one of their initial states.  Two  *)
(* parts are instances of the modules that prove about them, whose lemmas  *)
(* PlatformProofs cites.                                                   *)
(***************************************************************************)
EXTENDS Listings, TLC

CONSTANTS
  Unused,  \* the value of a variable a part does not have
  Things,  \* the accounts, challenges, stays or feeds of a part
  Twins    \* its requests, sweeps, runners or handlers

(* The other constants of the parts, by the part. *)
CONSTANTS
  Passwords, NoPassword, Sessions, ResetLinks, FailedLoginLimit, VerifyFirst, MaxVersion,
  DeviceKeys,
  Asks,
  NoAccount, StripeEvents,
  Messages, Replies,
  LastFile, Objects, Home, Repeatable, Replacing, ManifestFiles,
  Clicks,
  StayNights, MaxKey, Fetches,
  FeedNights, MaxEvents, LongestKey,
  NoFeed, MaxFeeds,
  LastDay, Today, Horizon, MostGuests,
  NightlyPrices, CleaningFees, PricedNights, VatRates, NoRate, Slices, MoneyRefunds

VARIABLES part, v1, v2, v3, v4, v5, v6, v7, v8, v9, v10

SignIn == INSTANCE AccountsProofs WITH
  Requests <- Twins, Links <- ResetLinks,
  user <- v1, session <- v2, work <- v3, link <- v4, mailed <- v5, failures <- v6,
  locked <- v7
Passkeys == INSTANCE Passkeys WITH
  Keys <- DeviceKeys, Challenges <- Things, Requests <- Twins,
  active <- v1, password <- v2, passkeys <- v3, challenge <- v4, late <- v5, code <- v6,
  grant <- v7, proof <- v8, request <- v9, signIns <- v10
Deletion == INSTANCE Deletion WITH
  Sweeps <- Twins,
  active <- v1, row <- v2, due <- v3, asked <- v4, listed <- v5, held <- v6,
  booking <- v7
Onboarding == INSTANCE HostOnboarding WITH
  Accounts <- Things, Visits <- Twins, Events <- StripeEvents,
  profile <- v1, stripe <- v2, visit <- v3, event <- v4
Aftercare == INSTANCE Aftercare WITH
  Stays <- Things, Sweeps <- Twins,
  completed <- v1, asking <- v2, tx <- v3, reviews <- v4, rated <- v5, last <- v6,
  replied <- v7, replying <- v8, threads <- v9, message <- v10
Migrations == INSTANCE Migrations WITH
  Listed <- ManifestFiles, Runners <- Twins,
  object <- v1, ledger <- v2, runner <- v3
Saving == INSTANCE Favourites WITH
  saved <- v1, shown <- v2, signedIn <- v3, control <- v4, initial <- v5, act <- v6,
  told <- v7, favourites <- v8, clicks <- v9
Stay == INSTANCE StayPage WITH
  LastNight <- StayNights,
  listing <- v1, taken <- v2, stays <- v3, form <- v4, fetches <- v5, reserve <- v6,
  reached <- v7
Trip == INSTANCE TripPage WITH
  trip <- v1, refund <- v2, owed <- v3, refunded <- v4, view <- v5, quote <- v6, call <- v7,
  outcome <- v8, read <- v9, goodwill <- v10
Format == INSTANCE CalendarFormatProofs WITH
  LastNight <- FeedNights,
  exported <- v1, envelope <- v2, lines <- v3, pos <- v4, pending <- v5, found <- v6,
  parse <- v7
Feeds == INSTANCE FeedPanel WITH
  Feeds <- Things, Handlers <- Twins,
  rows <- v1, panel <- v2, handler <- v3, disturbed <- v4
Searching == INSTANCE Search WITH
  property <- v1, taken <- v2, search <- v3, visit <- v4, changed <- v5
Money == INSTANCE BookingMoney WITH
  Nights <- PricedNights, MaxRefunds <- MoneyRefunds,
  offer <- v1, version <- v2, price <- v3, issued <- v4, reversed <- v5, payout <- v6,
  standing <- v7

ASSUME PlatformAssumption ==
  /\ SignIn!AccountsAssumption /\ Passkeys!PasskeysAssumption
  /\ Onboarding!OnboardingAssumption /\ Migrations!MigrationsAssumption
  /\ Saving!FavouritesAssumption /\ Stay!StayPageAssumption
  /\ Format!FormatAssumption /\ Feeds!FeedPanelAssumption /\ Searching!SearchAssumption
  /\ Money!MoneyAssumption

(* The migrations of the run: three files, of which the first makes the    *)
(* table and a column of it, the second a constraint and an index.         *)
HomeInRun ==
  [o \in {"table", "column", "rule", "index", "trigger"} |->
     CASE o \in {"table", "column"} -> 1 [] o \in {"rule", "index"} -> 2 [] OTHER -> 3]

Parts == {"listings", "accounts", "passkeys", "deletion", "onboarding", "aftercare", "migrations",
          "favourites", "stay", "trip", "format", "feeds", "search", "money"}
platform == <<part, vars, v1, v2, v3, v4, v5, v6, v7, v8, v9, v10>>

(* No part tells one of them from another. *)
Interchangeable == Permutations(Things) \cup Permutations(Twins)

-----------------------------------------------------------------------------
(* The variables a part does not have.                                     *)

From10 == v10 = Unused
From9 == v9 = Unused /\ From10
From8 == v8 = Unused /\ From9
From7 == v7 = Unused /\ From8
From6 == v6 = Unused /\ From7
From5 == v5 = Unused /\ From6
From4 == v4 = Unused /\ From5
From1 == v1 = Unused /\ v2 = Unused /\ v3 = Unused /\ From4

NoListing == Init /\ amenities = {} /\ property = NewProperty(CHOOSE t \in Texts : TRUE, FALSE)

PlatformInit ==
  \/ part = "listings" /\ Init /\ From1
  \/ /\ NoListing
     /\ \/ part = "accounts" /\ SignIn!Init /\ From8
        \/ part = "passkeys" /\ Passkeys!Init
        \/ part = "deletion" /\ Deletion!Init /\ From8
        \/ part = "onboarding" /\ Onboarding!Init /\ From5
        \/ part = "aftercare" /\ Aftercare!Init
        \/ part = "migrations" /\ Migrations!Init /\ From4
        \/ part = "favourites" /\ Saving!Init /\ From10
        \/ part = "stay" /\ Stay!Init /\ From8
        \/ part = "trip" /\ Trip!Init
        \/ part = "format" /\ Format!Init /\ From8
        \/ part = "feeds" /\ Feeds!Init /\ From5
        \/ part = "search" /\ Searching!Init /\ From6
        \/ part = "money" /\ Money!Init /\ From8

PlatformNext ==
  /\ UNCHANGED part
  /\ \/ /\ part = "listings" /\ Next
        /\ UNCHANGED <<v1, v2, v3, v4, v5, v6, v7, v8, v9, v10>>
     \/ /\ UNCHANGED vars
        /\ \/ part = "accounts" /\ SignIn!Next /\ UNCHANGED <<v8, v9, v10>>
           \/ part = "passkeys" /\ Passkeys!Next
           \/ part = "deletion" /\ Deletion!Next /\ UNCHANGED <<v8, v9, v10>>
           \/ part = "onboarding" /\ Onboarding!Next /\ UNCHANGED <<v5, v6, v7, v8, v9, v10>>
           \/ part = "aftercare" /\ Aftercare!Next
           \/ part = "migrations" /\ Migrations!Next /\ UNCHANGED <<v4, v5, v6, v7, v8, v9, v10>>
           \/ part = "favourites" /\ Saving!Next /\ UNCHANGED <<v10>>
           \/ part = "stay" /\ Stay!Next /\ UNCHANGED <<v8, v9, v10>>
           \/ part = "trip" /\ Trip!Next
           \/ part = "format" /\ Format!Next /\ UNCHANGED <<v8, v9, v10>>
           \/ part = "feeds" /\ Feeds!Next /\ UNCHANGED <<v5, v6, v7, v8, v9, v10>>
           \/ part = "search" /\ Searching!Next /\ UNCHANGED <<v6, v7, v8, v9, v10>>
           \/ part = "money" /\ Money!Next /\ UNCHANGED <<v8, v9, v10>>

PlatformSpec == PlatformInit /\ [][PlatformNext]_platform

-----------------------------------------------------------------------------
(* The properties of the parts, each of its own module, for the            *)
(* behaviours that are in it.                                              *)

(* Every row, request and page has its type. *)
PartsTypeOK ==
  /\ TypeOK
  /\ part = "accounts" => SignIn!TypeOK
  /\ part = "passkeys" => Passkeys!TypeOK
  /\ part = "deletion" => Deletion!TypeOK
  /\ part = "onboarding" => Onboarding!TypeOK
  /\ part = "aftercare" => Aftercare!TypeOK
  /\ part = "migrations" => Migrations!TypeOK
  /\ part = "favourites" => Saving!TypeOK
  /\ part = "stay" => Stay!TypeOK
  /\ part = "trip" => Trip!TypeOK
  /\ part = "format" => Format!TypeOK
  /\ part = "feeds" => Feeds!TypeOK
  /\ part = "search" => Searching!TypeOK
  /\ part = "money" => Money!TypeOK

(* A session opened with a password is accepted only while it is the password. *)
SessionsAreCurrent == part = "accounts" => SignIn!SessionsAreCurrent

(* An answered challenge, or a recovery code, brings one sign-in. *)
OneSignInPerProof == part = "passkeys" => Passkeys!OneSignInPerProof

(* No account goes by a deletion that was cancelled or blocked. *)
NoDeletionOfCancelled == [][part = "deletion" => Deletion!CancelledIsKept]_platform

(* The rating of a property counts the review committed last. *)
LastReviewCounts == part = "aftercare" => Aftercare!LastReviewCounts

(* A recorded, listed migration is complete; those before it are recorded. *)
RecordedIsComplete == part = "migrations" => Migrations!RecordedIsComplete

(* The Save button says what the server last did or answered for it. *)
ControlIsTrue == part = "favourites" => Saving!ControlIsTrue

(* The checkout a guest is sent to is for the dates the guest asked for. *)
CheckoutIsForRequest == part = "stay" => Stay!CheckoutIsForRequest

(* What a booking's cancellations ask to refund fits what was paid. *)
RefundsFit == part = "trip" => Trip!RefundsFit

(* A feed is read as what it says, and HOST's own as the nights it was written for. *)
FeedIsUnderstood == part = "format" => Format!FeedIsUnderstood

(* After its own handlers, the panel lists the calendars as they are. *)
ListIsCurrent == part = "feeds" => Feeds!ListIsCurrent

(* A search shows what a booking would take, and nothing else. *)
SearchAgreesWithBooking == part = "search" => Searching!SearchAgreesWithBooking

(* The amounts of a booking add up, from its price to its last refund. *)
MoneyAddsUp == part = "money" => Money!MoneyAddsUp

=============================================================================
