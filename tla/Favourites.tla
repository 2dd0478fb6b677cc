----------------------------- MODULE Favourites -----------------------------
(***************************************************************************)
(* One guest's Save button on the page of a stay, the saved row behind it, *)
(* and the page of saved stays, open in another tab.  The button starts    *)
(* unknown, is disabled until the first answer and while a request is on   *)
(* its way; any answer may be lost after the server has acted.             *)
(***************************************************************************)
EXTENDS Naturals

CONSTANT Clicks  \* the requests the two pages make, at most

(* What is assumed of the constants. *)
FavouritesAssumption == Clicks \in Nat

VARIABLES
  saved,       \* the row of saved_properties exists
  shown,       \* the stay is published, approved and unexpired
  signedIn,
  control,     \* the button: its status, whether it is busy, whether it shows an error
  initial,     \* the first GET /api/favourites: not sent, sent, or its answer
  act,         \* the button's request: what it wants, and the answer
  told,        \* what the server last did or said for the button
  favourites,  \* the page of saved stays: its state, whether it shows the stay, removing
  clicks

favouritesVars == <<saved, shown, signedIn, control, initial, act, told, favourites, clicks>>

Answers == {"signedOut", "error", "saved", "unsaved"}
InitialFavouriteState == [status |-> "unknown", busy |-> FALSE, error |-> FALSE]
NoAct == [wants |-> FALSE, answer |-> "none"]

Controls == [status : {"unknown", "unsaved", "saved"}, busy : BOOLEAN, error : BOOLEAN]
Acts == [wants : BOOLEAN, answer : {"none", "sent", "success", "unauthorized", "error"}]
Pages == [state : {"closed", "unauthenticated", "loaded", "error"},
          has : BOOLEAN, removing : BOOLEAN]

TypeOK ==
  /\ saved \in BOOLEAN /\ shown \in BOOLEAN /\ signedIn \in BOOLEAN /\ told \in BOOLEAN
  /\ control \in Controls /\ initial \in Answers \cup {"none", "sent", "done"}
  /\ act \in Acts /\ favourites \in Pages /\ clicks \in 0..Clicks

Init ==
  /\ saved \in BOOLEAN /\ shown = TRUE /\ signedIn \in BOOLEAN
  /\ control = InitialFavouriteState /\ initial = "none" /\ act = NoAct
  /\ told = FALSE /\ clicks = 0
  /\ favourites = [state |-> "closed", has |-> FALSE, removing |-> FALSE]

-----------------------------------------------------------------------------
(* The server.                                                             *)

\* Only what is still shown is listed; without a session the answer is 401.
ListSavedProperties ==
  IF ~signedIn THEN "signedOut" ELSE IF saved /\ shown THEN "saved" ELSE "unsaved"

\* What a request of the button does to the row, and its answer.
Perform(wants) ==
  IF ~signedIn THEN [row |-> saved, answer |-> "unauthorized"]
  ELSE IF ~wants THEN [row |-> FALSE, answer |-> "success"]
  ELSE IF shown THEN [row |-> TRUE, answer |-> "success"]
  ELSE [row |-> saved, answer |-> "error"]

-----------------------------------------------------------------------------
(* The button of the stay's page.                                          *)

\* Once the property has loaded.
LoadFavourite ==
  /\ initial = "none" /\ initial' = "sent"
  /\ UNCHANGED <<saved, shown, signedIn, control, act, told, favourites, clicks>>

ReadFavourites ==
  /\ initial = "sent"
  /\ \/ initial' = ListSavedProperties /\ told' = (ListSavedProperties = "saved")
     \/ initial' = "error" /\ UNCHANGED told
  /\ UNCHANGED <<saved, shown, signedIn, control, act, favourites, clicks>>

\* A visitor who is signed out browses on; after an error the button stays disabled.
InterpretFavouritesLoad ==
  /\ initial \in Answers /\ initial' = "done"
  /\ control' = IF initial = "error" THEN control
                ELSE [status |-> IF initial = "saved" THEN "saved" ELSE "unsaved",
                      busy |-> FALSE, error |-> FALSE]
  /\ UNCHANGED <<saved, shown, signedIn, act, told, favourites, clicks>>

\* (EnabledAtOnce, a mutated form, enables the button before the first answer.)
EnabledAtOnce == ~control.busy
MayToggle == ~control.busy /\ control.status # "unknown"

BeginFavouriteAction ==
  /\ MayToggle /\ act = NoAct /\ clicks < Clicks
  /\ clicks' = clicks + 1
  /\ act' = [wants |-> control.status # "saved", answer |-> "sent"]
  /\ control' = [control EXCEPT !.busy = TRUE, !.error = FALSE]
  /\ UNCHANGED <<saved, shown, signedIn, initial, told, favourites>>

\* The request may fail before it is acted on, and its answer may be lost.
ServeFavourite ==
  /\ act.answer = "sent"
  /\ \/ /\ saved' = Perform(act.wants).row
        /\ told' = IF Perform(act.wants).answer = "success" THEN act.wants ELSE told
        /\ act' \in {[act EXCEPT !.answer = Perform(act.wants).answer],
                     [act EXCEPT !.answer = "error"]}
     \/ act' = [act EXCEPT !.answer = "error"] /\ UNCHANGED <<saved, told>>
  /\ UNCHANGED <<shown, signedIn, control, initial, favourites, clicks>>

\* The status changes on success alone.  Without a session the browser leaves
\* for the login page and comes back to a page that starts again.
CompleteFavouriteAction ==
  /\ act.answer \in {"success", "unauthorized", "error"} /\ act' = NoAct
  /\ CASE act.answer = "success" ->
            /\ control' = [status |-> IF act.wants THEN "saved" ELSE "unsaved",
                           busy |-> FALSE, error |-> FALSE]
            /\ UNCHANGED <<initial, signedIn>>
       [] act.answer = "error" ->
            /\ control' = [control EXCEPT !.busy = FALSE, !.error = TRUE]
            /\ UNCHANGED <<initial, signedIn>>
       [] OTHER ->
            control' = InitialFavouriteState /\ initial' = "none" /\ signedIn' \in BOOLEAN
  /\ UNCHANGED <<saved, shown, told, favourites, clicks>>

-----------------------------------------------------------------------------
(* The page of saved stays, and what happens elsewhere.                    *)

OpenFavourites ==
  /\ favourites.state = "closed"
  /\ \/ favourites' = [state |-> IF signedIn THEN "loaded" ELSE "unauthenticated",
                       has |-> ListSavedProperties = "saved", removing |-> FALSE]
     \/ favourites' = [favourites EXCEPT !.state = "error"]
  /\ UNCHANGED <<saved, shown, signedIn, control, initial, act, told, clicks>>

HandleRemove ==
  /\ favourites.has /\ ~favourites.removing /\ clicks < Clicks
  /\ favourites' = [favourites EXCEPT !.removing = TRUE]
  /\ clicks' = clicks + 1
  /\ UNCHANGED <<saved, shown, signedIn, control, initial, act, told>>

\* Any answer takes the card away, a refusal too; only a lost one leaves it.
RemoveAnswered ==
  /\ favourites.removing
  /\ saved' \in {saved, Perform(FALSE).row}
  /\ favourites' \in {[favourites EXCEPT !.removing = FALSE],
                      [favourites EXCEPT !.removing = FALSE, !.has = FALSE]}
  /\ UNCHANGED <<shown, signedIn, control, initial, act, told, clicks>>

SessionEnds ==
  /\ signedIn /\ signedIn' = FALSE
  /\ UNCHANGED <<saved, shown, control, initial, act, told, favourites, clicks>>

StayUnlisted ==
  /\ shown /\ shown' = FALSE
  /\ UNCHANGED <<saved, signedIn, control, initial, act, told, favourites, clicks>>

FavouritesPage == OpenFavourites \/ HandleRemove \/ RemoveAnswered

Next ==
  \/ LoadFavourite \/ ReadFavourites \/ InterpretFavouritesLoad
  \/ BeginFavouriteAction \/ ServeFavourite \/ CompleteFavouriteAction
  \/ FavouritesPage
  \/ SessionEnds \/ StayUnlisted

Spec == Init /\ [][Next]_favouritesVars

-----------------------------------------------------------------------------
(* At rest and without an error, the button says what the server last did  *)
(* or answered for it: no answer that is out of date replaces a later one, *)
(* and none that failed is taken for done (favouriteControl.ts).           *)
ControlIsTrue ==
  control.status # "unknown" /\ ~control.busy /\ ~control.error
    => ((control.status = "saved") <=> told)

-----------------------------------------------------------------------------
(* What the steps keep, and rely on.                                       *)

\* The button is as it started until the first answer is read, busy while it has a
\* request, and an answer that is read is what the server last did or said.
AnswersStand ==
  /\ initial # "done" => control = InitialFavouriteState /\ act = NoAct
  /\ initial \in {"signedOut", "saved", "unsaved"} => ((initial = "saved") <=> told)
  /\ act.answer # "none" => control.busy
  /\ act.answer = "success" => (act.wants <=> told)

Inv == TypeOK /\ AnswersStand /\ ControlIsTrue
=============================================================================
