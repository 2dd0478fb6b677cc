------------------------------ MODULE Deletion ------------------------------
(***************************************************************************)
(* The deletion of a guest's account: asked for with the password,         *)
(* cancellable for thirty days, executed by the sweep.                     *)
(*                                                                         *)
(* The route reads the blocker before it inserts the request, and the      *)
(* sweep lists what is due before it takes the requests one by one; two    *)
(* sweeps may overlap.  A sweep reads the blocker under the request's row  *)
(* lock and then deletes in statements of their own, so that a stay may    *)
(* begin in between, but nobody else changes the request.  A booking is    *)
(* made by a request that read the session earlier (createBooking; see     *)
(* Availability).                                                          *)
(***************************************************************************)
EXTENDS Naturals, FiniteSets

CONSTANTS
  Asks,     \* POSTs to the privacy route, and the rows they insert
  Sweeps    \* runs of executeDuePrivacyDeletions

VARIABLES
  active,   \* users.status = 'active'
  row,      \* rows of privacy_requests
  due,      \* those with execute_after <= NOW()
  asked,    \* POSTs that found no blocker and have not inserted
  listed,   \* what each sweep has still to visit
  held,     \* the request it has locked, and found no blocker for
  booking   \* the stay or unresolved payment that blocks a deletion

vars == <<active, row, due, asked, listed, held, booking>>

(* Every row and every request has its type. *)
TypeOK ==
  /\ active \in BOOLEAN
  /\ row \in [Asks -> {"none", "pending", "cancelled", "blocked", "completed"}]
  /\ due \subseteq Asks /\ asked \subseteq Asks
  /\ listed \in [Sweeps -> SUBSET Asks] /\ held \in [Sweeps -> SUBSET Asks]
  /\ booking \in {"none", "starting", "open"}

Init ==
  /\ active = TRUE
  /\ row = [a \in Asks |-> "none"]
  /\ due = {} /\ asked = {}
  /\ listed = [s \in Sweeps |-> {}] /\ held = [s \in Sweeps |-> {}]
  /\ booking = "none"

DeletionBlocker == booking = "open"
Pending == {a \in Asks : row[a] = "pending"}
Becomes(a, status) == row' = [row EXCEPT ![a] = status]

AskDeletion(a) ==
  /\ active /\ row[a] = "none" /\ a \notin asked
  /\ ~DeletionBlocker
  /\ asked' = asked \cup {a}
  /\ UNCHANGED <<active, row, due, listed, held, booking>>

\* privacy_requests_one_pending_deletion_idx
InsertRequest(a) ==
  /\ a \in asked
  /\ asked' = asked \ {a}
  /\ IF Pending = {} THEN Becomes(a, "pending") ELSE UNCHANGED row
  /\ UNCHANGED <<active, due, listed, held, booking>>

\* A row that a sweep has locked is waited for.
Locked(a) == \E s \in Sweeps : a \in held[s]

CancelDeletion(a) ==
  /\ active /\ a \in Pending /\ ~Locked(a)
  /\ Becomes(a, "cancelled")
  /\ UNCHANGED <<active, due, asked, listed, held, booking>>

ThirtyDaysPass(a) ==
  /\ row[a] # "none"
  /\ due' = due \cup {a}
  /\ UNCHANGED <<active, row, asked, listed, held, booking>>

-----------------------------------------------------------------------------

ListDue(s) ==
  /\ listed[s] = {} /\ held[s] = {}
  /\ listed' = [listed EXCEPT ![s] = Pending \cap due]
  /\ UNCHANGED <<active, row, due, asked, held, booking>>

\* (StillListed, a mutated form, trusts the list.)
StillListed(a) == row[a] # "completed"
StillPending(a) == row[a] = "pending"

TakeDue(s, a) ==
  /\ a \in listed[s] /\ held[s] = {} /\ ~Locked(a)
  /\ listed' = [listed EXCEPT ![s] = @ \ {a}]
  /\ \/ ~StillPending(a) /\ UNCHANGED <<row, held>>
     \/ StillPending(a) /\ DeletionBlocker /\ Becomes(a, "blocked") /\ UNCHANGED held
     \/ /\ StillPending(a) /\ ~DeletionBlocker
        /\ held' = [held EXCEPT ![s] = {a}] /\ UNCHANGED row
  /\ UNCHANGED <<active, due, asked, booking>>

ExecuteDue(s, a) ==
  /\ a \in held[s]
  /\ Becomes(a, "completed") /\ active' = FALSE
  /\ held' = [held EXCEPT ![s] = {}]
  /\ UNCHANGED <<due, asked, listed, booking>>

\* One failing request, or the end of the process, ends the sweep and undoes the request
\* it had taken.
SweepDies(s) ==
  /\ listed[s] # {} \/ held[s] # {}
  /\ listed' = [listed EXCEPT ![s] = {}] /\ held' = [held EXCEPT ![s] = {}]
  /\ UNCHANGED <<active, row, due, asked, booking>>

-----------------------------------------------------------------------------

StartBooking ==
  /\ active /\ booking = "none"
  /\ booking' = "starting"
  /\ UNCHANGED <<active, row, due, asked, listed, held>>

EndBooking ==
  /\ \/ booking = "starting" /\ booking' \in {"open", "none"}
     \/ booking = "open" /\ booking' = "none"
  /\ UNCHANGED <<active, row, due, asked, listed, held>>

-----------------------------------------------------------------------------
(* The account page, its route, and the sweep.                             *)

RequestDeletion(a) == AskDeletion(a) \/ InsertRequest(a)
PrivacyPanel(a) == RequestDeletion(a) \/ CancelDeletion(a)
ExecuteDuePrivacyDeletions(s) ==
  ListDue(s) \/ SweepDies(s) \/ \E a \in Asks : TakeDue(s, a) \/ ExecuteDue(s, a)

Next ==
  \/ \E a \in Asks : PrivacyPanel(a) \/ ThirtyDaysPass(a)
  \/ \E s \in Sweeps : ExecuteDuePrivacyDeletions(s)
  \/ StartBooking \/ EndBooking

Spec == Init /\ [][Next]_vars

-----------------------------------------------------------------------------
(* A deletion that was cancelled, or that a stay has blocked, is never     *)
(* executed, whatever a sweep listed before, and the guest cannot cancel   *)
(* what a sweep has in its hands; an account goes only when its own        *)
(* request is completed, its thirty days over (retention.ts:43).           *)
CancelledIsKept ==
  /\ \A a \in Asks : row[a] \in {"cancelled", "blocked", "completed"} => row'[a] = row[a]
  /\ active' # active => \E a \in due : row[a] = "pending" /\ row'[a] = "completed"

NoDeletionOfCancelled == [][CancelledIsKept]_vars

-----------------------------------------------------------------------------
(* What the steps keep, and rely on.                                       *)

\* A request that is about to be inserted has no row, and a sweep lists what is due.
Expected ==
  /\ \A a \in asked : row[a] = "none"
  /\ \A s \in Sweeps : listed[s] \subseteq due

\* What a sweep has taken is due, still pending, and no other sweep's.
TakenIsPending ==
  /\ \A s \in Sweeps : \A a \in held[s] : a \in due /\ row[a] = "pending"
  /\ \A s, t \in Sweeps : s # t => held[s] \cap held[t] = {}

Inv == TypeOK /\ Expected /\ TakenIsPending
=============================================================================
