------------------------------ MODULE Aftercare ------------------------------
(***************************************************************************)
(* After the stays at one property: the sweep completes them and asks for  *)
(* reviews, guests review, the host replies, and both write in the thread  *)
(* of each booking.                                                        *)
(*                                                                         *)
(* A review is a transaction of several statements that locks its own      *)
(* booking; what it can see is what was committed when each statement      *)
(* began, and its own row.  Its last statement takes the property's row,   *)
(* which is the only thing two reviews of different stays contend for.     *)
(***************************************************************************)
EXTENDS Naturals, FiniteSets

CONSTANTS
  Stays,     \* confirmed bookings of the property
  Sweeps,    \* runs of completeStaysAndRequestReviews
  Messages,  \* rows of messages
  Replies    \* the host's posts of a reply

VARIABLES
  completed,  \* bookings with status = 'completed'
  asking,     \* the guests each sweep has still to ask
  tx,         \* the transaction that reviews each stay
  reviews,    \* committed rows of reviews, all of them published
  rated,      \* the reviews properties.rating and review_count stand for
  last,       \* the stays whose review committed last
  replied,    \* rows of reviews with a host_reply, with the post it is of
  replying,   \* posts that found no reply
  threads,    \* bookings with a row of conversations
  message     \* rows of messages, and those under way

vars == <<completed, asking, tx, reviews, rated, last, replied, replying, threads, message>>

Senders == {"guest", "host", "system"}
NoTx == [step |-> "none", seen |-> {}]

Transactions == [step : {"none", "inserted", "aggregated"}, seen : SUBSET Stays]
Rows == [stay : SUBSET Stays, by : Senders, found : BOOLEAN,
         step : {"none", "begun", "sent", "read", "failed"}]

(* Every row and every request has its type. *)
TypeOK ==
  /\ completed \subseteq Stays
  /\ asking \in [Sweeps -> SUBSET Stays]
  /\ tx \in [Stays -> Transactions]
  /\ reviews \subseteq completed /\ rated \subseteq reviews /\ last \subseteq reviews
  /\ replied \in [reviews -> SUBSET Replies]
  /\ replying \in [Replies -> SUBSET Stays]
  /\ threads \subseteq Stays
  /\ message \in [Messages -> Rows]

Init ==
  /\ completed = {} /\ asking = [s \in Sweeps |-> {}]
  /\ tx = [b \in Stays |-> NoTx]
  /\ reviews = {} /\ rated = {} /\ last = {}
  /\ replied = [b \in {} |-> {}] /\ replying = [p \in Replies |-> {}]
  /\ threads = {}
  /\ message = [m \in Messages |->
       [stay |-> {}, by |-> "system", found |-> FALSE, step |-> "none"]]

reviewing == <<tx, reviews, rated, last, replied, replying>>
writing == <<threads, message>>

-----------------------------------------------------------------------------
(* The sweep.                                                              *)

Unfinished == Stays \ completed

\* UPDATE ... RETURNING: what one sweep completes no other one does.
CompleteStays(s) ==
  /\ asking[s] = {} /\ Unfinished # {}
  /\ completed' = Stays
  /\ asking' = [asking EXCEPT ![s] = Unfinished]
  /\ UNCHANGED <<reviewing, writing>>

(* sendMessage looks for the conversation first ... *)
Begin(m, b, by) ==
  /\ message[m].step = "none"
  /\ message' = [message EXCEPT ![m] =
                   [stay |-> {b}, by |-> by, found |-> b \in threads, step |-> "begun"]]
  /\ UNCHANGED threads

RequestReview(s, b, m) ==
  /\ b \in asking[s]
  /\ \A n \in Messages : message[n].by = "system" => message[n].step # "begun"
  /\ Begin(m, b, "system")
  /\ asking' = [asking EXCEPT ![s] = @ \ {b}]
  /\ UNCHANGED <<completed, reviewing>>

\* A message that fails, or the end of the process, ends the loop.
SweepDies(s) ==
  /\ asking[s] # {}
  /\ asking' = [asking EXCEPT ![s] = {}]
  /\ UNCHANGED <<completed, reviewing, writing>>

HandleSend(m, b, by) ==
  /\ by # "system"
  /\ Begin(m, b, by)
  /\ UNCHANGED <<completed, asking, reviewing>>

(* ... and makes it when there was none; the second to do so fails, as     *)
(* booking_id is unique, and with it the message.                          *)
FinishMessage(m) == \E b \in message[m].stay :
  LET made == message[m].found \/ b \notin threads IN
  /\ message[m].step = "begun"
  /\ message' = [message EXCEPT ![m].step = IF made THEN "sent" ELSE "failed"]
  /\ threads' = IF made THEN threads \cup {b} ELSE threads
  /\ asking' = IF ~made /\ message[m].by = "system" THEN [s \in Sweeps |-> {}] ELSE asking
  /\ UNCHANGED <<completed, reviewing>>

\* A page that opens marks all but its viewer's own, seen or not.
MarkConversationRead(b, viewer) ==
  /\ message' = [m \in Messages |->
       IF b \in message[m].stay /\ message[m].step = "sent" /\ message[m].by # viewer
       THEN [message[m] EXCEPT !.step = "read"] ELSE message[m]]
  /\ UNCHANGED <<completed, asking, reviewing, threads>>

-----------------------------------------------------------------------------
(* A review.                                                               *)

\* (AnyStay, a mutated form, does not ask whether the stay is completed.)
AnyStay == Stays \ reviews
Reviewable == completed \ reviews

\* The booking's row is locked to the end of the transaction.
InsertReview(b) ==
  /\ tx[b].step = "none" /\ b \in Reviewable
  /\ tx' = [tx EXCEPT ![b] = [step |-> "inserted", seen |-> {}]]
  /\ UNCHANGED <<completed, asking, reviews, rated, last, replied, replying, writing>>

\* (SeenBefore, a mutated form, aggregates before the row is inserted.)
SeenBefore(b) == reviews
Seen(b) == reviews \cup {b}

AggregateRatings(b) ==
  /\ tx[b].step = "inserted"
  /\ tx' = [tx EXCEPT ![b] = [step |-> "aggregated", seen |-> Seen(b)]]
  /\ UNCHANGED <<completed, asking, reviews, rated, last, replied, replying, writing>>

\* UPDATE properties and COMMIT: the next one waits for the row until then.
UpdateRating(b) ==
  /\ tx[b].step = "aggregated"
  /\ rated' = tx[b].seen
  /\ reviews' = reviews \cup {b} /\ last' = {b}
  /\ replied' = [r \in reviews' |-> IF r = b THEN {} ELSE replied[r]]
  /\ tx' = [tx EXCEPT ![b] = NoTx]
  /\ UNCHANGED <<completed, asking, replying, writing>>

FailReview(b) ==
  /\ tx[b].step # "none"
  /\ tx' = [tx EXCEPT ![b] = NoTx]
  /\ UNCHANGED <<completed, asking, reviews, rated, last, replied, replying, writing>>

-----------------------------------------------------------------------------
(* A reply: the row is read without a lock, and then written.              *)

ReadReply(p, b) ==
  /\ replying[p] = {} /\ b \in reviews /\ replied[b] = {}
  /\ replying' = [replying EXCEPT ![p] = {b}]
  /\ UNCHANGED <<completed, asking, tx, reviews, rated, last, replied, writing>>

WriteReply(p) == \E b \in replying[p] :
  /\ replied' = [replied EXCEPT ![b] = {p}]
  /\ replying' = [replying EXCEPT ![p] = {}]
  /\ UNCHANGED <<completed, asking, tx, reviews, rated, last, writing>>

-----------------------------------------------------------------------------
(* The sweep's job, the pages, and the routes behind them.                 *)

CompleteStaysAndRequestReviews(s) ==
  \/ CompleteStays(s) \/ SweepDies(s)
  \/ \E b \in Stays, m \in Messages : RequestReview(s, b, m)
MessageThread(m) ==
  FinishMessage(m) \/ \E b \in Stays, by \in Senders : HandleSend(m, b, by)
ReadRoute(b) == \E viewer \in {"guest", "host"} : MarkConversationRead(b, viewer)
CreateReview(b) ==
  InsertReview(b) \/ AggregateRatings(b) \/ UpdateRating(b) \/ FailReview(b)
ReplyForm(p) == WriteReply(p) \/ \E b \in Stays : ReadReply(p, b)

Next ==
  \/ \E s \in Sweeps : CompleteStaysAndRequestReviews(s)
  \/ \E m \in Messages : MessageThread(m)
  \/ \E b \in Stays : ReadRoute(b) \/ CreateReview(b)
  \/ \E p \in Replies : ReplyForm(p)

Spec == Init /\ [][Next]_vars

-----------------------------------------------------------------------------
(* The rating counts the review that was committed last, whatever it       *)
(* misses of the others (createReview.ts:91).                              *)
LastReviewCounts == last \subseteq rated

-----------------------------------------------------------------------------
(* What the steps keep, and rely on.                                       *)

\* A review in progress is of a completed stay; once it has aggregated, it has seen
\* itself and otherwise committed reviews alone.
ReviewsSee ==
  \A b \in Stays :
    /\ tx[b].step # "none" => b \in completed
    /\ tx[b].seen \subseteq reviews \cup {b}
    /\ tx[b].step = "aggregated" => b \in tx[b].seen

Inv == TypeOK /\ ReviewsSee /\ LastReviewCounts
=============================================================================
