------------------------------ MODULE FeedPanel ------------------------------
(***************************************************************************)
(* The panel in which a host connects the calendars of other platforms,    *)
(* and the routes behind it.  A handler makes one request, or two, and     *)
(* then loads the list again; several may be under way, since the panel    *)
(* remembers one busy calendar only.  Another tab changes the calendars    *)
(* too, requests fail and answers are lost.                                *)
(*                                                                         *)
(* What a change or a sync does to the nights is in Availability, and the  *)
(* export link in CalendarExchange.                                        *)
(***************************************************************************)
EXTENDS Naturals, FiniteSets

CONSTANTS
  Feeds,     \* identifiers of calendar feeds
  NoFeed,    \* no feed is busy
  MaxFeeds,  \* MAX_FEEDS_PER_PROPERTY
  Handlers   \* handlers of the panel that may be under way at once

(* What is assumed of the constants. *)
FeedPanelAssumption ==
  IsFiniteSet(Feeds) /\ NoFeed \notin Feeds /\ MaxFeeds \in Nat /\ IsFiniteSet(Handlers)

VARIABLES
  rows,      \* property_calendar_feeds of the property; an id is never used again
  panel,     \* what the panel shows, and its adding, busyId and loading
  handler,   \* each handler: what it does, for which feed, where it is, the list it read
  disturbed  \* the list has a reason not to be the rows

feedPanelVars == <<rows, panel, handler, disturbed>>

Listed == [Feeds -> {"absent", "active", "disabled"}]
Actions == {"sync", "enable", "disable", "remove"}
Nothing == [f \in Feeds |-> "absent"]
Idle == [do |-> "none", feed |-> NoFeed, step |-> "idle", list |-> Nothing]

Panels == [feeds : Listed, adding : BOOLEAN, busyId : Feeds \cup {NoFeed}, loading : BOOLEAN]
HandlerStates ==
  [do : {"none", "open", "add"} \cup Actions, feed : Feeds \cup {NoFeed},
   step : {"idle", "sent", "done", "error", "first", "load", "read", "failed"}, list : Listed]

TypeOK ==
  /\ rows \in [Feeds -> {"unused", "active", "disabled", "removed"}]
  /\ panel \in Panels
  /\ handler \in [Handlers -> HandlerStates]
  /\ disturbed \in BOOLEAN

Init ==
  /\ rows \in [Feeds -> {"unused", "active", "disabled"}]
  /\ Cardinality({f \in Feeds : rows[f] # "unused"}) <= MaxFeeds
  /\ panel = [feeds |-> Nothing, adding |-> FALSE, busyId |-> NoFeed, loading |-> TRUE]
  /\ handler = [h \in Handlers |-> Idle]
  /\ disturbed = TRUE

Connected == {f \in Feeds : rows[f] \in {"active", "disabled"}}
ListCalendarFeeds == [f \in Feeds |-> IF f \in Connected THEN rows[f] ELSE "absent"]
Alone(h) == \A g \in Handlers \ {h} : handler[g] = Idle

Begin(h, do, f, step) ==
  /\ handler[h] = Idle
  /\ handler' = [handler EXCEPT ![h] = [Idle EXCEPT !.do = do, !.feed = f, !.step = step]]
  /\ disturbed' = (disturbed \/ ~Alone(h))
  /\ UNCHANGED rows

-----------------------------------------------------------------------------
(* What the host clicks.                                                   *)

\* The effect that loads the list runs when the panel opens and when the
\* language changes.
Open(h) ==
  /\ Begin(h, "open", NoFeed, "load")
  /\ panel' = [panel EXCEPT !.loading = TRUE]

AddCalendar(h) ==
  /\ ~panel.adding
  /\ Begin(h, "add", NoFeed, "sent")
  /\ panel' = [panel EXCEPT !.adding = TRUE]

Offered(f) ==
  IF panel.feeds[f] = "active" THEN {"sync", "disable", "remove"}
  ELSE IF panel.feeds[f] = "disabled" THEN {"enable", "remove"} ELSE {}

\* The buttons of the feed that was clicked last are disabled, while the click
\* is worked on; the list is not there during a load.
Click(h, f, do) ==
  /\ ~panel.loading /\ panel.busyId # f /\ do \in Offered(f)
  /\ Begin(h, do, f, "sent")
  /\ panel' = [panel EXCEPT !.busyId = f]

SyncFeed(h, f) == Click(h, f, "sync")
SetActive(h, f) == Click(h, f, "enable") \/ Click(h, f, "disable")
RemoveFeed(h, f) == Click(h, f, "remove")

-----------------------------------------------------------------------------
(* The routes.                                                             *)

At(h, step) == handler[h].step = step
Step(h, step) == handler' = [handler EXCEPT ![h].step = step]

\* The answer to what was done arrives, or is lost.
Answer(h) ==
  \/ Step(h, "done") /\ UNCHANGED disturbed
  \/ Step(h, "error") /\ disturbed' = TRUE

CreateCalendarFeed(h, f) ==
  /\ At(h, "sent") /\ handler[h].do = "add"
  /\ rows[f] = "unused" /\ Cardinality(Connected) < MaxFeeds
  /\ rows' = [rows EXCEPT ![f] = "active"]
  /\ \/ handler' = [handler EXCEPT ![h].step = "done", ![h].feed = f] /\ UNCHANGED disturbed
     \/ Step(h, "error") /\ disturbed' = TRUE
  /\ UNCHANGED panel

\* The answer that lets a sync through, its events being in Availability.
SyncRoute(h) ==
  /\ At(h, "sent") /\ handler[h].do = "sync"
  /\ rows[handler[h].feed] = "active" /\ Step(h, "done")
  /\ UNCHANGED <<rows, panel, disturbed>>

\* The feed gets the state the button named, whatever state it was in.
SetCalendarFeedActive(h) ==
  /\ At(h, "sent") /\ handler[h].do \in {"enable", "disable"}
  /\ handler[h].feed \in Connected
  /\ rows' = [rows EXCEPT ![handler[h].feed] =
                IF handler[h].do = "enable" THEN "active" ELSE "disabled"]
  /\ Answer(h) /\ UNCHANGED panel

DeleteCalendarFeed(h) ==
  /\ At(h, "sent") /\ handler[h].do = "remove" /\ handler[h].feed \in Connected
  /\ rows' = [rows EXCEPT ![handler[h].feed] = "removed"]
  /\ Answer(h) /\ UNCHANGED panel

\* No session, a feed that is gone or disabled, the limit, a sync that failed,
\* or no server: nothing is changed.
Refused(h) ==
  /\ At(h, "sent") /\ Step(h, "error")
  /\ UNCHANGED <<rows, panel, disturbed>>

\* An added calendar is synced by a request of its own, and the list loaded
\* whether or not that was accepted.
AddAnswered(h) ==
  /\ At(h, "done") /\ handler[h].do = "add" /\ Step(h, "first")
  /\ UNCHANGED <<rows, panel, disturbed>>

-----------------------------------------------------------------------------
(* The list is loaded, and the handler ends.                               *)

\* (ReloadsUnlessToggled, a mutated form, leaves the list alone after a toggle.)
ReloadsUnlessToggled(do) == do \notin {"enable", "disable"}
Reloads(do) == TRUE

\* Whichever feed it was for, the end of a handler frees the busy one.
Ended(do) ==
  CASE do = "add" -> [panel EXCEPT !.adding = FALSE]
    [] do \in Actions -> [panel EXCEPT !.busyId = NoFeed]
    [] OTHER -> panel

FirstSyncAnswered(h) ==
  /\ At(h, "first")
  /\ panel' = [panel EXCEPT !.loading = TRUE]
  /\ Step(h, "load") /\ UNCHANGED <<rows, disturbed>>

ActionAnswered(h) ==
  /\ At(h, "done") /\ handler[h].do \in Actions
  /\ IF Reloads(handler[h].do)
     THEN Step(h, "load") /\ panel' = [panel EXCEPT !.loading = TRUE]
     ELSE handler' = [handler EXCEPT ![h] = Idle] /\ panel' = Ended(handler[h].do)
  /\ UNCHANGED <<rows, disturbed>>

\* A request that was refused, or got no answer, ends its handler with no load;
\* so does the first sync, when it gets none.
RequestFailed(h) ==
  /\ At(h, "error") \/ At(h, "first")
  /\ handler' = [handler EXCEPT ![h] = Idle] /\ panel' = Ended(handler[h].do)
  /\ disturbed' = (disturbed \/ At(h, "first"))
  /\ UNCHANGED rows

LoadServed(h) ==
  /\ At(h, "load")
  /\ handler' = [handler EXCEPT ![h].step = "read", ![h].list = ListCalendarFeeds]
  /\ disturbed' = (disturbed /\ ~Alone(h))
  /\ UNCHANGED <<rows, panel>>

\* Of the list and the export link both are needed.
LoadFailed(h) ==
  /\ At(h, "load") /\ Step(h, "failed") /\ disturbed' = TRUE
  /\ UNCHANGED <<rows, panel>>

\* The list of the answer that arrives last is shown.
LoadShown(h) ==
  /\ At(h, "read") \/ At(h, "failed")
  /\ panel' = [Ended(handler[h].do) EXCEPT !.loading = FALSE,
                 !.feeds = IF At(h, "read") THEN handler[h].list ELSE @]
  /\ handler' = [handler EXCEPT ![h] = Idle]
  /\ UNCHANGED <<rows, disturbed>>

OtherTab(f) ==
  /\ \/ f \in Connected /\ rows' \in {[rows EXCEPT ![f] = s] : s \in {"active", "disabled", "removed"}}
     \/ /\ rows[f] = "unused" /\ Cardinality(Connected) < MaxFeeds
        /\ rows' = [rows EXCEPT ![f] = "active"]
  /\ disturbed' = TRUE
  /\ UNCHANGED <<panel, handler>>

CalendarRoutes(h) ==
  \/ \E f \in Feeds : CreateCalendarFeed(h, f)
  \/ SyncRoute(h) \/ SetCalendarFeedActive(h) \/ DeleteCalendarFeed(h) \/ Refused(h)

Next ==
  \/ \E h \in Handlers :
       \/ Open(h) \/ AddCalendar(h) \/ \E f \in Feeds : SyncFeed(h, f) \/ SetActive(h, f) \/ RemoveFeed(h, f)
       \/ CalendarRoutes(h)
       \/ AddAnswered(h) \/ FirstSyncAnswered(h) \/ ActionAnswered(h) \/ RequestFailed(h)
       \/ LoadServed(h) \/ LoadFailed(h) \/ LoadShown(h)
  \/ \E f \in Feeds : OtherTab(f)

Spec == Init /\ [][Next]_feedPanelVars

-----------------------------------------------------------------------------
(* Once its handlers have ended, the panel lists the calendars as they     *)
(* are, unless it could not know: they were changed in another tab, a      *)
(* request got no answer, a load failed, or two handlers overlapped and    *)
(* the older list may have arrived last (CalendarSyncPanel.tsx, the load   *)
(* that ends each handler).                                                *)
ListIsCurrent ==
  (~disturbed /\ \A h \in Handlers : handler[h] = Idle) => panel.feeds = ListCalendarFeeds

-----------------------------------------------------------------------------
(* What the steps keep, and rely on.                                       *)

\* While nothing disturbs the list, one handler at most is under way, ...
AtMostOne ==
  /\ \A h \in Handlers : handler[h].step = "idle" => handler[h] = Idle
  /\ ~disturbed => \A g, h \in Handlers : handler[g] # Idle /\ handler[h] # Idle => g = h

\* ... and the list is current unless that handler has changed the calendars and not yet
\* shown them; what it has read then is current.
ListFollows ==
  /\ \A h \in Handlers : handler[h].step = "failed" => disturbed
  /\ ~disturbed =>
       /\ (\A h \in Handlers : handler[h].step \in {"idle", "sent", "error"})
            => panel.feeds = ListCalendarFeeds
       /\ \A h \in Handlers : handler[h].step = "read" => handler[h].list = ListCalendarFeeds

Inv == TypeOK /\ AtMostOne /\ ListFollows
=============================================================================
