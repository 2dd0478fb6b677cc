-------------------------- MODULE CalendarExchange --------------------------
(***************************************************************************)
(* Two calendars that import each other: HOST's, which reads a feed of     *)
(* another platform, and that platform's, which polls HOST's export and    *)
(* may list what it found there in its own feed.  Each exports every night *)
(* it cannot sell, whoever took it, so a night taken once could be handed  *)
(* back and forth for good; HOST leaves out the events that carry its own  *)
(* identifiers.                                                            *)
(*                                                                         *)
(* What HOST does with its calendar in between, the property's lock, the   *)
(* bookings and the passing days are the module Availability; here a night *)
(* is sold or free, and the days do not pass.                              *)
(***************************************************************************)
EXTENDS Naturals, FiniteSets

CONSTANTS
  LastNight,  \* the nights are 1 .. LastNight
  Syncs,      \* runs of syncCalendarFeed
  Echoes      \* the other platform lists imported events in its feed

(* What is assumed of the constants. *)
ExchangeAssumption == LastNight \in Nat \ {0} /\ Echoes \in BOOLEAN

Nights == 1..LastNight
Ranges == {r \in [from : Nights, to : 2..(LastNight + 1)] : r.from < r.to}
Events == [range : Ranges, by : {"HOST", "other"}]

VARIABLES
  sold,    \* the nights sold here and there
  feed,    \* is_active, and remote_etag: {} or the content it names
  events,  \* property_calendar_events of the feed
  sync,    \* the syncs under way
  held,    \* the events the other platform has imported
  linked   \* the other platform polls with the current export token

vars == <<sold, feed, events, sync, held, linked>>

NoSync == [step |-> "idle", tag |-> {}, body |-> {}]

(* Every row and every sync has its type. *)
TypeOK ==
  /\ sold \in [{"HOST", "other"} -> SUBSET Nights]
  /\ feed \in [active : BOOLEAN, tag : SUBSET SUBSET Events]
  /\ events \subseteq Events
  /\ sync \in [Syncs -> [step : {"idle", "begun", "fetched", "unmodified"},
                          tag : SUBSET SUBSET Events, body : SUBSET Events]]
  /\ held \subseteq Events
  /\ linked \in BOOLEAN

Init ==
  /\ sold = [p \in {"HOST", "other"} |-> {}]
  /\ feed = [active |-> TRUE, tag |-> {}]
  /\ events = {}
  /\ sync = [s \in Syncs |-> NoSync]
  /\ held = {}
  /\ linked = TRUE

NightsOf(es) == {n \in Nights : \E e \in es : e.range.from <= n /\ n < e.range.to}
TakenHere == sold["HOST"] \cup (IF feed.active THEN NightsOf(events) ELSE {})
TakenThere == sold["other"] \cup NightsOf(held)

\* groupConsecutiveDates: the longest runs of nights, the end exclusive.
Grouped(nights) ==
  {r \in Ranges : /\ r.from..(r.to - 1) \subseteq nights
                  /\ r.from - 1 \notin nights /\ r.to \notin nights}

Sell(p, n) ==
  /\ n \notin IF p = "HOST" THEN TakenHere ELSE TakenThere
  /\ sold' = [sold EXCEPT ![p] = @ \cup {n}]
  /\ UNCHANGED <<feed, events, sync, held, linked>>

Cancel(p, n) ==
  /\ n \in sold[p]
  /\ sold' = [sold EXCEPT ![p] = @ \ {n}]
  /\ UNCHANGED <<feed, events, sync, held, linked>>

-----------------------------------------------------------------------------
(* HOST imports.                                                           *)

\* What the other platform serves.
Served ==
  {[range |-> r, by |-> "other"] : r \in Grouped(sold["other"])}
    \cup (IF Echoes THEN held ELSE {})

\* (EveryEvent, a mutated form, keeps what comes back.)
EveryEvent(e) == TRUE
IsForeign(e) == e.by # "HOST"

BeginSync(s) ==
  /\ feed.active /\ sync[s].step = "idle"
  /\ sync' = [sync EXCEPT ![s] = [NoSync EXCEPT !.step = "begun", !.tag = feed.tag]]
  /\ UNCHANGED <<sold, feed, events, held, linked>>

Fetch(s) ==
  /\ sync[s].step = "begun"
  /\ sync' = [sync EXCEPT ![s].body = Served, ![s].step =
                 IF sync[s].tag = {Served} THEN "unmodified" ELSE "fetched"]
  /\ UNCHANGED <<sold, feed, events, held, linked>>

\* The events are replaced and the availability rebuilt; a 304 leaves both.
FinishSync(s) ==
  /\ sync[s].step \in {"fetched", "unmodified"}
  /\ events' = IF sync[s].step = "fetched" THEN {e \in sync[s].body : IsForeign(e)} ELSE events
  /\ feed' = [feed EXCEPT !.tag = {sync[s].body}]
  /\ sync' = [sync EXCEPT ![s] = NoSync]
  /\ UNCHANGED <<sold, held, linked>>

FailSync(s) ==
  /\ sync[s].step # "idle"
  /\ sync' = [sync EXCEPT ![s] = NoSync]
  /\ UNCHANGED <<sold, feed, events, held, linked>>

SetActive ==
  /\ feed' = [feed EXCEPT !.active = ~@]
  /\ UNCHANGED <<sold, events, sync, held, linked>>

-----------------------------------------------------------------------------
(* HOST exports.                                                           *)

\* Every night that is not available, imported ones too, under HOST's names.
CalendarExport == {[range |-> r, by |-> "HOST"] : r \in Grouped(TakenHere)}

\* An old token finds no property, and what was imported stays.
Poll ==
  /\ linked
  /\ held' = CalendarExport
  /\ UNCHANGED <<sold, feed, events, sync, linked>>

RotateExportToken ==
  /\ linked' = FALSE
  /\ UNCHANGED <<sold, feed, events, sync, held>>

CopyExportUrl ==
  /\ linked' = TRUE
  /\ UNCHANGED <<sold, feed, events, sync, held>>

SyncCalendarFeed(s) == BeginSync(s) \/ Fetch(s) \/ FinishSync(s) \/ FailSync(s)
ExportPanel == RotateExportToken \/ CopyExportUrl

Next ==
  \/ \E p \in {"HOST", "other"}, n \in Nights : Sell(p, n) \/ Cancel(p, n)
  \/ \E s \in Syncs : SyncCalendarFeed(s)
  \/ SetActive \/ Poll \/ ExportPanel

\* The sweep syncs every active feed each day, and what is tried again and
\* again is answered and stored in the end; the other platform keeps polling.
Fairness ==
  /\ \A s \in Syncs : WF_vars(BeginSync(s)) /\ SF_vars(Fetch(s)) /\ SF_vars(FinishSync(s))
  /\ WF_vars(Poll)

Spec == Init /\ [][Next]_vars /\ Fairness

-----------------------------------------------------------------------------
(* A night that is sold on neither side is free on both in the end, as     *)
(* long as the calendars stay connected: the blocks that stand for a sale  *)
(* that was cancelled do not keep each other alive                         *)
(* (calendarSync.ts:530, calendarSync.test.ts:18).                         *)
SoldNowhere(n) == feed.active /\ linked /\ \A p \in {"HOST", "other"} : n \notin sold[p]
FreeOnBoth(n) == n \notin TakenHere /\ n \notin TakenThere
FreedNightsReturn == \A n \in Nights : <>[]SoldNowhere(n) => <>[]FreeOnBoth(n)

=============================================================================
