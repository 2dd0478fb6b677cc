--------------------------- MODULE CalendarFormat ---------------------------
(***************************************************************************)
(* The iCalendar text between two platforms: buildCalendar, which writes   *)
(* the nights of a property as events, and parseICalendar, which reads a   *)
(* feed line by line.  A line is a name and a value; the lines of a feed   *)
(* come from HOST's own export or from another platform, in any of the     *)
(* forms below, and may end anywhere.                                      *)
(***************************************************************************)
EXTENDS Integers, Sequences, FiniteSets

CONSTANTS
  LastNight,  \* the dates are 1 .. LastNight + 1
  MaxEvents,  \* 5,000 in the code
  LongestKey  \* the longest key of an event: 500 characters in the code

FormatAssumption == LastNight \in Nat \ {0} /\ MaxEvents \in Nat \ {0} /\ LongestKey \in Nat

Dates == 1..(LastNight + 1)
Missing == 0           \* no such line
Invalid == LastNight + 2  \* a line whose value is no date

VARIABLES
  exported,  \* the nights HOST wrote the feed for; {} for a feed of another platform
  envelope,  \* whether it is a calendar, and one of no more than 2 MB
  lines,     \* the lines of the feed
  pos,       \* lines read
  pending,   \* the event being read
  found,     \* events by key
  parse      \* the parser: received, reading, parsed or failed

formatVars == <<exported, envelope, lines, pos, pending, found, parse>>

\* A text is the sequence of its parts.
NoText == <<>>
Cancelled == <<"CANCELLED">>
Latest(places) == CHOOSE p \in places : \A q \in places : q <= p
Nth(places, i) == CHOOSE p \in places : Cardinality({q \in places : q < p}) = i - 1

Recurrences == {NoText, <<"r">>}
Blank(open) == [open |-> open, uid |-> NoText, recurrenceId |-> NoText, startsOn |-> Missing,
                endsOn |-> Missing, cancelled |-> FALSE, recurring |-> FALSE]
NoEvent == Blank(FALSE)

-----------------------------------------------------------------------------
(* Writing.                                                                *)

\* A line's value is a text or a date.
Line(name, text) == [name |-> name, text |-> text, date |-> Missing]
DateLine(name, date) == [name |-> name, text |-> NoText, date |-> date]
Begin == Line("BEGIN:VEVENT", NoText)
End == Line("END:VEVENT", NoText)

\* One pass over the sorted dates: a date that is not the day after a date before it
\* starts a range, which the date before the next start ends.  (AdjoinsLoosely, a
\* mutated form, lets a range skip a day.)
AdjoinsLoosely(previous, date) == date <= previous + 2
Adjoins(previous, date) == date = previous + 1
Starts(dates) == {d \in dates : \A p \in dates : p < d => ~Adjoins(p, d)}
Run(dates, start) ==
  {d \in dates : start <= d /\ \A s \in Starts(dates) : s <= d => s <= start}
RangeFrom(dates, start) ==
  [startsOn |-> start, endsOn |-> Latest(Run(dates, start)) + 1]
GroupConsecutiveDates(dates) ==
  LET starts == Starts(dates) IN
  [i \in 1..Cardinality(starts) |-> RangeFrom(dates, Nth(starts, i))]

\* The range is the event's identifier.
EventLinesOf(r) ==
  <<Begin, Line("UID", <<r.startsOn, r.endsOn>>), DateLine("DTSTART", r.startsOn),
    DateLine("DTEND", r.endsOn), Line("STATUS", <<"CONFIRMED">>), End>>
BuildCalendar(nights) ==
  LET ranges == GroupConsecutiveDates(nights) IN
  [k \in 1..(6 * Len(ranges)) |->
     EventLinesOf(ranges[((k - 1) \div 6) + 1])[((k - 1) % 6) + 1]]

\* What another platform writes for an event, lines left out where the field is missing.
EventLines(e) ==
  <<Begin>>
  \o (IF e.uid = NoText THEN <<>> ELSE <<Line("UID", e.uid)>>)
  \o (IF e.recurrenceId = NoText THEN <<>> ELSE <<Line("RECURRENCE-ID", e.recurrenceId)>>)
  \o (IF e.startsOn = Missing THEN <<>> ELSE <<DateLine("DTSTART", e.startsOn)>>)
  \o (IF e.endsOn = Missing THEN <<>> ELSE <<DateLine("DTEND", e.endsOn)>>)
  \o (IF e.cancelled THEN <<Line("STATUS", Cancelled)>> ELSE <<>>)
  \o (IF e.recurring THEN <<Line("RRULE", NoText)>> ELSE <<>>)
  \o (IF e.open THEN <<>> ELSE <<End>>)

\* One with the look of the key of another, and longer with a recurrence of its own.
Joined == <<"a", "::", "r">>
AnyEvent == [open : BOOLEAN, uid : {<<"a">>, Joined, NoText}, recurrenceId : Recurrences,
             startsOn : {Missing, 1, 2, Invalid}, endsOn : {2, Missing},
             cancelled : BOOLEAN, recurring : BOOLEAN]
Night(uid, recurrenceId, night) ==
  [NoEvent EXCEPT !.uid = uid, !.recurrenceId = recurrenceId, !.startsOn = night,
                  !.endsOn = night + 1]
PlainEvent == {Night(u, r, 2) : u \in {<<"a">>, <<"b">>}, r \in Recurrences}
LastEvents == {<<>>, EventLines(Night(<<"c">>, NoText, 1)), <<End>>}

Foreign == {EventLines(e) \o EventLines(f) \o l : e \in AnyEvent, f \in PlainEvent, l \in LastEvents}

-----------------------------------------------------------------------------
(* Reading.                                                                *)

Init ==
  /\ \/ exported = {} /\ lines \in Foreign
     \/ exported \in (SUBSET (1..LastNight)) \ {{}} /\ lines = BuildCalendar(exported)
  /\ envelope \in {"calendar", "other", "large"}
  /\ pos = 0 /\ pending = NoEvent /\ found = <<>> /\ parse = "received"

\* A feed over 2 MB, or without BEGIN:VCALENDAR, is not read at all.
ParseICalendar ==
  /\ parse = "received"
  /\ parse' = IF envelope = "calendar" THEN "reading" ELSE "failed"
  /\ UNCHANGED <<exported, envelope, lines, pos, pending, found>>

Reading(name) ==
  /\ parse = "reading" /\ pos < Len(lines) /\ lines[pos + 1].name = name
  /\ pos' = pos + 1
  /\ UNCHANGED <<exported, envelope, lines>>

Fail == parse' = "failed" /\ UNCHANGED <<pending, found>>

BeginEvent ==
  /\ Reading("BEGIN:VEVENT")
  /\ IF pending.open THEN Fail
     ELSE pending' = Blank(TRUE) /\ UNCHANGED <<found, parse>>

\* UID and RECURRENCE-ID as one text, "a::r".
Key(uid, recurrenceId) ==
  IF recurrenceId = NoText THEN uid ELSE uid \o <<"::">> \o recurrenceId
EventKey(e) == Key(e.uid, e.recurrenceId)

\* A cancelled event is passed over before anything else is asked of it; a key
\* seen before is overwritten.  (A UID that is too long makes a key that is.)
Unusable(e) ==
  e.recurring \/ e.uid = NoText \/ e.startsOn = Missing \/ e.endsOn = Missing
    \/ e.endsOn <= e.startsOn \/ Len(EventKey(e)) > LongestKey

Added(e) ==
  [k \in DOMAIN found \cup {EventKey(e)} |->
     IF k = EventKey(e) THEN [startsOn |-> e.startsOn, endsOn |-> e.endsOn] ELSE found[k]]

FinishEvent ==
  /\ Reading("END:VEVENT")
  /\ IF ~pending.open \/ (~pending.cancelled /\ Unusable(pending)) THEN Fail
     ELSE IF pending.cancelled THEN pending' = NoEvent /\ UNCHANGED <<found, parse>>
     ELSE IF Cardinality(DOMAIN Added(pending)) > MaxEvents THEN Fail
     ELSE pending' = NoEvent /\ found' = Added(pending) /\ UNCHANGED parse

\* The line at hand.
Text == lines[pos + 1].text
Date == lines[pos + 1].date

Note(field, value) ==
  /\ pending' = IF pending.open THEN [pending EXCEPT ![field] = value] ELSE pending
  /\ UNCHANGED <<found, parse>>

ReadText ==
  \/ Reading("UID") /\ Note("uid", Text)
  \/ Reading("RECURRENCE-ID") /\ Note("recurrenceId", Text)
  \/ Reading("STATUS") /\ Note("cancelled", Text = Cancelled)
  \/ Reading("RRULE") /\ Note("recurring", TRUE)

ParseCalendarDate(field) == IF pending.open /\ Date \notin Dates THEN Fail ELSE Note(field, Date)

ReadDate ==
  \/ Reading("DTSTART") /\ ParseCalendarDate("startsOn")
  \/ Reading("DTEND") /\ ParseCalendarDate("endsOn")

\* Nothing but an open event is missed at the end: END:VCALENDAR is not asked for.
FinishFeed ==
  /\ parse = "reading" /\ pos = Len(lines)
  /\ parse' = IF pending.open THEN "failed" ELSE "parsed"
  /\ UNCHANGED <<exported, envelope, lines, pos, pending, found>>

\* The rest of a feed of another platform does not arrive.
Cut ==
  /\ parse = "reading" /\ exported = {} /\ pos < Len(lines)
  /\ lines' = SubSeq(lines, 1, pos)
  /\ UNCHANGED <<exported, envelope, pos, pending, found, parse>>

Next ==
  \/ ParseICalendar \/ BeginEvent \/ FinishEvent \/ ReadText \/ ReadDate \/ FinishFeed
  \/ Cut

Spec == Init /\ [][Next]_formatVars

LineTexts == {NoText, <<"a">>, Joined, <<"b">>, <<"c">>, <<"r">>, Cancelled, <<"CONFIRMED">>}
           \cup (Dates \X Dates)
Lines == [name : {"BEGIN:VEVENT", "UID", "RECURRENCE-ID", "DTSTART", "DTEND", "STATUS", "RRULE",
                  "END:VEVENT"},
          text : LineTexts, date : Dates \cup {Missing, Invalid}]
TypeOK ==
  /\ exported \subseteq 1..LastNight /\ lines \in Seq(Lines)
  /\ envelope \in {"calendar", "other", "large"}
  /\ pos \in 0..Len(lines) /\ parse \in {"received", "reading", "parsed", "failed"}
  /\ pending \in [open : BOOLEAN, uid : LineTexts, recurrenceId : LineTexts,
                  startsOn : Dates \cup {Missing}, endsOn : Dates \cup {Missing},
                  cancelled : BOOLEAN, recurring : BOOLEAN]
  /\ \A k \in DOMAIN found : found[k].startsOn \in Dates /\ found[k].endsOn \in Dates

-----------------------------------------------------------------------------
(* What a feed means, said of the whole of it.                             *)

\* The last line of a name among some lines counts.
Named(first, last, name) == {i \in first..last : lines[i].name = name}
LastLine(first, last, name) ==
  LET named == Named(first, last, name) IN
  IF named = {} THEN Line("", NoText) ELSE lines[Latest(named)]

\* The places of an event: its BEGIN and the END after it, nothing else between.
IsBegin(i) == lines[i].name = "BEGIN:VEVENT"
IsEnd(i) == lines[i].name = "END:VEVENT"
Marks == {i \in DOMAIN lines : IsBegin(i) \/ IsEnd(i)}
Blocks == {b \in Marks \X Marks : /\ IsBegin(b[1]) /\ IsEnd(b[2]) /\ b[1] < b[2]
                                  /\ ~\E i \in Marks : b[1] < i /\ i < b[2]}
InBlock(i, blocks) == \E b \in blocks : i = b[1] \/ i = b[2]
Field(b, name) == LastLine(b[1] + 1, b[2] - 1, name)
IsCancelled(b) == Field(b, "STATUS").text = Cancelled
KeyOf(b) == Key(Field(b, "UID").text, Field(b, "RECURRENCE-ID").text)
RangeOf(b) == [startsOn |-> Field(b, "DTSTART").date, endsOn |-> Field(b, "DTEND").date]

\* Every event that is not cancelled can be used, and every date is one.
DatesAreDates(first, last) ==
  \A i \in first..last : lines[i].name \in {"DTSTART", "DTEND"} => lines[i].date \in Dates
Usable(b) ==
  IsCancelled(b) \/
    /\ Field(b, "UID").text # NoText /\ ~(Len(KeyOf(b)) > LongestKey)
    /\ Named(b[1] + 1, b[2] - 1, "RRULE") = {}
    /\ Missing < RangeOf(b).startsOn /\ RangeOf(b).startsOn < RangeOf(b).endsOn
Legible ==
  /\ envelope = "calendar"
  /\ \A i \in Marks : InBlock(i, Blocks)
  /\ \A b \in Blocks : DatesAreDates(b[1] + 1, b[2] - 1) /\ Usable(b)

\* The last event of each identifier.
Counted(blocks) == {b \in blocks : ~IsCancelled(b)}
Kept == {b \in Counted(Blocks) : \A c \in Counted(Blocks) : KeyOf(c) = KeyOf(b) => c[1] <= b[1]}
NightsIn(ranges) == UNION {r.startsOn..(r.endsOn - 1) : r \in ranges}

(* A feed is read as what it says: refused when any of it cannot be read,  *)
(* and otherwise the last event of each identifier; what HOST writes is    *)
(* read back as the nights it was written for (ical.ts, calendarExport.ts).*)
FeedIsUnderstood ==
  /\ parse = "parsed" =>
       /\ Legible /\ Cardinality(Kept) <= MaxEvents
       /\ {<<k, found[k]>> : k \in DOMAIN found} = {<<KeyOf(b), RangeOf(b)>> : b \in Kept}
       /\ exported # {} => NightsIn({found[k] : k \in DOMAIN found}) = exported
  /\ parse = "failed" => ~Legible \/ Cardinality(Kept) > MaxEvents

-----------------------------------------------------------------------------
(* What the parser keeps while it reads.                                   *)

\* The event being read is what its lines say; every line before it is in an event
\* that ended, and those that ended can be used.
EventIn(first, last) ==
  [open |-> TRUE, uid |-> LastLine(first, last, "UID").text,
   recurrenceId |-> LastLine(first, last, "RECURRENCE-ID").text,
   startsOn |-> LastLine(first, last, "DTSTART").date,
   endsOn |-> LastLine(first, last, "DTEND").date,
   cancelled |-> LastLine(first, last, "STATUS").text = Cancelled,
   recurring |-> Named(first, last, "RRULE") # {}]
Ended == {b \in Blocks : b[2] <= pos}
MarkedUpTo(last) == \A i \in Marks : i <= last => InBlock(i, Ended)
PendingIsRead ==
  IF pending.open
  THEN \E s \in Marks :
         /\ IsBegin(s) /\ s <= pos /\ MarkedUpTo(s - 1) /\ \A i \in Marks : ~(s < i /\ i <= pos)
         /\ pending = EventIn(s + 1, pos) /\ DatesAreDates(s + 1, pos)
  ELSE MarkedUpTo(pos)
EndedAreUsable == \A b \in Ended : DatesAreDates(b[1] + 1, b[2] - 1) /\ Usable(b)

\* What was found is what the events that ended say.
FoundIsCounted ==
  /\ DOMAIN found = {KeyOf(b) : b \in Counted(Ended)}
  /\ \A b \in Counted(Ended) :
       (\A c \in Counted(Ended) : KeyOf(c) = KeyOf(b) => c[1] <= b[1])
         => found[KeyOf(b)] = RangeOf(b)
  /\ Cardinality(DOMAIN found) <= MaxEvents

Inv ==
  /\ TypeOK
  /\ exported # {} => lines = BuildCalendar(exported)
  /\ parse # "failed" => PendingIsRead /\ EndedAreUsable /\ FoundIsCounted
  /\ parse \in {"reading", "parsed"} => envelope = "calendar"
  /\ parse = "parsed" => pos = Len(lines) /\ ~pending.open
  /\ parse = "failed" => ~Legible \/ Cardinality(Kept) > MaxEvents
=============================================================================
