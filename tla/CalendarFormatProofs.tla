------------------------ MODULE CalendarFormatProofs ------------------------
(***************************************************************************)
(* For feeds of any length: what the parser has read is what the lines     *)
(* read so far say, so that a feed is refused only when some of it cannot  *)
(* be read or has too many events, and is otherwise read as what it says;  *)
(* and what HOST writes is read back as the nights it was written for.     *)
(***************************************************************************)
EXTENDS CalendarFormat, FiniteSetTheorems, SequenceTheorems, WellFoundedInduction, TLAPS

-----------------------------------------------------------------------------
(* The last of some lines.                                                 *)

LEMMA Least ==
  ASSUME NEW S \in SUBSET Nat, S # {}
  PROVE  \E m \in S : \A n \in S : m <= n
<1>1. PICK m \in S : \A n \in S : ~ (<<n, m>> \in OpToRel(<, Nat))
  BY NatLessThanWellFounded, WFMin
<1>2. ASSUME NEW n \in S PROVE m <= n
  <2>1. ~(n < m)
    BY <1>1 DEF OpToRel
  <2> QED BY <2>1
<1> QED BY <1>2

LEMMA Greatest ==
  ASSUME NEW S \in SUBSET Nat, S # {}, NEW bound \in Nat, \A n \in S : n <= bound
  PROVE  \E m \in S : \A n \in S : n <= m
<1> DEFINE T == {bound - n : n \in S}
<1>1. T \in SUBSET Nat /\ T # {}
  <2>1. \A n \in S : bound - n \in Nat
    OBVIOUS
  <2> QED BY <2>1
<1>2. PICK t \in T : \A u \in T : t <= u
  <2> HIDE DEF T
  <2> QED BY <1>1, Least
<1>3. PICK m \in S : t = bound - m
  BY <1>2
<1>4. ASSUME NEW n \in S PROVE n <= m
  <2>1. bound - m <= bound - n
    BY <1>2, <1>3
  <2> QED BY <2>1
<1> QED BY <1>4

LEMMA LatestIsLast ==
  ASSUME NEW S \in SUBSET Nat, S # {}, NEW bound \in Nat, \A n \in S : n <= bound
  PROVE  Latest(S) \in S /\ \A n \in S : n <= Latest(S)
BY Greatest DEF Latest

LEMMA LastIs ==
  ASSUME NEW first \in Nat, NEW last \in Int, NEW name, NEW i \in first..last,
         lines[i].name = name, \A j \in first..last : lines[j].name = name => j <= i
  PROVE  LastLine(first, last, name) = lines[i]
<1> DEFINE named == Named(first, last, name)
<1>1. i \in named /\ (\A j \in named : j <= i) /\ \A j \in named : j \in Int
  BY DEF Named
<1>2. ASSUME NEW k \in named, \A j \in named : j <= k PROVE k = i
  <2> HIDE DEF named
  <2> QED BY <1>1, <1>2
<1>3. Latest(named) = i
  <2> HIDE DEF named
  <2> QED BY <1>1, <1>2 DEF Latest
<1> QED BY <1>1, <1>3 DEF LastLine

LEMMA LastExists ==
  ASSUME NEW first \in Nat, NEW last \in Int, NEW name
  PROVE  \/ /\ LastLine(first, last, name) = Line("", NoText)
            /\ Named(first, last, name) = {}
         \/ \E i \in first..last : /\ lines[i].name = name
                                   /\ LastLine(first, last, name) = lines[i]
                                   /\ \A j \in first..last : lines[j].name = name => j <= i
<1> DEFINE named == Named(first, last, name)
<1>1. CASE named = {}
  BY <1>1 DEF LastLine
<1>2. CASE named # {}
  <2>1. named \in SUBSET Nat /\ last \in Nat /\ \A n \in named : n <= last
    BY <1>2 DEF Named
  <2>2. PICK i \in named : \A j \in named : j <= i
    <3> HIDE DEF named
    <3> QED BY <1>2, <2>1, Greatest
  <2>3. i \in first..last /\ lines[i].name = name
        /\ \A j \in first..last : lines[j].name = name => j <= i
    BY <2>2 DEF Named
  <2>4. LastLine(first, last, name) = lines[i]
    BY <2>3, LastIs
  <2> QED BY <2>3, <2>4
<1> QED BY <1>1, <1>2

LEMMA LastStep ==
  ASSUME NEW first \in Nat, NEW last \in Nat, first <= last + 1, NEW name
  PROVE  /\ LastLine(first, last + 1, name)
              = IF lines[last + 1].name = name THEN lines[last + 1]
                ELSE LastLine(first, last, name)
         /\ Named(first, last + 1, name) # {}
              <=> lines[last + 1].name = name \/ Named(first, last, name) # {}
<1>1. /\ last + 1 \in first..(last + 1) /\ \A j \in first..(last + 1) : j <= last + 1
      /\ \A j \in first..(last + 1) : j = last + 1 \/ j \in first..last
      /\ \A j \in first..last : j \in first..(last + 1)
  OBVIOUS
<1>2. CASE lines[last + 1].name = name
  <2>1. LastLine(first, last + 1, name) = lines[last + 1]
    BY <1>1, <1>2, LastIs
  <2> QED BY <1>1, <1>2, <2>1 DEF Named
<1>3. CASE lines[last + 1].name # name
  <2>1. Named(first, last + 1, name) = Named(first, last, name)
    BY <1>1, <1>3 DEF Named
  <2>2. LastLine(first, last + 1, name) = LastLine(first, last, name)
    BY <2>1 DEF LastLine
  <2> QED BY <1>3, <2>1, <2>2
<1> QED BY <1>2, <1>3

LEMMA NothingRead ==
  ASSUME NEW first \in Nat
  PROVE  EventIn(first, first - 1) = Blank(TRUE)
         /\ DatesAreDates(first, first - 1)
<1>1. \A i \in first..(first - 1) : FALSE
  OBVIOUS
<1>2. \A name : LastLine(first, first - 1, name) = Line("", NoText)
               /\ Named(first, first - 1, name) = {}
  BY <1>1 DEF LastLine, Named
<1>3. NoText # Cancelled
  BY DEF NoText, Cancelled
<1>4. \A name : /\ LastLine(first, first - 1, name).text = NoText
                /\ LastLine(first, first - 1, name).date = Missing
  <2>1. Line("", NoText).text = NoText /\ Line("", NoText).date = Missing
    BY DEF Line
  <2> QED BY <1>2, <2>1
<1>5. EventIn(first, first - 1)
        = [open |-> TRUE, uid |-> NoText, recurrenceId |-> NoText, startsOn |-> Missing,
           endsOn |-> Missing, cancelled |-> FALSE, recurring |-> FALSE]
  BY <1>2, <1>3, <1>4 DEF EventIn
<1> QED BY <1>1, <1>5 DEF Blank, DatesAreDates

(* Lines that stay say what they said.                                     *)
LEMMA SameLines ==
  ASSUME NEW first \in Nat, NEW last \in Int, \A i \in first..last : lines'[i] = lines[i]
  PROVE  /\ \A name : /\ LastLine(first, last, name)' = LastLine(first, last, name)
                      /\ Named(first, last, name)' = Named(first, last, name)
         /\ EventIn(first, last)' = EventIn(first, last)
         /\ DatesAreDates(first, last)' <=> DatesAreDates(first, last)
<1>1. ASSUME NEW name PROVE Named(first, last, name)' = Named(first, last, name)
  BY DEF Named
<1>2. ASSUME NEW name PROVE LastLine(first, last, name)' = LastLine(first, last, name)
  <2> DEFINE named == Named(first, last, name)
  <2>1. CASE named = {}
    BY <1>1, <2>1 DEF LastLine
  <2>2. CASE named # {}
    <3>1. named \in SUBSET Nat /\ last \in Nat /\ \A n \in named : n <= last
      BY <2>2 DEF Named
    <3>2. Latest(named) \in named
      <4> HIDE DEF named
      <4> QED BY <2>2, <3>1, LatestIsLast
    <3>3. lines'[Latest(named)] = lines[Latest(named)]
      BY <3>2 DEF Named
    <3>4. LastLine(first, last, name)' = lines'[Latest(named)]
      BY <1>1, <2>2 DEF LastLine
    <3>5. LastLine(first, last, name) = lines[Latest(named)]
      BY <2>2 DEF LastLine
    <3> QED BY <3>3, <3>4, <3>5
  <2> QED BY <2>1, <2>2
<1> QED BY <1>1, <1>2 DEF EventIn, DatesAreDates


-----------------------------------------------------------------------------
(* The events of a feed, and those that ended.                             *)

LEMMA MarksOfFeed ==
  ASSUME TypeOK
  PROVE  /\ Len(lines) \in Nat /\ DOMAIN lines = 1..Len(lines) /\ pos \in Nat /\ pos <= Len(lines)
         /\ \A i \in Marks : i \in 1..Len(lines) /\ i \in Nat
         /\ \A i \in 1..Len(lines) : IsBegin(i) \/ IsEnd(i) => i \in Marks
         /\ \A i : ~(IsBegin(i) /\ IsEnd(i))
<1>1. Len(lines) \in Nat /\ DOMAIN lines = 1..Len(lines) /\ pos \in Nat /\ pos <= Len(lines)
  BY DEF TypeOK
<1> QED BY <1>1 DEF Marks, IsBegin, IsEnd

LEMMA Block ==
  ASSUME TypeOK, NEW b \in Blocks
  PROVE  /\ b = <<b[1], b[2]>> /\ b[1] \in Marks /\ b[2] \in Marks
         /\ IsBegin(b[1]) /\ IsEnd(b[2]) /\ b[1] < b[2] /\ b[1] \in Nat /\ b[2] \in Nat
         /\ b[2] <= Len(lines)
         /\ \A i \in Marks : ~(b[1] < i /\ i < b[2])
BY MarksOfFeed DEF Blocks

LEMMA SameFeed ==
  ASSUME TypeOK, UNCHANGED lines
  PROVE  /\ Marks' = Marks /\ Blocks' = Blocks
         /\ \A first, last, name : /\ Named(first, last, name)' = Named(first, last, name)
                                   /\ LastLine(first, last, name)' = LastLine(first, last, name)
         /\ \A first, last : /\ EventIn(first, last)' = EventIn(first, last)
                             /\ DatesAreDates(first, last)' <=> DatesAreDates(first, last)
         /\ \A b : /\ KeyOf(b)' = KeyOf(b) /\ RangeOf(b)' = RangeOf(b)
                   /\ IsCancelled(b)' <=> IsCancelled(b)
                   /\ Usable(b)' <=> Usable(b)
<1>1. \A first, last, name : Named(first, last, name)' = Named(first, last, name)
  BY DEF Named
<1>2. \A first, last, name : LastLine(first, last, name)' = LastLine(first, last, name)
  BY <1>1 DEF LastLine
<1>3. Marks' = Marks
  BY DEF Marks, IsBegin, IsEnd
<1>4. Blocks' = Blocks
  BY <1>3 DEF Blocks, IsBegin, IsEnd
<1>5. \A first, last : /\ EventIn(first, last)' = EventIn(first, last)
                       /\ DatesAreDates(first, last)' <=> DatesAreDates(first, last)
  BY <1>1, <1>2 DEF EventIn, DatesAreDates
<1>6. \A b : /\ KeyOf(b)' = KeyOf(b) /\ RangeOf(b)' = RangeOf(b)
             /\ IsCancelled(b)' <=> IsCancelled(b)
  BY <1>2 DEF KeyOf, Key, RangeOf, IsCancelled, Field
<1>7. \A b : Usable(b)' <=> Usable(b)
  BY <1>1, <1>2, <1>6 DEF Usable, Field
<1> QED BY <1>1, <1>2, <1>3, <1>4, <1>5, <1>6, <1>7

(* A line that ends no event leaves the events that ended.                 *)
LEMMA NoneEnds ==
  ASSUME TypeOK, UNCHANGED lines, pos' = pos + 1, ~IsEnd(pos + 1)
  PROVE  Ended' = Ended
<1>1. \A b \in Blocks : b[2] <= pos + 1 <=> b[2] <= pos
  <2> TAKE b \in Blocks
  <2>1. b[2] \in Nat /\ b[2] # pos + 1 /\ pos \in Nat
    BY Block, MarksOfFeed
  <2> QED BY <2>1
<1> QED BY <1>1, SameFeed DEF Ended

(* The END of an event that is open ends it.                               *)
LEMMA Ends ==
  ASSUME TypeOK, UNCHANGED lines, pos' = pos + 1, pos < Len(lines), IsEnd(pos + 1),
         NEW s \in Marks, IsBegin(s), s <= pos, \A i \in Marks : ~(s < i /\ i <= pos)
  PROVE  /\ <<s, pos + 1>> \in Blocks
         /\ Ended' = Ended \cup {<<s, pos + 1>>}
         /\ \A b \in Ended : b[1] < s
<1> DEFINE e == <<s, pos + 1>>
<1>1. pos \in Nat /\ s \in Nat /\ pos + 1 \in Marks
  BY MarksOfFeed
<1>2. \A i \in Marks : ~(s < i /\ i < pos + 1)
  BY <1>1, MarksOfFeed
<1>3. e \in Blocks
  BY <1>1, <1>2 DEF Blocks
<1>4. ASSUME NEW b \in Blocks, b[2] <= pos + 1, ~(b[2] <= pos)
      PROVE  b = e
  <2>1. b[2] = pos + 1
    BY <1>1, <1>4, Block
  <2>2. b[1] = s
    BY <1>1, <1>2, <2>1, Block, MarksOfFeed
  <2> QED BY <2>1, <2>2, Block
<1>5. ASSUME NEW b \in Ended PROVE b[1] < s
  <2>1. b \in Blocks /\ b[2] <= pos /\ b[2] \in Nat /\ b[1] \in Nat /\ b[1] < b[2] /\ b[2] \in Marks
    BY <1>5, Block DEF Ended
  <2>2. b[2] # s
    BY <2>1, Block, MarksOfFeed
  <2>3. ~(s < b[2])
    BY <2>1
  <2> QED BY <1>1, <2>1, <2>2, <2>3
<1>6. Ended' = Ended \cup {e}
  <2>1. Ended' = {b \in Blocks : b[2] <= pos + 1}
    BY SameFeed DEF Ended
  <2>2. e[2] <= pos + 1
    BY <1>1
  <2>3. \A b \in Blocks : b[2] <= pos => b[2] <= pos + 1
    BY <1>1, Block
  <2> HIDE DEF e
  <2> QED BY <1>3, <1>4, <2>1, <2>2, <2>3 DEF Ended
<1> QED BY <1>3, <1>5, <1>6

LEMMA MarkedStays ==
  ASSUME TypeOK, UNCHANGED lines, pos' = pos + 1, NEW last, MarkedUpTo(last)
  PROVE  \A i \in Marks' : i <= last => InBlock(i, Ended')
<1>1. Ended \subseteq Ended'
  BY SameFeed, Block, MarksOfFeed DEF Ended
<1> QED BY <1>1, SameFeed DEF MarkedUpTo, InBlock


LEMMA Finite ==
  ASSUME TypeOK, NEW T \in SUBSET Blocks
  PROVE  /\ IsFiniteSet(T)
         /\ IsFiniteSet({KeyOf(b) : b \in T}) /\ Cardinality({KeyOf(b) : b \in T}) \in Nat
<1> DEFINE keys == {KeyOf(b) : b \in T}
           key == [b \in T |-> KeyOf(b)]
<1>1. IsFiniteSet(1..Len(lines))
  BY MarksOfFeed, FS_Interval
<1>2. IsFiniteSet(Marks)
  BY <1>1, MarksOfFeed, FS_Subset
<1>3. IsFiniteSet(Marks \X Marks)
  BY <1>2, FS_Product
<1>4. IsFiniteSet(T)
  <2>1. T \in SUBSET (Marks \X Marks)
    BY DEF Blocks
  <2> QED BY <1>3, <2>1, FS_Subset
<1>5. key \in Surjection(T, keys)
  BY DEF Surjection
<1>6. IsFiniteSet(keys)
  <2> HIDE DEF keys, key
  <2> QED BY <1>4, <1>5, FS_Surjection
<1> QED BY <1>4, <1>6, FS_CardinalityType

-----------------------------------------------------------------------------
(* A line that marks no event, and the BEGIN of one.                       *)

\* What is kept while there is something to read.
Keeps == PendingIsRead /\ EndedAreUsable /\ FoundIsCounted

LEMMA EndedKept ==
  ASSUME TypeOK, UNCHANGED <<lines, found>>, Ended' = Ended, EndedAreUsable, FoundIsCounted
  PROVE  EndedAreUsable' /\ FoundIsCounted'
<1>1. EndedAreUsable'
  BY SameFeed DEF EndedAreUsable
<1>2. Counted(Ended)' = Counted(Ended)
  BY SameFeed DEF Counted
<1>3. {KeyOf(b) : b \in Counted(Ended)}' = {KeyOf(b) : b \in Counted(Ended)}
  BY <1>2, SameFeed
<1>4. FoundIsCounted'
  BY <1>2, <1>3, SameFeed DEF FoundIsCounted
<1> QED BY <1>1, <1>4

LEMMA Begins ==
  ASSUME TypeOK, Keeps, BeginEvent, ~pending.open
  PROVE  Keeps' /\ parse' = "reading" /\ pending' = Blank(TRUE)
<1>1. /\ parse = "reading" /\ pos < Len(lines) /\ pos' = pos + 1 /\ UNCHANGED <<lines, found, parse>>
      /\ IsBegin(pos + 1) /\ pending' = Blank(TRUE)
  BY DEF BeginEvent, Reading, IsBegin
<1> PICK s \in Nat : s = pos + 1
  BY MarksOfFeed
<1>2. pos \in Nat /\ s \in Marks /\ ~IsEnd(s) /\ IsBegin(s)
  BY <1>1, MarksOfFeed
<1>3. Ended' = Ended
  BY <1>1, <1>2, NoneEnds
<1>4. Blank(TRUE).open = TRUE
  BY DEF Blank
<1>5. PendingIsRead'
  <2>1. MarkedUpTo(pos) /\ s - 1 = pos
    BY <1>2 DEF Keeps, PendingIsRead
  <2>2. MarkedUpTo(s - 1)'
    BY <1>1, <2>1, MarkedStays DEF MarkedUpTo
  <2>3. EventIn(s + 1, s)' = Blank(TRUE) /\ DatesAreDates(s + 1, s)'
    <3>1. s + 1 \in Nat /\ (s + 1) - 1 = s
      OBVIOUS
    <3>2. EventIn(s + 1, s) = Blank(TRUE) /\ DatesAreDates(s + 1, s)
      BY <3>1, NothingRead
    <3> QED BY <1>1, <3>2, SameFeed
  <2>4. s \in Marks' /\ IsBegin(s)' /\ s <= pos' /\ \A i \in Marks' : ~(s < i /\ i <= pos')
    <3>1. Marks' = Marks
      BY <1>1, SameFeed
    <3>2. \A i \in Marks : ~(s < i /\ i <= s)
      BY MarksOfFeed
    <3>3. pos' = s /\ IsBegin(s)'
      BY <1>1, <1>2 DEF IsBegin
    <3> QED BY <1>2, <3>1, <3>2, <3>3
  <2>5. pos' = s
    BY <1>1
  <2> QED BY <1>1, <1>4, <2>2, <2>3, <2>4, <2>5 DEF PendingIsRead
<1>6. EndedAreUsable' /\ FoundIsCounted'
  BY <1>1, <1>3, EndedKept DEF Keeps
<1> QED BY <1>1, <1>5, <1>6 DEF Keeps

(* A line of an event is one of its fields; outside of one it is passed over.*)
LEMMA FieldRead ==
  ASSUME TypeOK, Keeps, pos < Len(lines), pos' = pos + 1, UNCHANGED <<lines, found>>,
         ~IsBegin(pos + 1), ~IsEnd(pos + 1),
         ~pending.open => pending' = pending,
         pending.open => /\ pending'.open
                         /\ lines[pos + 1].name \in {"DTSTART", "DTEND"}
                              => lines[pos + 1].date \in Dates
                         /\ \A s \in 1..pos : pending = EventIn(s + 1, pos)
                                                => pending' = EventIn(s + 1, pos + 1)
  PROVE  Keeps'
<1>1. pos \in Nat /\ pos + 1 \notin Marks
  BY MarksOfFeed DEF Marks
<1>2. Ended' = Ended
  BY NoneEnds
<1>3. \A i \in Marks : i <= pos + 1 <=> i <= pos
  BY <1>1, MarksOfFeed
<1>4. CASE ~pending.open
  <2>1. MarkedUpTo(pos)
    BY <1>4 DEF Keeps, PendingIsRead
  <2> PICK p \in Nat : p = pos + 1
    BY <1>1
  <2>2. MarkedUpTo(p)' /\ p = pos'
    <3>1. \A i \in Marks' : i <= pos => InBlock(i, Ended')
      BY <2>1, MarkedStays
    <3> QED BY <1>3, <3>1, SameFeed DEF MarkedUpTo
  <2> QED BY <1>2, <1>4, <2>2, EndedKept DEF Keeps, PendingIsRead
<1>5. CASE pending.open
  <2>1. PICK s \in Marks : /\ IsBegin(s) /\ s <= pos /\ MarkedUpTo(s - 1)
                           /\ \A i \in Marks : ~(s < i /\ i <= pos)
                           /\ pending = EventIn(s + 1, pos) /\ DatesAreDates(s + 1, pos)
    BY <1>5 DEF Keeps, PendingIsRead
  <2>2. s \in 1..pos
    BY <1>1, <2>1, MarksOfFeed
  <2> PICK p \in Nat : p = pos + 1
    BY <1>1
  <2>3. pending' = EventIn(s + 1, p)'
    BY <1>5, <2>1, <2>2, SameFeed
  <2>4. DatesAreDates(s + 1, p)'
    <3>1. \A i \in (s + 1)..p : i = pos + 1 \/ i \in (s + 1)..pos
      BY <1>1, <2>2
    <3>2. DatesAreDates(s + 1, p)
      BY <1>5, <2>1, <3>1 DEF DatesAreDates
    <3> QED BY <3>2, SameFeed
  <2>5. MarkedUpTo(s - 1)'
    BY <2>1, MarkedStays DEF MarkedUpTo
  <2>6. s \in Marks' /\ IsBegin(s)' /\ s <= pos' /\ \A i \in Marks' : ~(s < i /\ i <= pos')
    BY <1>1, <1>3, <2>1, <2>2, SameFeed DEF IsBegin
  <2>7. PendingIsRead'
    <3>1. p = pos'
      OBVIOUS
    <3> QED BY <1>5, <2>3, <2>4, <2>5, <2>6, <3>1 DEF PendingIsRead
  <2> QED BY <1>2, <2>7, EndedKept DEF Keeps
<1> QED BY <1>4, <1>5

-----------------------------------------------------------------------------
(* The fields.                                                             *)

LEMMA LineTypes ==
  ASSUME TypeOK, NEW i \in 1..Len(lines)
  PROVE  lines[i].text \in LineTexts /\ lines[i].date \in Dates \cup {Missing, Invalid}
<1>1. lines[i] \in Lines
  BY MarksOfFeed DEF TypeOK
<1> QED BY <1>1 DEF Lines

LineDates == Dates \cup {Missing, Invalid}
Events ==
  [open : BOOLEAN, uid : LineTexts, recurrenceId : LineTexts, startsOn : LineDates,
   endsOn : LineDates, cancelled : BOOLEAN, recurring : BOOLEAN]

LEMMA SameEvent ==
  ASSUME NEW e \in Events, NEW f \in Events,
         e.open = f.open, e.uid = f.uid, e.recurrenceId = f.recurrenceId,
         e.startsOn = f.startsOn, e.endsOn = f.endsOn, e.cancelled = f.cancelled,
         e.recurring = f.recurring
  PROVE  e = f
BY DEF Events

LEMMA EventOfLines ==
  ASSUME TypeOK, NEW first \in Nat \ {0}, NEW last \in Nat, last <= Len(lines)
  PROVE  /\ EventIn(first, last) \in Events
         /\ EventIn(first, last).open
         /\ EventIn(first, last).uid = LastLine(first, last, "UID").text
         /\ EventIn(first, last).recurrenceId = LastLine(first, last, "RECURRENCE-ID").text
         /\ EventIn(first, last).startsOn = LastLine(first, last, "DTSTART").date
         /\ EventIn(first, last).endsOn = LastLine(first, last, "DTEND").date
         /\ EventIn(first, last).cancelled = (LastLine(first, last, "STATUS").text = Cancelled)
         /\ EventIn(first, last).recurring = (Named(first, last, "RRULE") # {})
<1>1. \A i \in first..last : i \in 1..Len(lines)
  BY MarksOfFeed
<1>2. ASSUME NEW name
      PROVE  LastLine(first, last, name).text \in LineTexts
             /\ LastLine(first, last, name).date \in LineDates
  <2>1. CASE LastLine(first, last, name) = Line("", NoText)
    <3>1. Line("", NoText).text = NoText /\ Line("", NoText).date = Missing
      BY DEF Line
    <3>2. NoText \in LineTexts /\ Missing \in LineDates
      BY DEF LineTexts, LineDates
    <3> QED BY <2>1, <3>1, <3>2
  <2>2. CASE \E i \in first..last : LastLine(first, last, name) = lines[i]
    BY <1>1, <2>2, LineTypes DEF LineDates
  <2>3. \/ LastLine(first, last, name) = Line("", NoText)
        \/ \E i \in first..last : LastLine(first, last, name) = lines[i]
    <3>1. \/ /\ LastLine(first, last, name) = Line("", NoText)
             /\ Named(first, last, name) = {}
          \/ \E i \in first..last : /\ lines[i].name = name
                                    /\ LastLine(first, last, name) = lines[i]
                                    /\ \A j \in first..last : lines[j].name = name => j <= i
      <4>1. first \in Nat /\ last \in Int
        OBVIOUS
      <4> QED BY ONLY <4>1, LastExists, Zenon
    <3> QED BY <3>1
  <2> QED BY <2>1, <2>2, <2>3
<1>3. EventIn(first, last) \in Events
  BY <1>2 DEF EventIn, Events
<1> QED BY <1>3 DEF EventIn


LEMMA Noted ==
  ASSUME NEW e \in Events, NEW v, NEW w \in BOOLEAN
  PROVE  /\ v \in LineTexts => [e EXCEPT !["uid"] = v] \in Events
         /\ v \in LineTexts => [e EXCEPT !["recurrenceId"] = v] \in Events
         /\ v \in LineDates => [e EXCEPT !["startsOn"] = v] \in Events
         /\ v \in LineDates => [e EXCEPT !["endsOn"] = v] \in Events
         /\ [e EXCEPT !["cancelled"] = w] \in Events
         /\ [e EXCEPT !["recurring"] = w] \in Events
BY DEF Events

\* The line read is the last of its name.
LEMMA FieldStep ==
  ASSUME TypeOK, pos < Len(lines), NEW s \in 1..pos, NEW e \in Events,
         LET is == EventIn(s + 1, pos + 1) IN
         /\ e.open = is.open /\ e.uid = is.uid /\ e.recurrenceId = is.recurrenceId
         /\ e.startsOn = is.startsOn /\ e.endsOn = is.endsOn /\ e.cancelled = is.cancelled
         /\ e.recurring = is.recurring
  PROVE  e = EventIn(s + 1, pos + 1)
<1>1. s + 1 \in Nat \ {0} /\ pos + 1 \in Nat /\ pos + 1 <= Len(lines)
  BY MarksOfFeed
<1>2. EventIn(s + 1, pos + 1) \in Events
  BY <1>1, EventOfLines
<1> QED BY <1>2, SameEvent

LEMMA FieldOf ==
  ASSUME TypeOK, pos < Len(lines), NEW s \in 1..pos
  PROVE  LET is == EventIn(s + 1, pos + 1)
             was == EventIn(s + 1, pos)
             line == lines[pos + 1]
         IN
         /\ was \in Events /\ was.open = TRUE /\ is.open = TRUE
         /\ is.uid = IF line.name = "UID" THEN line.text ELSE was.uid
         /\ is.recurrenceId = IF line.name = "RECURRENCE-ID" THEN line.text ELSE was.recurrenceId
         /\ is.startsOn = IF line.name = "DTSTART" THEN line.date ELSE was.startsOn
         /\ is.endsOn = IF line.name = "DTEND" THEN line.date ELSE was.endsOn
         /\ is.cancelled = IF line.name = "STATUS" THEN line.text = Cancelled ELSE was.cancelled
         /\ is.recurring = IF line.name = "RRULE" THEN TRUE ELSE was.recurring
<1>1. s + 1 \in Nat \ {0} /\ pos \in Nat /\ pos + 1 \in Nat /\ pos + 1 <= Len(lines)
      /\ s + 1 <= pos + 1 /\ pos <= Len(lines)
  BY MarksOfFeed
<1>2. EventIn(s + 1, pos) \in Events
  BY <1>1, EventOfLines
<1>3. \A name : /\ LastLine(s + 1, pos + 1, name)
                     = IF lines[pos + 1].name = name THEN lines[pos + 1]
                       ELSE LastLine(s + 1, pos, name)
                /\ Named(s + 1, pos + 1, name) # {}
                     <=> lines[pos + 1].name = name \/ Named(s + 1, pos, name) # {}
  BY <1>1, LastStep
<1> QED BY <1>2, <1>3 DEF EventIn


\* What a line of a name makes of an event.
FieldIs(e, was, name, text, date) ==
  /\ e \in Events
  /\ e.open = was.open
  /\ e.uid = IF name = "UID" THEN text ELSE was.uid
  /\ e.recurrenceId = IF name = "RECURRENCE-ID" THEN text ELSE was.recurrenceId
  /\ e.startsOn = IF name = "DTSTART" THEN date ELSE was.startsOn
  /\ e.endsOn = IF name = "DTEND" THEN date ELSE was.endsOn
  /\ e.cancelled = IF name = "STATUS" THEN text = Cancelled ELSE was.cancelled
  /\ e.recurring = IF name = "RRULE" THEN TRUE ELSE was.recurring

LEMMA NotedUid ==
  ASSUME NEW e \in Events, NEW text \in LineTexts, NEW date \in LineDates,
         NEW w, w = [e EXCEPT !["uid"] = text]
  PROVE  FieldIs(w, e, "UID", text, date)
BY DEF Events, FieldIs

LEMMA NotedRecurrenceId ==
  ASSUME NEW e \in Events, NEW text \in LineTexts, NEW date \in LineDates,
         NEW w, w = [e EXCEPT !["recurrenceId"] = text]
  PROVE  FieldIs(w, e, "RECURRENCE-ID", text, date)
BY DEF Events, FieldIs

LEMMA NotedStartsOn ==
  ASSUME NEW e \in Events, NEW text \in LineTexts, NEW date \in LineDates,
         NEW w, w = [e EXCEPT !["startsOn"] = date]
  PROVE  FieldIs(w, e, "DTSTART", text, date)
BY DEF Events, FieldIs

LEMMA NotedEndsOn ==
  ASSUME NEW e \in Events, NEW text \in LineTexts, NEW date \in LineDates,
         NEW w, w = [e EXCEPT !["endsOn"] = date]
  PROVE  FieldIs(w, e, "DTEND", text, date)
BY DEF Events, FieldIs

LEMMA NotedCancelled ==
  ASSUME NEW e \in Events, NEW text \in LineTexts, NEW date \in LineDates,
         NEW w, w = [e EXCEPT !["cancelled"] = text = Cancelled]
  PROVE  FieldIs(w, e, "STATUS", text, date)
BY DEF Events, FieldIs

LEMMA NotedRecurring ==
  ASSUME NEW e \in Events, NEW text \in LineTexts, NEW date \in LineDates,
         NEW w, w = [e EXCEPT !["recurring"] = TRUE]
  PROVE  FieldIs(w, e, "RRULE", text, date)
BY DEF Events, FieldIs

LEMMA FieldNoted ==
  ASSUME TypeOK, pos < Len(lines), NEW s \in 1..pos, NEW e,
         FieldIs(e, EventIn(s + 1, pos), lines[pos + 1].name, lines[pos + 1].text,
                 lines[pos + 1].date)
  PROVE  e = EventIn(s + 1, pos + 1)
<1> DEFINE was == EventIn(s + 1, pos)
           is == EventIn(s + 1, pos + 1)
           n == lines[pos + 1].name
<1>1. /\ e \in Events
      /\ e.open = was.open
      /\ e.uid = (IF n = "UID" THEN lines[pos + 1].text ELSE was.uid)
      /\ e.recurrenceId = (IF n = "RECURRENCE-ID" THEN lines[pos + 1].text ELSE was.recurrenceId)
      /\ e.startsOn = (IF n = "DTSTART" THEN lines[pos + 1].date ELSE was.startsOn)
      /\ e.endsOn = (IF n = "DTEND" THEN lines[pos + 1].date ELSE was.endsOn)
      /\ e.cancelled = (IF n = "STATUS" THEN lines[pos + 1].text = Cancelled ELSE was.cancelled)
      /\ e.recurring = (IF n = "RRULE" THEN TRUE ELSE was.recurring)
  BY DEF FieldIs
<1>2. /\ is.open = was.open
      /\ is.uid = (IF n = "UID" THEN lines[pos + 1].text ELSE was.uid)
      /\ is.recurrenceId = (IF n = "RECURRENCE-ID" THEN lines[pos + 1].text ELSE was.recurrenceId)
      /\ is.startsOn = (IF n = "DTSTART" THEN lines[pos + 1].date ELSE was.startsOn)
      /\ is.endsOn = (IF n = "DTEND" THEN lines[pos + 1].date ELSE was.endsOn)
      /\ is.cancelled = (IF n = "STATUS" THEN lines[pos + 1].text = Cancelled ELSE was.cancelled)
      /\ is.recurring = (IF n = "RRULE" THEN TRUE ELSE was.recurring)
  BY FieldOf
<1> HIDE DEF was, is, n
<1>3. /\ e.open = is.open /\ e.uid = is.uid /\ e.recurrenceId = is.recurrenceId
      /\ e.startsOn = is.startsOn /\ e.endsOn = is.endsOn /\ e.cancelled = is.cancelled
      /\ e.recurring = is.recurring
  BY <1>1, <1>2, Zenon
<1> QED BY <1>1, <1>3, FieldStep DEF is

LEMMA TextRead ==
  ASSUME TypeOK, Keeps, ReadText
  PROVE  Keeps' /\ parse = "reading" /\ pos < Len(lines) /\ pos' = pos + 1
         /\ UNCHANGED <<exported, envelope, lines, parse>>
<1>1. /\ parse = "reading" /\ pos < Len(lines) /\ pos' = pos + 1
      /\ UNCHANGED <<exported, envelope, lines, found, parse>>
      /\ lines[pos + 1].name \in {"UID", "RECURRENCE-ID", "STATUS", "RRULE"}
  BY DEF ReadText, Reading, Note
<1>2. ~IsBegin(pos + 1) /\ ~IsEnd(pos + 1) /\ lines[pos + 1].name \notin {"DTSTART", "DTEND"}
  BY <1>1 DEF IsBegin, IsEnd
<1>3. ~pending.open => pending' = pending
  BY DEF ReadText, Note
<1>4. ASSUME NEW s \in 1..pos, pending = EventIn(s + 1, pos)
      PROVE  pending' = EventIn(s + 1, pos + 1) /\ pending'.open
  <2>1. pos + 1 \in 1..Len(lines)
    BY <1>1, MarksOfFeed
  <2>2. pending \in Events /\ pending.open = TRUE
    BY <1>1, <1>4, FieldOf
  <2>3. Text \in LineTexts /\ Date \in LineDates
    BY <2>1, LineTypes DEF Text, Date, LineDates
  <2>4. FieldIs(pending', pending, lines[pos + 1].name, Text, Date)
    <3> DEFINE n == lines[pos + 1].name
    <3>1. \/ n = "UID" /\ pending' = [pending EXCEPT !["uid"] = Text]
          \/ n = "RECURRENCE-ID" /\ pending' = [pending EXCEPT !["recurrenceId"] = Text]
          \/ n = "STATUS" /\ pending' = [pending EXCEPT !["cancelled"] = (Text = Cancelled)]
          \/ n = "RRULE" /\ pending' = [pending EXCEPT !["recurring"] = TRUE]
      BY <2>2 DEF ReadText, Reading, Note
    <3> HIDE DEF n
    <3>3. CASE n = "UID" /\ pending' = [pending EXCEPT !["uid"] = Text]
      BY <2>2, <2>3, <3>3, NotedUid DEF n
    <3>4. CASE n = "RECURRENCE-ID" /\ pending' = [pending EXCEPT !["recurrenceId"] = Text]
      BY <2>2, <2>3, <3>4, NotedRecurrenceId DEF n
    <3>5. CASE n = "STATUS" /\ pending' = [pending EXCEPT !["cancelled"] = (Text = Cancelled)]
      BY <2>2, <2>3, <3>5, NotedCancelled DEF n
    <3>6. CASE n = "RRULE" /\ pending' = [pending EXCEPT !["recurring"] = TRUE]
      BY <2>2, <2>3, <3>6, NotedRecurring DEF n
    <3> QED BY <3>1, <3>3, <3>4, <3>5, <3>6 DEF n
  <2>5. pending' = EventIn(s + 1, pos + 1)
    BY <1>1, <1>4, <2>4, FieldNoted DEF Text, Date
  <2>6. pending'.open = TRUE
    BY <1>1, <2>5, FieldOf
  <2> QED BY <2>5, <2>6
<1>5. pending.open => \E s \in 1..pos : pending = EventIn(s + 1, pos)
  BY MarksOfFeed DEF Keeps, PendingIsRead
<1> QED BY <1>1, <1>2, <1>3, <1>4, <1>5, FieldRead


LEMMA DateRead ==
  ASSUME TypeOK, Keeps, ReadDate, ~(pending.open /\ Date \notin Dates)
  PROVE  Keeps' /\ parse = "reading" /\ pos < Len(lines) /\ pos' = pos + 1
         /\ UNCHANGED <<exported, envelope, lines, parse>>
<1>1. /\ parse = "reading" /\ pos < Len(lines) /\ pos' = pos + 1
      /\ UNCHANGED <<exported, envelope, lines, found, parse>>
      /\ lines[pos + 1].name \in {"DTSTART", "DTEND"}
  BY DEF ReadDate, Reading, ParseCalendarDate, Note
<1>2. ~IsBegin(pos + 1) /\ ~IsEnd(pos + 1) /\ (pending.open => lines[pos + 1].date \in Dates)
  BY <1>1 DEF IsBegin, IsEnd, Date
<1>3. ~pending.open => pending' = pending
  BY DEF ReadDate, ParseCalendarDate, Note
<1>4. ASSUME NEW s \in 1..pos, pending = EventIn(s + 1, pos)
      PROVE  pending' = EventIn(s + 1, pos + 1) /\ pending'.open
  <2>1. pos + 1 \in 1..Len(lines)
    BY <1>1, MarksOfFeed
  <2>2. pending \in Events /\ pending.open = TRUE
    BY <1>1, <1>4, FieldOf
  <2>3. Text \in LineTexts /\ Date \in LineDates
    BY <2>1, LineTypes DEF Text, Date, LineDates
  <2>4. FieldIs(pending', pending, lines[pos + 1].name, Text, Date)
    <3> DEFINE n == lines[pos + 1].name
    <3>1. \/ n = "DTSTART" /\ pending' = [pending EXCEPT !["startsOn"] = Date]
          \/ n = "DTEND" /\ pending' = [pending EXCEPT !["endsOn"] = Date]
      BY <2>2 DEF ReadDate, Reading, ParseCalendarDate, Note
    <3> HIDE DEF n
    <3>3. CASE n = "DTSTART" /\ pending' = [pending EXCEPT !["startsOn"] = Date]
      BY <2>2, <2>3, <3>3, NotedStartsOn DEF n
    <3>4. CASE n = "DTEND" /\ pending' = [pending EXCEPT !["endsOn"] = Date]
      BY <2>2, <2>3, <3>4, NotedEndsOn DEF n
    <3> QED BY <3>1, <3>3, <3>4 DEF n
  <2>5. pending' = EventIn(s + 1, pos + 1)
    BY <1>1, <1>4, <2>4, FieldNoted DEF Text, Date
  <2>6. pending'.open = TRUE
    BY <1>1, <2>5, FieldOf
  <2> QED BY <2>5, <2>6
<1>5. pending.open => \E s \in 1..pos : pending = EventIn(s + 1, pos)
  BY MarksOfFeed DEF Keeps, PendingIsRead
<1> QED BY <1>1, <1>2, <1>3, <1>4, <1>5, FieldRead

-----------------------------------------------------------------------------
(* What cannot be read.                                                    *)

(* Of a legible feed, an event that is open has its END to come.           *)
LEMMA Opens ==
  ASSUME TypeOK, Keeps, pending.open, Legible
  PROVE  \E b \in Blocks : b[1] <= pos /\ pos < b[2]
<1>1. PICK s \in Marks : IsBegin(s) /\ s <= pos /\ \A i \in Marks : ~(s < i /\ i <= pos)
  BY DEF Keeps, PendingIsRead
<1>2. PICK b \in Blocks : s = b[1] \/ s = b[2]
  BY DEF Legible, InBlock
<1>3. b[1] = s
  BY <1>1, <1>2, Block, MarksOfFeed
<1>4. pos < b[2]
  BY <1>1, <1>3, Block, MarksOfFeed
<1> QED BY <1>1, <1>3, <1>4

LEMMA BeginsTwice ==
  ASSUME TypeOK, Keeps, pending.open, pos < Len(lines), IsBegin(pos + 1)
  PROVE  ~Legible
<1> SUFFICES ASSUME Legible PROVE FALSE
  OBVIOUS
<1>1. PICK b \in Blocks : b[1] <= pos /\ pos < b[2]
  BY Opens
<1>2. pos + 1 \in Marks /\ pos \in Nat
  BY MarksOfFeed
<1>3. b[2] # pos + 1 /\ b[1] \in Nat /\ b[2] \in Nat /\ ~(b[1] < pos + 1 /\ pos + 1 < b[2])
  BY <1>2, Block, MarksOfFeed
<1> QED BY <1>1, <1>2, <1>3

LEMMA NoDate ==
  ASSUME TypeOK, Keeps, pending.open, pos < Len(lines),
         lines[pos + 1].name \in {"DTSTART", "DTEND"}, lines[pos + 1].date \notin Dates
  PROVE  ~Legible
<1> SUFFICES ASSUME Legible PROVE FALSE
  OBVIOUS
<1>1. PICK b \in Blocks : b[1] <= pos /\ pos < b[2]
  BY Opens
<1>2. ~IsEnd(pos + 1) /\ pos \in Nat
  BY MarksOfFeed DEF IsEnd
<1>3. b[2] # pos + 1 /\ b[1] \in Nat /\ b[2] \in Nat
  BY <1>2, Block
<1>4. pos + 1 \in (b[1] + 1)..(b[2] - 1)
  BY <1>1, <1>2, <1>3
<1>5. DatesAreDates(b[1] + 1, b[2] - 1)
  BY DEF Legible
<1> QED BY <1>4, <1>5 DEF DatesAreDates

LEMMA OpenAtEnd ==
  ASSUME TypeOK, Keeps, pending.open, pos = Len(lines)
  PROVE  ~Legible
<1> SUFFICES ASSUME Legible PROVE FALSE
  OBVIOUS
<1>1. PICK b \in Blocks : b[1] <= pos /\ pos < b[2]
  BY Opens
<1> QED BY <1>1, Block, MarksOfFeed

LEMMA EndsTwice ==
  ASSUME TypeOK, Keeps, ~pending.open, pos < Len(lines), IsEnd(pos + 1)
  PROVE  ~Legible
<1> SUFFICES ASSUME Legible PROVE FALSE
  OBVIOUS
<1>1. pos + 1 \in Marks /\ pos \in Nat
  BY MarksOfFeed
<1>2. PICK b \in Blocks : b[1] = pos + 1 \/ b[2] = pos + 1
  BY <1>1 DEF Legible, InBlock
<1>3. b[2] = pos + 1 /\ b[1] \in Marks /\ b[1] \in Nat /\ b[1] <= pos /\ IsBegin(b[1])
  BY <1>1, <1>2, Block, MarksOfFeed
<1>4. PICK c \in Ended : b[1] = c[1] \/ b[1] = c[2]
  BY <1>3 DEF Keeps, PendingIsRead, MarkedUpTo, InBlock
<1>5. c \in Blocks /\ c[2] <= pos
  BY DEF Ended
<1>6. c[1] = b[1] /\ c[1] < c[2] /\ c[2] \in Marks /\ c[2] \in Nat
  BY <1>3, <1>4, <1>5, Block, MarksOfFeed
<1>7. ~(b[1] < c[2] /\ c[2] < b[2])
  BY <1>6, Block
<1> QED BY <1>1, <1>3, <1>5, <1>6, <1>7


-----------------------------------------------------------------------------
(* The last event of an identifier.                                        *)

LEMMA HasLast ==
  ASSUME TypeOK, NEW T \in SUBSET Blocks, NEW b \in T
  PROVE  \E c \in T : KeyOf(c) = KeyOf(b) /\ \A d \in T : KeyOf(d) = KeyOf(b) => d[1] <= c[1]
<1> DEFINE S == {c[1] : c \in {c \in T : KeyOf(c) = KeyOf(b)}}
<1>1. S \in SUBSET Nat /\ \A n \in S : n <= Len(lines)
  BY Block, MarksOfFeed
<1>2. S # {} /\ Len(lines) \in Nat
  BY MarksOfFeed
<1>3. PICK m \in S : \A n \in S : n <= m
  <2> HIDE DEF S
  <2> QED BY <1>1, <1>2, Greatest
<1> QED BY <1>3

LEMMA KeptKeys ==
  ASSUME TypeOK
  PROVE  /\ {KeyOf(b) : b \in Kept} = {KeyOf(b) : b \in Counted(Blocks)}
         /\ Cardinality({KeyOf(b) : b \in Counted(Blocks)}) <= Cardinality(Kept)
<1>1. Kept \subseteq Counted(Blocks) /\ Counted(Blocks) \in SUBSET Blocks
  BY DEF Kept, Counted
<1>2. ASSUME NEW b \in Counted(Blocks) PROVE \E c \in Kept : KeyOf(c) = KeyOf(b)
  <2>1. PICK c \in Counted(Blocks) :
          KeyOf(c) = KeyOf(b) /\ \A d \in Counted(Blocks) : KeyOf(d) = KeyOf(b) => d[1] <= c[1]
    BY <1>1, HasLast
  <2> QED BY <2>1 DEF Kept
<1>3. {KeyOf(b) : b \in Kept} = {KeyOf(b) : b \in Counted(Blocks)}
  BY <1>1, <1>2
<1>4. IsFiniteSet(Kept)
  BY <1>1, Finite
<1> DEFINE key == [b \in Kept |-> KeyOf(b)]
           keys == {KeyOf(b) : b \in Kept}
<1>5. key \in Surjection(Kept, keys)
  BY DEF Surjection
<1>6. Cardinality(keys) <= Cardinality(Kept)
  <2> HIDE DEF key, keys
  <2> QED BY <1>4, <1>5, FS_Surjection
<1> QED BY <1>3, <1>6

LEMMA TooMany ==
  ASSUME TypeOK, NEW T \in SUBSET Blocks, FormatAssumption,
         Cardinality({KeyOf(b) : b \in Counted(T)}) > MaxEvents
  PROVE  Cardinality(Kept) > MaxEvents
<1> DEFINE some == {KeyOf(b) : b \in Counted(T)}
           all == {KeyOf(b) : b \in Counted(Blocks)}
<1>1. some \subseteq all /\ Counted(Blocks) \in SUBSET Blocks /\ Counted(T) \in SUBSET Blocks
  BY DEF Counted
<1>2. IsFiniteSet(all) /\ Cardinality(all) \in Nat /\ Cardinality(some) \in Nat
  BY <1>1, Finite
<1>3. Cardinality(all) <= Cardinality(Kept)
  BY KeptKeys
<1>4. Cardinality(Kept) \in Nat
  <2>1. IsFiniteSet(Kept)
    BY Finite DEF Kept, Counted
  <2> QED BY <2>1, FS_CardinalityType
<1>5. Cardinality(some) <= Cardinality(all)
  <2> HIDE DEF some, all
  <2> QED BY <1>1, <1>2, FS_Subset
<1> HIDE DEF all
<1> QED BY <1>2, <1>3, <1>4, <1>5 DEF FormatAssumption

-----------------------------------------------------------------------------
(* The END of an event.                                                    *)

LEMMA AddedEvent ==
  ASSUME TypeOK, Keeps, pending.open
  PROVE  DOMAIN Added(pending) = DOMAIN found \cup {EventKey(pending)}
         /\ Added(pending)[EventKey(pending)]
              = [startsOn |-> pending.startsOn, endsOn |-> pending.endsOn]
         /\ \A k \in DOMAIN found : k # EventKey(pending) => Added(pending)[k] = found[k]
BY DEF Added

(* What the event says that ends here.                                     *)
LEMMA Ending ==
  ASSUME TypeOK, Keeps, pending.open, pos < Len(lines), IsEnd(pos + 1), pos' = pos + 1,
         UNCHANGED lines
  PROVE  \E b \in Blocks :
           /\ Ended' = Ended \cup {b} /\ (\A c \in Ended : c[1] < b[1])
           /\ DatesAreDates(b[1] + 1, b[2] - 1)
           /\ EventKey(pending) = KeyOf(b)
           /\ [startsOn |-> pending.startsOn, endsOn |-> pending.endsOn] = RangeOf(b)
           /\ pending.cancelled <=> IsCancelled(b)
           /\ ~Unusable(pending) /\ ~IsCancelled(b) => Usable(b)
           /\ Unusable(pending) /\ ~IsCancelled(b) => ~Usable(b)
           /\ \A i \in Marks : i <= b[1] - 1 => InBlock(i, Ended)
           /\ b[2] = pos + 1
           /\ \A i \in Marks : b[1] < i => pos < i
<1>1. PICK s \in Marks : /\ IsBegin(s) /\ s <= pos /\ MarkedUpTo(s - 1)
                         /\ \A i \in Marks : ~(s < i /\ i <= pos)
                         /\ pending = EventIn(s + 1, pos) /\ DatesAreDates(s + 1, pos)
  BY DEF Keeps, PendingIsRead
<1> DEFINE b == <<s, pos + 1>>
<1>2. pos \in Nat /\ s \in Nat /\ b[1] = s /\ b[2] = pos + 1 /\ b[2] - 1 = pos
      /\ (\A i \in Marks : i \in Nat) /\ s + 1 \in Nat \ {0}
  BY MarksOfFeed
<1>3. b \in Blocks /\ Ended' = Ended \cup {b} /\ \A c \in Ended : c[1] < s
  BY <1>1, Ends
<1>4. DatesAreDates(b[1] + 1, b[2] - 1)
  BY <1>1, <1>2
<1>5. /\ pending.uid = Field(b, "UID").text
      /\ pending.recurrenceId = Field(b, "RECURRENCE-ID").text
      /\ pending.startsOn = Field(b, "DTSTART").date
      /\ pending.endsOn = Field(b, "DTEND").date
      /\ pending.cancelled <=> Field(b, "STATUS").text = Cancelled
      /\ pending.recurring <=> Named(b[1] + 1, b[2] - 1, "RRULE") # {}
  <2>1. /\ EventIn(s + 1, pos).uid = LastLine(s + 1, pos, "UID").text
        /\ EventIn(s + 1, pos).recurrenceId = LastLine(s + 1, pos, "RECURRENCE-ID").text
        /\ EventIn(s + 1, pos).startsOn = LastLine(s + 1, pos, "DTSTART").date
        /\ EventIn(s + 1, pos).endsOn = LastLine(s + 1, pos, "DTEND").date
        /\ EventIn(s + 1, pos).cancelled = (LastLine(s + 1, pos, "STATUS").text = Cancelled)
        /\ EventIn(s + 1, pos).recurring = (Named(s + 1, pos, "RRULE") # {})
    BY DEF EventIn
  <2> QED BY <1>1, <1>2, <2>1 DEF Field
<1>6. EventKey(pending) = KeyOf(b)
  BY <1>5 DEF EventKey, KeyOf
<1>7. [startsOn |-> pending.startsOn, endsOn |-> pending.endsOn] = RangeOf(b)
  BY <1>5 DEF RangeOf
<1>8. pending.cancelled <=> IsCancelled(b)
  BY <1>5 DEF IsCancelled
<1>9. ~IsCancelled(b) => (Usable(b) <=> ~Unusable(pending))
  <2>1. pending.startsOn \in Dates \cup {Missing} /\ pending.endsOn \in Dates \cup {Missing}
    BY DEF TypeOK
  <2>2. RangeOf(b).startsOn = pending.startsOn /\ RangeOf(b).endsOn = pending.endsOn
    BY <1>5 DEF RangeOf
  <2>3. \A d \in Dates \cup {Missing} : d \in Nat /\ (d = Missing <=> ~(Missing < d))
    BY DEF Dates, Missing
  <2>4. Usable(b) <=> \/ IsCancelled(b)
                      \/ /\ pending.uid # NoText /\ ~pending.recurring
                         /\ ~(Len(EventKey(pending)) > LongestKey)
                         /\ Missing < pending.startsOn /\ pending.startsOn < pending.endsOn
    BY <1>5, <1>6, <2>2 DEF Usable
  <2>5. Missing < pending.startsOn /\ pending.startsOn < pending.endsOn
          <=> ~(pending.startsOn = Missing \/ pending.endsOn = Missing
                  \/ pending.endsOn <= pending.startsOn)
    BY <2>1, <2>3 DEF Missing
  <2> QED BY <2>4, <2>5 DEF Unusable
<1>10. \A i \in Marks : i <= b[1] - 1 => InBlock(i, Ended)
  BY <1>1, <1>2 DEF MarkedUpTo
<1>11. \A i \in Marks : b[1] < i => pos < i
  BY <1>1, <1>2
<1> QED BY <1>2, <1>3, <1>4, <1>6, <1>7, <1>8, <1>9, <1>10, <1>11


(* The END of an open event keeps what the events say.                     *)
LEMMA Finished ==
  ASSUME FormatAssumption, TypeOK, Keeps, FinishEvent, parse' # "failed"
  PROVE  Keeps' /\ parse = "reading" /\ pos < Len(lines) /\ pos' = pos + 1
         /\ UNCHANGED <<exported, envelope, lines, parse>>
<1>1. /\ parse = "reading" /\ pos < Len(lines) /\ pos' = pos + 1 /\ UNCHANGED <<exported, envelope, lines, parse>>
      /\ IsEnd(pos + 1) /\ pending.open /\ pending' = NoEvent
      /\ pending.cancelled \/ ~Unusable(pending)
      /\ IF pending.cancelled THEN found' = found
         ELSE found' = Added(pending) /\ ~(Cardinality(DOMAIN Added(pending)) > MaxEvents)
  BY DEF FinishEvent, Reading, Fail, IsEnd
<1>2. PICK b \in Blocks :
        /\ Ended' = Ended \cup {b} /\ (\A c \in Ended : c[1] < b[1])
        /\ DatesAreDates(b[1] + 1, b[2] - 1)
        /\ EventKey(pending) = KeyOf(b)
        /\ [startsOn |-> pending.startsOn, endsOn |-> pending.endsOn] = RangeOf(b)
        /\ pending.cancelled <=> IsCancelled(b)
        /\ ~Unusable(pending) /\ ~IsCancelled(b) => Usable(b)
        /\ Unusable(pending) /\ ~IsCancelled(b) => ~Usable(b)
        /\ \A i \in Marks : i <= b[1] - 1 => InBlock(i, Ended)
        /\ b[2] = pos + 1
        /\ \A i \in Marks : b[1] < i => pos < i
  BY <1>1, Ending
<1>3. PendingIsRead'
  <2>1. ~NoEvent.open
    BY DEF NoEvent, Blank
  <2>2. ASSUME NEW i \in Marks, i <= pos + 1 PROVE InBlock(i, Ended \cup {b})
    <3>1. i \in Nat /\ pos \in Nat /\ b[1] \in Nat
      BY MarksOfFeed, Block
    <3>2. CASE i <= b[1] - 1
      BY <1>2, <3>2 DEF InBlock
    <3>3. CASE i = b[1] \/ i = b[2]
      BY <3>3 DEF InBlock
    <3>4. CASE b[1] < i
      BY <1>2, <2>2, <3>1, <3>3, <3>4
    <3> QED BY <3>1, <3>2, <3>3, <3>4
  <2> PICK p \in Nat : p = pos + 1
    BY MarksOfFeed
  <2>3. MarkedUpTo(p)'
    <3>1. Marks' = Marks
      BY <1>1, SameFeed
    <3> QED BY <1>1, <1>2, <2>2, <3>1 DEF MarkedUpTo, InBlock
  <2>4. p = pos' /\ ~pending'.open
    BY <1>1, <2>1
  <2> QED BY <2>3, <2>4 DEF PendingIsRead
<1>4. EndedAreUsable'
  <2>1. Usable(b) /\ DatesAreDates(b[1] + 1, b[2] - 1)
    BY <1>1, <1>2 DEF Usable
  <2>2. \A c \in Ended : DatesAreDates(c[1] + 1, c[2] - 1) /\ Usable(c)
    BY DEF Keeps, EndedAreUsable
  <2>3. \A c \in Ended' : DatesAreDates(c[1] + 1, c[2] - 1) /\ Usable(c)
    BY <1>2, <2>1, <2>2
  <2> QED BY <1>1, <2>3, SameFeed DEF EndedAreUsable
<1>5. FoundIsCounted'
  <2> DEFINE New == Ended \cup {b}
  <2>1. /\ FoundIsCounted' <=>
            /\ DOMAIN found' = {KeyOf(c) : c \in Counted(New)}
            /\ \A c \in Counted(New) :
                 (\A d \in Counted(New) : KeyOf(d) = KeyOf(c) => d[1] <= c[1])
                   => found'[KeyOf(c)] = RangeOf(c)
            /\ Cardinality(DOMAIN found') <= MaxEvents
    <3>1. Counted(Ended)' = Counted(New)
      BY <1>1, <1>2, SameFeed DEF Counted
    <3>2. {KeyOf(c) : c \in Counted(Ended)}' = {KeyOf(c) : c \in Counted(New)}
      BY <1>1, <3>1, SameFeed
    <3> QED BY <1>1, <3>1, <3>2, SameFeed DEF FoundIsCounted
  <2>2. /\ DOMAIN found = {KeyOf(c) : c \in Counted(Ended)}
        /\ \A c \in Counted(Ended) :
             (\A d \in Counted(Ended) : KeyOf(d) = KeyOf(c) => d[1] <= c[1])
               => found[KeyOf(c)] = RangeOf(c)
        /\ Cardinality(DOMAIN found) <= MaxEvents
    BY DEF Keeps, FoundIsCounted
  <2>3. CASE pending.cancelled
    <3>1. Counted(New) = Counted(Ended)
      BY <1>2, <2>3 DEF Counted
    <3>2. found' = found
      BY <1>1, <2>3
    <3> QED BY <2>1, <2>2, <3>1, <3>2
  <2>4. CASE ~pending.cancelled
    <3>1. Counted(New) = Counted(Ended) \cup {b}
      BY <1>2, <2>4 DEF Counted
    <3>2. /\ DOMAIN found' = DOMAIN found \cup {KeyOf(b)}
          /\ found'[KeyOf(b)] = RangeOf(b)
          /\ \A k \in DOMAIN found : k # KeyOf(b) => found'[k] = found[k]
      BY <1>1, <1>2, <2>4, AddedEvent
    <3>3. \A c \in Counted(Ended) : c[1] < b[1] /\ c[1] \in Nat /\ b[1] \in Nat
      BY <1>2, Block DEF Counted, Ended
    <3>4. DOMAIN found' = {KeyOf(c) : c \in Counted(New)}
      BY <2>2, <3>1, <3>2
    <3>5. ASSUME NEW c \in Counted(New),
                 \A d \in Counted(New) : KeyOf(d) = KeyOf(c) => d[1] <= c[1]
          PROVE  found'[KeyOf(c)] = RangeOf(c)
      <4>1. CASE c = b
        BY <3>2, <4>1
      <4>2. CASE c \in Counted(Ended)
        <5>1. KeyOf(c) # KeyOf(b)
          <6>1. c[1] < b[1] /\ c[1] \in Nat /\ b[1] \in Nat
            BY <3>3, <4>2
          <6>2. b \in Counted(New)
            BY <3>1
          <6> QED BY <3>5, <6>1, <6>2
        <5>2. found[KeyOf(c)] = RangeOf(c)
          BY <2>2, <3>1, <3>5, <4>2
        <5>3. KeyOf(c) \in DOMAIN found
          BY <2>2, <4>2
        <5> QED BY <3>2, <5>1, <5>2, <5>3
      <4> QED BY <3>1, <4>1, <4>2
    <3>6. Cardinality(DOMAIN found') <= MaxEvents
      <4>1. Cardinality({KeyOf(c) : c \in Counted(New)}) \in Nat
        <5>1. Counted(New) \in SUBSET Blocks
          BY DEF Counted, Ended
        <5> QED BY <5>1, Finite
      <4>2. ~(Cardinality(DOMAIN found') > MaxEvents)
        BY <1>1, <2>4
      <4> HIDE DEF New
      <4> QED BY <3>4, <4>1, <4>2 DEF FormatAssumption
    <3> QED BY <2>1, <3>4, <3>5, <3>6
  <2> QED BY <2>3, <2>4
<1> QED BY <1>1, <1>3, <1>4, <1>5 DEF Keeps

LEMMA Unfinished ==
  ASSUME FormatAssumption, TypeOK, Keeps, FinishEvent, parse' = "failed", parse = "reading"
  PROVE  ~Legible \/ Cardinality(Kept) > MaxEvents
<1>1. /\ pos < Len(lines) /\ pos' = pos + 1 /\ UNCHANGED lines /\ IsEnd(pos + 1)
  BY DEF FinishEvent, Reading, IsEnd
<1>2. CASE ~pending.open
  BY <1>1, <1>2, EndsTwice
<1>3. CASE pending.open
  <2>1. PICK b \in Blocks :
          /\ Ended' = Ended \cup {b}
          /\ EventKey(pending) = KeyOf(b)
          /\ pending.cancelled <=> IsCancelled(b)
          /\ Unusable(pending) /\ ~IsCancelled(b) => ~Usable(b)
    BY <1>1, <1>3, Ending
  <2>2. CASE ~pending.cancelled /\ Unusable(pending)
    BY <2>1, <2>2 DEF Legible
  <2>3. CASE ~(~pending.cancelled /\ Unusable(pending))
    <3>1. ~pending.cancelled /\ Cardinality(DOMAIN Added(pending)) > MaxEvents
      BY <1>3, <2>3 DEF FinishEvent
    <3>2. DOMAIN Added(pending) = {KeyOf(c) : c \in Counted(Ended \cup {b})}
      <4>1. Counted(Ended \cup {b}) = Counted(Ended) \cup {b}
        BY <2>1, <3>1 DEF Counted
      <4>2. DOMAIN Added(pending) = {KeyOf(c) : c \in Counted(Ended)} \cup {KeyOf(b)}
        BY <1>3, <2>1, AddedEvent DEF Keeps, FoundIsCounted
      <4> QED BY <4>1, <4>2
    <3>3. Ended \cup {b} \in SUBSET Blocks
      BY DEF Ended
    <3> QED BY <3>1, <3>2, <3>3, TooMany
  <2> QED BY <2>2, <2>3
<1> QED BY <1>2, <1>3


-----------------------------------------------------------------------------
(* The end of a feed, and one that is cut short.                           *)

LEMMA KeepsWhole ==
  ASSUME UNCHANGED <<lines, pos, pending, found>>, TypeOK, Keeps
  PROVE  Keeps'
<1>1. Ended' = Ended
  BY SameFeed DEF Ended
<1>2. \A last : MarkedUpTo(last)' <=> MarkedUpTo(last)
  BY <1>1, SameFeed DEF MarkedUpTo, InBlock
<1> PICK p \in Nat : p = pos
  BY MarksOfFeed
<1>3. CASE ~pending.open
  <2>1. MarkedUpTo(p)' /\ p = pos'
    BY <1>2, <1>3 DEF Keeps, PendingIsRead
  <2>2. PendingIsRead'
    BY <1>3, <2>1 DEF PendingIsRead
  <2> QED BY <1>1, <2>2, EndedKept DEF Keeps
<1>4. CASE pending.open
  <2>1. PICK s \in Marks : /\ IsBegin(s) /\ s <= pos /\ MarkedUpTo(s - 1)
                           /\ \A i \in Marks : ~(s < i /\ i <= pos)
                           /\ pending = EventIn(s + 1, pos) /\ DatesAreDates(s + 1, pos)
    BY <1>4 DEF Keeps, PendingIsRead
  <2>2. /\ s \in Marks' /\ IsBegin(s)' /\ s <= p /\ MarkedUpTo(s - 1)'
        /\ \A i \in Marks' : ~(s < i /\ i <= p)
        /\ pending = EventIn(s + 1, p)' /\ DatesAreDates(s + 1, p)'
    BY <1>2, <2>1, SameFeed DEF IsBegin
  <2>3. p = pos' /\ pending' = pending
    OBVIOUS
  <2>4. PendingIsRead'
    BY <1>4, <2>2, <2>3 DEF PendingIsRead
  <2> QED BY <1>1, <2>4, EndedKept DEF Keeps
<1> QED BY <1>3, <1>4

LEMMA CutShort ==
  ASSUME TypeOK, Keeps, Cut
  PROVE  Keeps'
<1>1. /\ lines' = SubSeq(lines, 1, pos) /\ UNCHANGED <<pos, pending, found>>
      /\ pos \in Nat /\ pos <= Len(lines)
  BY MarksOfFeed DEF Cut
<1>2. /\ DOMAIN lines' = 1..pos /\ \A i \in 1..pos : lines'[i] = lines[i]
  <2>1. lines \in Seq(Lines) /\ 1..pos \subseteq 1..Len(lines)
    BY <1>1 DEF TypeOK
  <2> QED BY <1>1, <2>1
<1>3. Marks' = {i \in Marks : i <= pos}
  <2>1. \A i \in 1..pos : /\ i \in DOMAIN lines
                          /\ IsBegin(i)' <=> IsBegin(i)
                          /\ IsEnd(i)' <=> IsEnd(i)
    BY <1>1, <1>2, MarksOfFeed DEF IsBegin, IsEnd
  <2>2. \A i \in Marks : i <= pos => i \in 1..pos
    BY <1>1, MarksOfFeed
  <2> QED BY <1>1, <1>2, <2>1, <2>2 DEF Marks
<1>4. \A i \in Marks' : (IsBegin(i)' <=> IsBegin(i)) /\ (IsEnd(i)' <=> IsEnd(i))
  BY <1>1, <1>2, <1>3, MarksOfFeed DEF IsBegin, IsEnd
<1>5. Blocks' = Ended
  <2>1. ASSUME NEW b \in Marks' \X Marks' PROVE b \in Blocks' <=> b \in Blocks
    <3>1. b[1] \in Marks /\ b[2] \in Marks /\ b[2] <= pos /\ b[1] \in Marks' /\ b[2] \in Marks'
          /\ b[2] \in Nat /\ b \in Marks \X Marks
      BY <1>3, MarksOfFeed
    <3>2. (\E i \in Marks' : b[1] < i /\ i < b[2]) <=> (\E i \in Marks : b[1] < i /\ i < b[2])
      <4>1. \A i \in Marks : i < b[2] => i <= pos
        BY <1>1, <3>1, MarksOfFeed
      <4> QED BY <1>3, <4>1
    <3> QED BY <1>4, <3>1, <3>2 DEF Blocks
  <2>2. \A b \in Blocks' : b \in Marks' \X Marks' /\ b[2] <= pos
    BY <1>3 DEF Blocks
  <2>3. \A b \in Ended : b \in Blocks /\ b \in Marks' \X Marks'
    <3> TAKE b \in Ended
    <3>1. b \in Blocks /\ b[2] <= pos
      BY DEF Ended
    <3>2. b = <<b[1], b[2]>> /\ b[1] \in Marks /\ b[2] \in Marks /\ b[1] <= pos
      BY <1>1, <3>1, Block
    <3> QED BY <1>3, <3>1, <3>2
  <2> QED BY <2>1, <2>2, <2>3 DEF Ended
<1>6. Ended' = Ended
  BY <1>1, <1>5 DEF Ended
<1>7. ASSUME NEW b \in Ended
      PROVE  /\ KeyOf(b)' = KeyOf(b) /\ RangeOf(b)' = RangeOf(b)
             /\ IsCancelled(b)' <=> IsCancelled(b)
             /\ Usable(b)' <=> Usable(b)
             /\ DatesAreDates(b[1] + 1, b[2] - 1)' <=> DatesAreDates(b[1] + 1, b[2] - 1)
  <2>1. b \in Blocks /\ b[2] <= pos
    BY DEF Ended
  <2>2. b[1] + 1 \in Nat /\ b[2] - 1 \in Int /\ \A i \in (b[1] + 1)..(b[2] - 1) : i \in 1..pos
    BY <1>1, <2>1, Block
  <2>3. \A i \in (b[1] + 1)..(b[2] - 1) : lines'[i] = lines[i]
    BY <1>2, <2>2
  <2> PICK f \in Nat : f = b[1] + 1
    BY <2>2
  <2> PICK l \in Int : l = b[2] - 1
    BY <2>2
  <2>4. /\ \A name : /\ LastLine(f, l, name)' = LastLine(f, l, name)
                     /\ Named(f, l, name)' = Named(f, l, name)
        /\ DatesAreDates(f, l)' <=> DatesAreDates(f, l)
    BY <2>3, SameLines
  <2>5. \A name : Field(b, name)' = Field(b, name)
    BY <2>4 DEF Field
  <2>6. KeyOf(b)' = KeyOf(b) /\ RangeOf(b)' = RangeOf(b) /\ (IsCancelled(b)' <=> IsCancelled(b))
    BY <2>5 DEF KeyOf, RangeOf, IsCancelled
  <2> QED BY <2>4, <2>5, <2>6 DEF Usable
<1>8. EndedAreUsable'
  BY <1>6, <1>7 DEF Keeps, EndedAreUsable
<1>9. FoundIsCounted'
  <2>1. Counted(Ended)' = Counted(Ended) /\ Counted(Ended) \subseteq Ended
    BY <1>6, <1>7 DEF Counted
  <2>2. {KeyOf(b) : b \in Counted(Ended)}' = {KeyOf(b) : b \in Counted(Ended)}
    BY <1>7, <2>1
  <2> QED BY <1>1, <1>7, <2>1, <2>2 DEF Keeps, FoundIsCounted
<1>10. ASSUME NEW last, last <= pos, last \in Int, MarkedUpTo(last) PROVE MarkedUpTo(last)'
  BY <1>3, <1>6, <1>10 DEF MarkedUpTo, InBlock
<1>11. PendingIsRead'
  <2> PICK p \in Nat : p = pos
    BY <1>1
  <2>1. CASE ~pending.open
    <3>1. MarkedUpTo(p)' /\ p = pos'
      BY <1>1, <1>10, <2>1 DEF Keeps, PendingIsRead
    <3> QED BY <1>1, <2>1, <3>1 DEF PendingIsRead
  <2>2. CASE pending.open
    <3>1. PICK s \in Marks : /\ IsBegin(s) /\ s <= pos /\ MarkedUpTo(s - 1)
                             /\ \A i \in Marks : ~(s < i /\ i <= pos)
                             /\ pending = EventIn(s + 1, pos) /\ DatesAreDates(s + 1, pos)
      BY <2>2 DEF Keeps, PendingIsRead
    <3>2. s \in Nat /\ s + 1 \in Nat /\ s - 1 \in Int /\ s - 1 <= pos
          /\ \A i \in (s + 1)..p : i \in 1..pos
      BY <1>1, <3>1, MarksOfFeed
    <3>3. EventIn(s + 1, p)' = EventIn(s + 1, p) /\ (DatesAreDates(s + 1, p)' <=> DatesAreDates(s + 1, p))
      <4>1. \A i \in (s + 1)..p : lines'[i] = lines[i]
        BY <1>2, <3>2
      <4> QED BY <3>2, <4>1, SameLines
    <3>4. MarkedUpTo(s - 1)'
      BY <1>10, <3>1, <3>2
    <3>5. s \in Marks' /\ IsBegin(s)' /\ \A i \in Marks' : ~(s < i /\ i <= p)
      BY <1>3, <1>4, <3>1
    <3>6. p = pos' /\ pending' = pending
      BY <1>1
    <3> QED BY <2>2, <3>1, <3>3, <3>4, <3>5, <3>6 DEF PendingIsRead
  <2> QED BY <2>1, <2>2
<1> QED BY <1>8, <1>9, <1>11 DEF Keeps


-----------------------------------------------------------------------------
(* Every step.                                                             *)

LEMMA TypeStep ==
  ASSUME TypeOK, Next
  PROVE  TypeOK'
<1>1. pos \in Nat /\ Len(lines) \in Nat /\ pos <= Len(lines) /\ lines \in Seq(Lines)
      /\ parse \in {"received", "reading", "parsed", "failed"} /\ exported \subseteq 1..LastNight
      /\ envelope \in {"calendar", "other", "large"}
      /\ pending \in [open : BOOLEAN, uid : LineTexts, recurrenceId : LineTexts,
                      startsOn : Dates \cup {Missing}, endsOn : Dates \cup {Missing},
                      cancelled : BOOLEAN, recurring : BOOLEAN]
      /\ \A k \in DOMAIN found : found[k].startsOn \in Dates /\ found[k].endsOn \in Dates
  BY DEF TypeOK
<1> DEFINE Pending == [open : BOOLEAN, uid : LineTexts, recurrenceId : LineTexts,
                       startsOn : Dates \cup {Missing}, endsOn : Dates \cup {Missing},
                       cancelled : BOOLEAN, recurring : BOOLEAN]
           Whole == \A k \in DOMAIN found' : found'[k].startsOn \in Dates /\ found'[k].endsOn \in Dates
<1>2. NoText \in LineTexts /\ Missing \in Dates \cup {Missing}
  BY DEF LineTexts
<1>3. Blank(TRUE) \in Pending /\ NoEvent \in Pending
  BY <1>2 DEF Blank, NoEvent
<1>4. ASSUME pos < Len(lines) PROVE Text \in LineTexts
  BY <1>1, <1>4, LineTypes DEF Text
<1>5. CASE ParseICalendar \/ FinishFeed \/ Cut
  <2>1. CASE ParseICalendar \/ FinishFeed
    BY <1>1, <2>1 DEF ParseICalendar, FinishFeed, TypeOK
  <2>2. CASE Cut
    <3>1. /\ lines' = SubSeq(lines, 1, pos)
          /\ UNCHANGED <<exported, envelope, pos, pending, found, parse>>
      BY <2>2 DEF Cut
    <3>2. lines' \in Seq(Lines) /\ Len(lines') = pos
      <4>1. \A i \in 1..pos : lines[i] \in Lines
        BY <1>1
      <4> QED BY <1>1, <3>1, <4>1
    <3> QED BY <1>1, <3>1, <3>2 DEF TypeOK
  <2> QED BY <1>5, <2>1, <2>2
<1>6. CASE BeginEvent \/ FinishEvent \/ ReadText \/ ReadDate
  <2>1. pos < Len(lines) /\ pos' = pos + 1 /\ UNCHANGED <<exported, envelope, lines>>
    BY <1>6 DEF BeginEvent, FinishEvent, ReadText, ReadDate, Reading
  <2>2. pending' \in Pending /\ Whole /\ parse' \in {"received", "reading", "parsed", "failed"}
    <3>1. CASE BeginEvent
      BY <1>1, <1>3, <3>1 DEF BeginEvent, Fail
    <3>2. CASE FinishEvent
      <4>1. CASE UNCHANGED found
        BY <1>1, <1>3, <3>2, <4>1 DEF FinishEvent, Fail
      <4>2. CASE found' = Added(pending) /\ ~Unusable(pending) /\ pending' = NoEvent /\ parse' = parse
        <5>1. pending.startsOn \in Dates /\ pending.endsOn \in Dates
          BY <1>1, <4>2 DEF Unusable
        <5> DEFINE key == EventKey(pending)
                   dates == [startsOn |-> pending.startsOn, endsOn |-> pending.endsOn]
        <5>2. /\ DOMAIN found' = DOMAIN found \cup {key}
              /\ \A k \in DOMAIN found \cup {key} :
                   found'[k] = IF k = key THEN dates ELSE found[k]
          BY <4>2 DEF Added
        <5>3. dates.startsOn \in Dates /\ dates.endsOn \in Dates
          BY <5>1
        <5>4. Whole
          <6> HIDE DEF key, dates
          <6> QED BY <1>1, <5>2, <5>3
        <5> QED BY <1>1, <1>3, <4>2, <5>4
      <4>3. \/ UNCHANGED found
            \/ found' = Added(pending) /\ ~Unusable(pending) /\ pending' = NoEvent /\ parse' = parse
        BY <3>2 DEF FinishEvent, Fail
      <4> QED BY <4>1, <4>2, <4>3
    <3>3. CASE ReadText
      <4>1. UNCHANGED <<found, parse>>
            /\ \/ pending' = pending \/ pending' = [pending EXCEPT !["uid"] = Text]
               \/ pending' = [pending EXCEPT !["recurrenceId"] = Text]
               \/ pending' = [pending EXCEPT !["cancelled"] = (Text = Cancelled)]
               \/ pending' = [pending EXCEPT !["recurring"] = TRUE]
        BY <3>3 DEF ReadText, Note
      <4>2. Text \in LineTexts
        BY <1>4, <2>1
      <4>3. pending' \in Pending
        BY <1>1, <4>1, <4>2
      <4> QED BY <1>1, <4>1, <4>3
    <3>4. CASE ReadDate
      <4>1. UNCHANGED found /\ (UNCHANGED parse \/ parse' = "failed")
            /\ \/ pending' = pending
               \/ Date \in Dates /\ pending' = [pending EXCEPT !["startsOn"] = Date]
               \/ Date \in Dates /\ pending' = [pending EXCEPT !["endsOn"] = Date]
        BY <3>4 DEF ReadDate, ParseCalendarDate, Fail, Note
      <4>2. pending' \in Pending
        BY <1>1, <4>1
      <4> QED BY <1>1, <4>1, <4>2
    <3> QED BY <1>6, <3>1, <3>2, <3>3, <3>4
  <2>3. pos' \in 0..Len(lines')
    BY <1>1, <2>1
  <2> QED BY <1>1, <2>1, <2>2, <2>3 DEF TypeOK
<1> QED BY <1>5, <1>6 DEF Next

LEMMA InvStep ==
  ASSUME FormatAssumption, Inv, [Next]_formatVars
  PROVE  Inv'
<1>1. TypeOK /\ (exported # {} => lines = BuildCalendar(exported))
      /\ (parse # "failed" => Keeps)
      /\ (parse \in {"reading", "parsed"} => envelope = "calendar")
      /\ (parse = "parsed" => pos = Len(lines) /\ ~pending.open)
      /\ (parse = "failed" => ~Legible \/ Cardinality(Kept) > MaxEvents)
  BY DEF Inv, Keeps
<1>2. ASSUME UNCHANGED <<lines, envelope>>
      PROVE  (Legible' <=> Legible) /\ Kept' = Kept
  BY <1>1, <1>2, SameFeed DEF Legible, InBlock, Kept, Counted
<1>3. CASE UNCHANGED formatVars
  <2>1. UNCHANGED <<exported, envelope, lines, pos, pending, found, parse>>
    BY <1>3 DEF formatVars
  <2>2. Keeps => Keeps'
    BY <1>1, <2>1, KeepsWhole
  <2>3. TypeOK'
    BY <1>1, <2>1 DEF TypeOK
  <2> QED BY <1>1, <1>2, <2>1, <2>2, <2>3 DEF Inv, Keeps
<1>4. CASE Next
  <2> USE <1>4
  <2>0. CASE ParseICalendar
    <3>1. /\ UNCHANGED <<exported, envelope, lines, pos, pending, found>> /\ parse = "received"
          /\ parse' = IF envelope = "calendar" THEN "reading" ELSE "failed"
      BY <2>0 DEF ParseICalendar
    <3>2. TypeOK' /\ Keeps'
      BY <1>1, <3>1, TypeStep, KeepsWhole
    <3>3. envelope # "calendar" => ~Legible
      BY DEF Legible
    <3> QED BY <1>1, <1>2, <3>1, <3>2, <3>3 DEF Inv, Keeps
  <2> SUFFICES ASSUME ~ParseICalendar PROVE Inv'
    BY <2>0
  <2>1. TypeOK /\ TypeOK' /\ parse = "reading" /\ Keeps /\ envelope = "calendar"
    BY <1>1, <1>4, TypeStep
       DEF Next, BeginEvent, FinishEvent, ReadText, ReadDate, FinishFeed, Cut, Reading
  <2>2. ASSUME UNCHANGED <<exported, envelope, lines>>, parse' = "reading", Keeps' PROVE Inv'
    BY <1>1, <2>1, <2>2 DEF Inv, Keeps
  <2>3. ASSUME UNCHANGED <<exported, envelope, lines>>, parse' = "failed",
               ~Legible \/ Cardinality(Kept) > MaxEvents
        PROVE  Inv'
    BY <1>1, <1>2, <2>1, <2>3 DEF Inv
  <2>4. CASE BeginEvent
    <3>1. CASE pending.open
      BY <2>1, <2>3, <2>4, <3>1, BeginsTwice DEF BeginEvent, Reading, Fail, IsBegin
    <3>2. CASE ~pending.open
      BY <2>1, <2>2, <2>4, <3>2, Begins DEF BeginEvent, Reading
    <3> QED BY <3>1, <3>2
  <2>5. CASE FinishEvent
    <3>1. UNCHANGED <<exported, envelope, lines>>
      BY <2>5 DEF FinishEvent, Reading
    <3>2. CASE parse' = "failed"
      BY <2>1, <2>3, <2>5, <3>1, <3>2, Unfinished
    <3>3. CASE parse' # "failed"
      BY <2>1, <2>2, <2>5, <3>1, <3>3, Finished
    <3> QED BY <3>2, <3>3
  <2>6. CASE ReadText
    BY <2>1, <2>2, <2>6, TextRead
  <2>7. CASE ReadDate
    <3>1. CASE pending.open /\ Date \notin Dates
      <4>1. /\ UNCHANGED <<exported, envelope, lines>> /\ parse' = "failed" /\ pos < Len(lines)
            /\ lines[pos + 1].name \in {"DTSTART", "DTEND"} /\ lines[pos + 1].date \notin Dates
        BY <2>7, <3>1 DEF ReadDate, Reading, ParseCalendarDate, Fail, Date
      <4> QED BY <2>1, <2>3, <3>1, <4>1, NoDate
    <3>2. CASE ~(pending.open /\ Date \notin Dates)
      BY <2>1, <2>2, <2>7, <3>2, DateRead
    <3> QED BY <3>1, <3>2
  <2>8. CASE FinishFeed
    <3>1. /\ UNCHANGED <<exported, envelope, lines, pos, pending, found>> /\ pos = Len(lines)
          /\ parse' = IF pending.open THEN "failed" ELSE "parsed"
      BY <2>8 DEF FinishFeed
    <3>2. CASE pending.open
      BY <2>1, <2>3, <3>1, <3>2, OpenAtEnd
    <3>3. CASE ~pending.open
      <4>1. Keeps'
        BY <2>1, <3>1, KeepsWhole
      <4>2. parse' = "parsed" /\ pos' = Len(lines)' /\ ~pending'.open
        BY <3>1, <3>3
      <4> QED BY <1>1, <2>1, <3>1, <4>1, <4>2 DEF Inv, Keeps
    <3> QED BY <3>2, <3>3
  <2>9. CASE Cut
    <3>1. Keeps'
      BY <2>1, <2>9, CutShort
    <3>2. exported' = {} /\ parse' = "reading" /\ envelope' = envelope
      BY <2>9 DEF Cut
    <3> QED BY <2>1, <3>1, <3>2 DEF Inv, Keeps
  <2> QED BY <1>4, <2>1, <2>4, <2>5, <2>6, <2>7, <2>8, <2>9 DEF Next
<1> QED BY <1>3, <1>4


-----------------------------------------------------------------------------
(* The ranges HOST writes.                                                 *)

(* Counting the places below one numbers them all.                         *)
LEMMA Ranks ==
  ASSUME NEW S \in SUBSET Nat, IsFiniteSet(S)
  PROVE  /\ Cardinality(S) \in Nat
         /\ \A i \in 1..Cardinality(S) : Nth(S, i) \in S
         /\ \A s \in S : \E i \in 1..Cardinality(S) : Nth(S, i) = s
         /\ \A i, j \in 1..Cardinality(S) : Nth(S, i) = Nth(S, j) => i = j
<1> DEFINE B(s) == {t \in S : t < s}
           n == Cardinality(S)
           place == [s \in S |-> Cardinality(B(s)) + 1]
<1>1. n \in Nat
  BY FS_CardinalityType
<1>2. ASSUME NEW s \in S
      PROVE  IsFiniteSet(B(s)) /\ Cardinality(B(s)) \in Nat /\ Cardinality(B(s)) + 1 <= n
  <2>1. B(s) \in SUBSET S /\ B(s) # S
    OBVIOUS
  <2>2. IsFiniteSet(B(s)) /\ Cardinality(B(s)) <= n /\ Cardinality(B(s)) # n
    BY <2>1, FS_Subset
  <2> HIDE DEF B, n
  <2> QED BY <1>1, <2>2, FS_CardinalityType
<1>3. ASSUME NEW r \in S, NEW s \in S, r < s
      PROVE  Cardinality(B(r)) < Cardinality(B(s))
  <2>1. B(r) \cup {r} \in SUBSET B(s) /\ r \notin B(r)
    <3>1. \A t \in S : t < r => t < s
      BY <1>3
    <3>2. \A t \in B(r) \cup {r} : t \in B(s)
      BY <1>3, <3>1
    <3>3. r \notin B(r)
      OBVIOUS
    <3> HIDE DEF B
    <3> QED BY <3>2, <3>3
  <2>2. Cardinality(B(r) \cup {r}) = Cardinality(B(r)) + 1
    BY <1>2, <2>1, FS_AddElement
  <2>3. Cardinality(B(r) \cup {r}) <= Cardinality(B(s))
    BY <1>2, <2>1, FS_Subset
  <2> HIDE DEF B
  <2> QED BY <1>2, <2>2, <2>3
<1>4. ASSUME NEW r \in S, NEW s \in S, Cardinality(B(r)) = Cardinality(B(s)) PROVE r = s
  <2>1. ~(r < s) /\ ~(s < r)
    <3> HIDE DEF B
    <3> QED BY <1>2, <1>3, <1>4
  <2> QED BY <2>1
<1>5. place \in Injection(S, 1..n)
  <2>1. place \in [S -> 1..n]
    <3> HIDE DEF n, B
    <3> QED BY <1>1, <1>2
  <2>2. ASSUME NEW r \in S, NEW s \in S, place[r] = place[s] PROVE r = s
    <3> HIDE DEF B
    <3> QED BY <1>2, <1>4, <2>2
  <2> HIDE DEF place, n
  <2> QED BY <2>1, <2>2 DEF Injection, IsInjective
<1>6. place \in Surjection(S, 1..n)
  <2>1. IsFiniteSet(1..n) /\ Cardinality(1..n) = n
    BY <1>1, FS_Interval
  <2> HIDE DEF place
  <2> QED BY <1>5, <2>1, FS_Injection
<1>7. ASSUME NEW i \in 1..n PROVE Nth(S, i) \in S /\ Cardinality(B(Nth(S, i))) = i - 1
  <2>1. PICK s \in S : place[s] = i
    BY <1>6 DEF Surjection
  <2>2. Cardinality(B(s)) = i - 1
    <3> HIDE DEF B
    <3> QED BY <1>2, <2>1
  <2> QED BY <2>2 DEF Nth
<1>8. ASSUME NEW s \in S PROVE \E i \in 1..n : Nth(S, i) = s
  <2> DEFINE i == Cardinality(B(s)) + 1
  <2>1. i \in 1..n /\ i - 1 = Cardinality(B(s))
    <3> HIDE DEF B, n
    <3> QED BY <1>1, <1>2
  <2>2. Nth(S, i) \in S /\ Cardinality(B(Nth(S, i))) = Cardinality(B(s))
    <3> HIDE DEF B, i
    <3> QED BY <1>7, <2>1
  <2>3. Nth(S, i) = s
    <3> HIDE DEF B, i
    <3> QED BY <1>4, <2>2
  <2> QED BY <2>1, <2>3
<1>9. ASSUME NEW i \in 1..n, NEW j \in 1..n, Nth(S, i) = Nth(S, j) PROVE i = j
  <2>1. i - 1 = j - 1
    <3> HIDE DEF B
    <3> QED BY <1>7, <1>9
  <2> QED BY <1>1, <2>1
<1> QED BY <1>1, <1>7, <1>8, <1>9

(* Every range is a run of nights from a start to the last before the next.*)
LEMMA RunHasNoGap ==
  ASSUME FormatAssumption, NEW dates \in SUBSET (1..LastNight), NEW s \in Starts(dates)
  PROVE  /\ s \in dates /\ Latest(Run(dates, s)) \in dates /\ s <= Latest(Run(dates, s))
         /\ s..Latest(Run(dates, s)) \subseteq dates
         /\ \A d \in Run(dates, s) : d <= Latest(Run(dates, s))
<1> USE DEF FormatAssumption
<1> DEFINE last == Latest(Run(dates, s))
<1>1. s \in Run(dates, s) /\ s \in dates /\ Run(dates, s) \subseteq dates /\ dates \in SUBSET Nat
      /\ \A d \in dates : d <= LastNight
  BY DEF Run, Starts
<1>2. last \in Run(dates, s) /\ \A d \in Run(dates, s) : d <= last
  BY <1>1, LatestIsLast
<1>3. last \in dates /\ s <= last /\ \A t \in Starts(dates) : t <= last => t <= s
  BY <1>2 DEF Run
<1>4. ASSUME NEW x \in s..last, x \notin dates PROVE FALSE
  <2> HIDE DEF last
  <2> DEFINE after == {d \in dates : x < d}
  <2>1. last \in after /\ after \in SUBSET Nat
    <3>1. last \in Nat /\ x \in Nat /\ x <= last /\ x # last
      BY <1>1, <1>3, <1>4
    <3>2. x < last
      BY <3>1
    <3> QED BY <1>1, <1>3, <3>2
  <2>2. PICK d \in after : \A e \in after : d <= e
    <3> HIDE DEF after
    <3> QED BY <2>1, Least
  <2>3. d \in dates /\ x < d /\ d <= last /\ d \in Nat /\ x \in Nat /\ s < d
    BY <1>1, <2>1, <2>2
  <2>4. d \in Starts(dates)
    <3>1. \A p \in dates : p < d => p < x /\ p \in Nat
      BY <1>1, <1>4, <2>2, <2>3
    <3> QED BY <2>3, <3>1 DEF Starts, Adjoins
  <2> QED BY <1>1, <1>3, <2>3, <2>4
<1> QED BY <1>1, <1>2, <1>3, <1>4

(* The runs hold every night.                                              *)
LEMMA RunsCover ==
  ASSUME FormatAssumption, NEW dates \in SUBSET (1..LastNight), NEW d \in dates
  PROVE  \E s \in Starts(dates) : d \in s..Latest(Run(dates, s))
<1> USE DEF FormatAssumption
<1>1. dates \in SUBSET Nat /\ \A e \in dates : e <= LastNight
  OBVIOUS
<1> DEFINE before == {t \in Starts(dates) : t <= d}
<1>2. before # {}
  <2>1. PICK m \in dates : \A e \in dates : m <= e
    BY <1>1, Least
  <2>2. m \in Starts(dates)
    BY <1>1, <2>1 DEF Starts
  <2> QED BY <2>1, <2>2
<1>3. PICK s \in before : \A t \in before : t <= s
  <2>1. before \in SUBSET Nat /\ \A t \in before : t <= d
    BY <1>1 DEF Starts
  <2> HIDE DEF before
  <2> QED BY <1>1, <1>2, <2>1, Greatest
<1>4. d \in Run(dates, s)
  BY <1>3 DEF Run
<1>5. s \in Starts(dates) /\ s <= d /\ s \in Nat
  BY <1>1, <1>3 DEF Starts
<1>6. d <= Latest(Run(dates, s)) /\ Latest(Run(dates, s)) \in Nat
  BY <1>1, <1>4, <1>5, RunHasNoGap
<1> QED BY <1>1, <1>5, <1>6


LEMMA GroupsCover ==
  ASSUME FormatAssumption, NEW dates \in SUBSET (1..LastNight)
  PROVE  LET g == GroupConsecutiveDates(dates)
             n == Cardinality(Starts(dates))
         IN
         /\ n \in Nat /\ g = [i \in 1..n |-> g[i]] /\ Len(g) = n
         /\ \A i \in 1..n : /\ g[i] = [startsOn |-> g[i].startsOn, endsOn |-> g[i].endsOn]
                            /\ g[i].startsOn \in Dates /\ g[i].endsOn \in Dates
                            /\ g[i].startsOn < g[i].endsOn
         /\ \A i, j \in 1..n : g[i].startsOn = g[j].startsOn => i = j
         /\ NightsIn({g[i] : i \in 1..n}) = dates
<1> USE DEF FormatAssumption
<1> DEFINE S == Starts(dates)
           n == Cardinality(S)
           g == GroupConsecutiveDates(dates)
<1>1. S \in SUBSET Nat /\ IsFiniteSet(S) /\ S \subseteq dates
  <2>1. IsFiniteSet(1..LastNight)
    BY FS_Interval
  <2>2. S \subseteq dates /\ S \subseteq 1..LastNight
    BY DEF Starts
  <2> QED BY <2>1, <2>2, FS_Subset
<1>2. /\ n \in Nat
      /\ \A i \in 1..n : Nth(S, i) \in S
      /\ \A s \in S : \E i \in 1..n : Nth(S, i) = s
      /\ \A i, j \in 1..n : Nth(S, i) = Nth(S, j) => i = j
  <2> HIDE DEF S
  <2> QED BY <1>1, Ranks
<1>3. g = [i \in 1..n |-> RangeFrom(dates, Nth(S, i))]
  BY DEF GroupConsecutiveDates
<1>4. Len(g) = n /\ (\A i \in 1..n : g[i] = RangeFrom(dates, Nth(S, i)))
      /\ g = [i \in 1..n |-> g[i]]
  <2> HIDE DEF g, n, S
  <2> QED BY <1>2, <1>3
<1>5. ASSUME NEW s \in S
      PROVE  /\ RangeFrom(dates, s).startsOn = s
             /\ RangeFrom(dates, s).endsOn = Latest(Run(dates, s)) + 1
             /\ RangeFrom(dates, s) = [startsOn |-> s, endsOn |-> Latest(Run(dates, s)) + 1]
             /\ s \in Dates /\ Latest(Run(dates, s)) + 1 \in Dates
             /\ s < Latest(Run(dates, s)) + 1
             /\ Latest(Run(dates, s)) \in Nat
  <2>1. s \in dates /\ Latest(Run(dates, s)) \in dates /\ s <= Latest(Run(dates, s))
    BY RunHasNoGap
  <2>2. /\ RangeFrom(dates, s) = [startsOn |-> s, endsOn |-> Latest(Run(dates, s)) + 1]
    BY DEF RangeFrom
  <2>3. s \in 1..LastNight /\ Latest(Run(dates, s)) \in 1..LastNight
    BY <2>1
  <2> QED BY <2>1, <2>2, <2>3 DEF Dates
<1>6. \A i \in 1..n : /\ g[i] = [startsOn |-> g[i].startsOn, endsOn |-> g[i].endsOn]
                      /\ g[i].startsOn \in Dates /\ g[i].endsOn \in Dates
                      /\ g[i].startsOn < g[i].endsOn
                      /\ g[i].startsOn = Nth(S, i)
  <2> TAKE i \in 1..n
  <2> DEFINE s == Nth(S, i)
  <2>1. s \in S /\ g[i] = RangeFrom(dates, s)
    BY <1>2, <1>4
  <2> HIDE DEF s, g, S
  <2>2. s = Nth(S, i)
    BY DEF s
  <2> QED BY <1>5, <2>1, <2>2
<1>7. \A i, j \in 1..n : g[i].startsOn = g[j].startsOn => i = j
  <2> HIDE DEF g, n, S
  <2>1. \A i \in 1..n : g[i].startsOn = Nth(S, i)
    BY <1>6
  <2> TAKE i, j \in 1..n
  <2>2. g[i].startsOn = Nth(S, i) /\ g[j].startsOn = Nth(S, j)
    BY <2>1
  <2> QED BY <1>2, <2>2
<1>8. NightsIn({g[i] : i \in 1..n}) = dates
  <2>1. ASSUME NEW d \in dates PROVE \E i \in 1..n : d \in g[i].startsOn..(g[i].endsOn - 1)
    <3>1. PICK s \in S : d \in s..Latest(Run(dates, s))
      BY RunsCover
    <3>2. PICK i \in 1..n : Nth(S, i) = s
      BY <1>2
    <3>3. g[i] = RangeFrom(dates, s)
      BY <1>4, <3>2
    <3>4. g[i].startsOn = s /\ g[i].endsOn - 1 = Latest(Run(dates, s))
      <4> HIDE DEF g, S
      <4> QED BY <1>5, <3>3
    <3> HIDE DEF g, n
    <3> QED BY <3>1, <3>4
  <2>2. ASSUME NEW i \in 1..n, NEW d \in g[i].startsOn..(g[i].endsOn - 1) PROVE d \in dates
    <3> DEFINE s == Nth(S, i)
    <3>1. s \in S /\ g[i] = RangeFrom(dates, s)
      BY <1>2, <1>4
    <3>2. g[i].startsOn = s /\ g[i].endsOn - 1 = Latest(Run(dates, s))
      <4> HIDE DEF g, S, s
      <4> QED BY <1>5, <3>1
    <3>3. s..Latest(Run(dates, s)) \subseteq dates
      <4> HIDE DEF s
      <4> QED BY <3>1, RunHasNoGap
    <3> HIDE DEF s, g
    <3> QED BY <2>2, <3>2, <3>3
  <2> HIDE DEF g, n
  <2> QED BY <2>1, <2>2 DEF NightsIn
<1> HIDE DEF g, n, S
<1>9. /\ n \in Nat /\ g = [i \in 1..n |-> g[i]] /\ Len(g) = n
      /\ \A i \in 1..n : /\ g[i] = [startsOn |-> g[i].startsOn, endsOn |-> g[i].endsOn]
                         /\ g[i].startsOn \in Dates /\ g[i].endsOn \in Dates
                         /\ g[i].startsOn < g[i].endsOn
  BY <1>2, <1>4, <1>6
<1> QED BY <1>7, <1>8, <1>9 DEF g, n, S

(* The lines of the events, six each.                                      *)
LEMMA CalendarLines ==
  ASSUME FormatAssumption, NEW dates \in SUBSET (1..LastNight)
  PROVE  LET g == GroupConsecutiveDates(dates)
             n == Cardinality(Starts(dates))
         IN
         /\ BuildCalendar(dates) \in Seq(Lines) /\ Len(BuildCalendar(dates)) = 6 * n
         /\ \A j \in 1..n :
              /\ BuildCalendar(dates)[6 * j - 5] = Begin
              /\ BuildCalendar(dates)[6 * j - 4] = Line("UID", <<g[j].startsOn, g[j].endsOn>>)
              /\ BuildCalendar(dates)[6 * j - 3] = DateLine("DTSTART", g[j].startsOn)
              /\ BuildCalendar(dates)[6 * j - 2] = DateLine("DTEND", g[j].endsOn)
              /\ BuildCalendar(dates)[6 * j - 1] = Line("STATUS", <<"CONFIRMED">>)
              /\ BuildCalendar(dates)[6 * j] = End
         /\ \A k \in 1..(6 * n) : \E j \in 1..n : k \in (6 * j - 5)..(6 * j)
<1> DEFINE n == Cardinality(Starts(dates))
           g == GroupConsecutiveDates(dates)
           c == BuildCalendar(dates)
<1>1. /\ n \in Nat /\ Len(g) = n
      /\ \A i \in 1..n : g[i].startsOn \in Dates /\ g[i].endsOn \in Dates
  BY GroupsCover
<1>2. c = [k \in 1..(6 * n) |-> EventLinesOf(g[((k - 1) \div 6) + 1])[((k - 1) % 6) + 1]]
  BY <1>1 DEF BuildCalendar
<1> HIDE DEF n, g, c
<1>3. ASSUME NEW k \in 1..(6 * n)
      PROVE  ((k - 1) \div 6) + 1 \in 1..n /\ ((k - 1) % 6) + 1 \in 1..6
             /\ k = 6 * ((k - 1) \div 6) + ((k - 1) % 6) + 1
  BY <1>1
<1>4. ASSUME NEW j \in 1..n
      PROVE  /\ EventLinesOf(g[j])[1] = Begin
             /\ EventLinesOf(g[j])[2] = Line("UID", <<g[j].startsOn, g[j].endsOn>>)
             /\ EventLinesOf(g[j])[3] = DateLine("DTSTART", g[j].startsOn)
             /\ EventLinesOf(g[j])[4] = DateLine("DTEND", g[j].endsOn)
             /\ EventLinesOf(g[j])[5] = Line("STATUS", <<"CONFIRMED">>)
             /\ EventLinesOf(g[j])[6] = End
  BY DEF EventLinesOf
<1>5. ASSUME NEW j \in 1..n, NEW o \in 1..6
      PROVE  EventLinesOf(g[j])[o] \in Lines
  <2>1. <<g[j].startsOn, g[j].endsOn>> \in LineTexts
    BY <1>1 DEF LineTexts
  <2>2. NoText \in LineTexts /\ <<"CONFIRMED">> \in LineTexts
    BY DEF LineTexts
  <2>3. /\ Begin \in Lines /\ End \in Lines /\ Line("STATUS", <<"CONFIRMED">>) \in Lines
        /\ Line("UID", <<g[j].startsOn, g[j].endsOn>>) \in Lines
    BY <2>1, <2>2 DEF Begin, End, Line, Lines
  <2>4. DateLine("DTSTART", g[j].startsOn) \in Lines /\ DateLine("DTEND", g[j].endsOn) \in Lines
    BY <1>1, <2>2 DEF DateLine, Lines
  <2>5. o = 1 \/ o = 2 \/ o = 3 \/ o = 4 \/ o = 5 \/ o = 6
    OBVIOUS
  <2> QED BY <1>4, <2>3, <2>4, <2>5
<1>6. c \in Seq(Lines) /\ Len(c) = 6 * n
  <2>1. \A k \in 1..(6 * n) : c[k] \in Lines
    BY <1>2, <1>3, <1>5
  <2>2. 6 * n \in Nat
    BY <1>1
  <2>3. c = [k \in 1..(6 * n) |-> c[k]]
    BY <1>2
  <2> QED BY <2>1, <2>2, <2>3
<1>7. ASSUME NEW j \in 1..n, NEW o \in 1..6
      PROVE  c[6 * j - 6 + o] = EventLinesOf(g[j])[o]
  <2> DEFINE k == 6 * j - 6 + o
  <2>1. k \in 1..(6 * n) /\ ((k - 1) \div 6) + 1 = j /\ ((k - 1) % 6) + 1 = o
    BY <1>1
  <2> HIDE DEF k
  <2>2. c[k] = EventLinesOf(g[j])[o]
    BY <1>2, <2>1
  <2> QED BY <2>2 DEF k
<1>8. ASSUME NEW j \in 1..n
      PROVE  /\ c[6 * j - 5] = Begin
             /\ c[6 * j - 4] = Line("UID", <<g[j].startsOn, g[j].endsOn>>)
             /\ c[6 * j - 3] = DateLine("DTSTART", g[j].startsOn)
             /\ c[6 * j - 2] = DateLine("DTEND", g[j].endsOn)
             /\ c[6 * j - 1] = Line("STATUS", <<"CONFIRMED">>)
             /\ c[6 * j] = End
  <2>1. /\ 6 * j - 6 + 1 = 6 * j - 5 /\ 6 * j - 6 + 2 = 6 * j - 4 /\ 6 * j - 6 + 3 = 6 * j - 3
        /\ 6 * j - 6 + 4 = 6 * j - 2 /\ 6 * j - 6 + 5 = 6 * j - 1 /\ 6 * j - 6 + 6 = 6 * j
    OBVIOUS
  <2>2. 1 \in 1..6 /\ 2 \in 1..6 /\ 3 \in 1..6 /\ 4 \in 1..6 /\ 5 \in 1..6 /\ 6 \in 1..6
    OBVIOUS
  <2>3. /\ c[6 * j - 6 + 1] = EventLinesOf(g[j])[1] /\ c[6 * j - 6 + 2] = EventLinesOf(g[j])[2]
        /\ c[6 * j - 6 + 3] = EventLinesOf(g[j])[3] /\ c[6 * j - 6 + 4] = EventLinesOf(g[j])[4]
        /\ c[6 * j - 6 + 5] = EventLinesOf(g[j])[5] /\ c[6 * j - 6 + 6] = EventLinesOf(g[j])[6]
    BY <1>7, <2>2
  <2> QED BY <1>4, <2>1, <2>3
<1>9. ASSUME NEW k \in 1..(6 * n) PROVE \E j \in 1..n : k \in (6 * j - 5)..(6 * j)
  <2> DEFINE j == ((k - 1) \div 6) + 1
  <2>1. j \in 1..n /\ k \in (6 * j - 5)..(6 * j)
    BY <1>1, <1>3
  <2> HIDE DEF j
  <2> QED BY <2>1
<1> QED BY <1>6, <1>8, <1>9 DEF n, g, c


-----------------------------------------------------------------------------
(* The feeds of the first state.                                           *)

LEMMA SomeLines ==
  /\ <<>> \in Seq(Lines)
  /\ \A name \in {"BEGIN:VEVENT", "UID", "RECURRENCE-ID", "STATUS", "RRULE", "END:VEVENT"},
        text \in LineTexts : <<Line(name, text)>> \in Seq(Lines)
  /\ \A name \in {"DTSTART", "DTEND"}, date \in LineDates : <<DateLine(name, date)>> \in Seq(Lines)
<1>1. \A name \in {"BEGIN:VEVENT", "UID", "RECURRENCE-ID", "STATUS", "RRULE", "END:VEVENT"},
         text \in LineTexts : Line(name, text) \in Lines
  BY DEF Line, Lines
<1>2. NoText \in LineTexts
  BY DEF LineTexts
<1>3. \A name \in {"DTSTART", "DTEND"}, date \in LineDates : DateLine(name, date) \in Lines
  BY <1>2 DEF DateLine, Lines, LineDates
<1>4. \A l \in Lines : <<l>> \in Seq(Lines)
  OBVIOUS
<1>5. <<>> \in Seq(Lines)
  OBVIOUS
<1>6. \A name \in {"BEGIN:VEVENT", "UID", "RECURRENCE-ID", "STATUS", "RRULE", "END:VEVENT"},
         text \in LineTexts : <<Line(name, text)>> \in Seq(Lines)
  BY <1>1, <1>4
<1>7. \A name \in {"DTSTART", "DTEND"}, date \in LineDates : <<DateLine(name, date)>> \in Seq(Lines)
  BY <1>3, <1>4
<1> QED BY <1>5, <1>6, <1>7

LEMMA LinesOfEvent ==
  ASSUME NEW e, e.uid \in LineTexts, e.recurrenceId \in LineTexts, e.startsOn \in LineDates,
         e.endsOn \in LineDates
  PROVE  EventLines(e) \in Seq(Lines)
<1> DEFINE a == IF e.uid = NoText THEN <<>> ELSE <<Line("UID", e.uid)>>
           b == IF e.recurrenceId = NoText THEN <<>> ELSE <<Line("RECURRENCE-ID", e.recurrenceId)>>
           c == IF e.startsOn = Missing THEN <<>> ELSE <<DateLine("DTSTART", e.startsOn)>>
           d == IF e.endsOn = Missing THEN <<>> ELSE <<DateLine("DTEND", e.endsOn)>>
           f == IF e.cancelled THEN <<Line("STATUS", Cancelled)>> ELSE <<>>
           g == IF e.recurring THEN <<Line("RRULE", NoText)>> ELSE <<>>
           h == IF e.open THEN <<>> ELSE <<End>>
<1>1. NoText \in LineTexts /\ Cancelled \in LineTexts
  BY DEF LineTexts
<1>2. <<>> \in Seq(Lines) /\ <<Begin>> \in Seq(Lines) /\ <<End>> \in Seq(Lines)
  BY <1>1, SomeLines DEF Begin, End
<1>3. a \in Seq(Lines) /\ b \in Seq(Lines)
  BY SomeLines
<1>4. c \in Seq(Lines) /\ d \in Seq(Lines)
  BY SomeLines
<1>5. f \in Seq(Lines) /\ g \in Seq(Lines) /\ h \in Seq(Lines)
  BY <1>1, <1>2, SomeLines
<1>6. EventLines(e) = <<Begin>> \o a \o b \o c \o d \o f \o g \o h
  BY DEF EventLines
<1> HIDE DEF a, b, c, d, f, g, h
<1>7. \A s, t \in Seq(Lines) : s \o t \in Seq(Lines)
  BY ConcatProperties
<1>8. <<Begin>> \o a \in Seq(Lines)
  BY <1>2, <1>3, <1>7
<1>9. <<Begin>> \o a \o b \in Seq(Lines)
  BY <1>3, <1>7, <1>8
<1>10. <<Begin>> \o a \o b \o c \in Seq(Lines)
  BY <1>4, <1>7, <1>9
<1>11. <<Begin>> \o a \o b \o c \o d \in Seq(Lines)
  BY <1>4, <1>7, <1>10
<1>12. <<Begin>> \o a \o b \o c \o d \o f \in Seq(Lines)
  BY <1>5, <1>7, <1>11
<1>13. <<Begin>> \o a \o b \o c \o d \o f \o g \in Seq(Lines)
  BY <1>5, <1>7, <1>12
<1>14. <<Begin>> \o a \o b \o c \o d \o f \o g \o h \in Seq(Lines)
  BY <1>5, <1>7, <1>13
<1> QED BY <1>6, <1>14

LEMMA ForeignLines ==
  ASSUME FormatAssumption PROVE Foreign \subseteq Seq(Lines)
<1> USE DEF FormatAssumption
<1>1. /\ {<<"a">>, Joined, <<"b">>, <<"c">>, NoText} \subseteq LineTexts /\ Recurrences \subseteq LineTexts
  BY DEF LineTexts, Recurrences, NoText
<1>2. {Missing, 1, 2, 3, Invalid} \subseteq LineDates
  BY DEF LineDates, Dates, Missing, Invalid
<1>3. ASSUME NEW e \in AnyEvent PROVE EventLines(e) \in Seq(Lines)
  <2>1. e.uid \in LineTexts /\ e.recurrenceId \in LineTexts
    BY <1>1 DEF AnyEvent
  <2>2. e.startsOn \in LineDates /\ e.endsOn \in LineDates
    BY <1>2 DEF AnyEvent
  <2> QED BY <2>1, <2>2, LinesOfEvent
<1>4. ASSUME NEW u \in {<<"a">>, <<"b">>, <<"c">>}, NEW r \in Recurrences, NEW d \in {1, 2}
      PROVE  EventLines(Night(u, r, d)) \in Seq(Lines)
  <2>1. d \in LineDates /\ d + 1 \in LineDates
    BY <1>2
  <2>2. /\ Night(u, r, d).uid = u /\ Night(u, r, d).recurrenceId = r
        /\ Night(u, r, d).startsOn = d /\ Night(u, r, d).endsOn = d + 1
    BY DEF Night, NoEvent, Blank
  <2> QED BY <1>1, <2>1, <2>2, LinesOfEvent
<1>5. ASSUME NEW e \in PlainEvent PROVE EventLines(e) \in Seq(Lines)
  <2>1. PICK u \in {<<"a">>, <<"b">>}, r \in Recurrences : e = Night(u, r, 2)
    BY DEF PlainEvent
  <2> QED BY <1>4, <2>1
<1>6. ASSUME NEW l \in LastEvents PROVE l \in Seq(Lines)
  <2>1. NoText \in LineTexts /\ NoText \in Recurrences
    BY <1>1 DEF Recurrences
  <2>2. <<>> \in Seq(Lines) /\ <<End>> \in Seq(Lines)
    BY <2>1, SomeLines DEF End
  <2>3. EventLines(Night(<<"c">>, NoText, 1)) \in Seq(Lines)
    BY <1>4, <2>1
  <2> QED BY <2>2, <2>3 DEF LastEvents
<1>7. ASSUME NEW x \in Foreign PROVE x \in Seq(Lines)
  <2>1. PICK e \in AnyEvent, f \in PlainEvent, l \in LastEvents :
          x = EventLines(e) \o EventLines(f) \o l
    BY DEF Foreign
  <2>2. EventLines(e) \o EventLines(f) \in Seq(Lines)
    BY <1>3, <1>5, ConcatProperties
  <2> QED BY <1>6, <2>1, <2>2, ConcatProperties
<1> QED BY <1>7

LEMMA InvInit ==
  ASSUME FormatAssumption PROVE Init => Inv
<1> SUFFICES ASSUME Init PROVE Inv
  OBVIOUS
<1> USE DEF FormatAssumption
<1>1. pos = 0 /\ pending = NoEvent /\ found = <<>> /\ parse = "received" /\ exported \subseteq 1..LastNight
      /\ envelope \in {"calendar", "other", "large"}
      /\ (exported # {} => lines = BuildCalendar(exported))
  BY DEF Init
<1>2. lines \in Seq(Lines)
  BY ForeignLines, CalendarLines DEF Init
<1>3. NoEvent \in [open : BOOLEAN, uid : LineTexts, recurrenceId : LineTexts,
                   startsOn : Dates \cup {Missing}, endsOn : Dates \cup {Missing},
                   cancelled : BOOLEAN, recurring : BOOLEAN]
  <2>1. NoText \in LineTexts
    BY DEF LineTexts
  <2> QED BY <2>1 DEF NoEvent, Blank
<1>4. TypeOK
  <2>1. pos \in 0..Len(lines)
    BY <1>1, <1>2
  <2>2. DOMAIN found = {}
    BY <1>1
  <2> QED BY <1>1, <1>2, <1>3, <2>1, <2>2 DEF TypeOK
<1>5. Ended = {} /\ \A i \in Marks : ~(i <= pos)
  BY <1>1, <1>4, Block, MarksOfFeed DEF Ended
<1>6. PendingIsRead
  <2>1. ~pending.open
    BY <1>1 DEF NoEvent, Blank
  <2> QED BY <1>5, <2>1 DEF PendingIsRead, MarkedUpTo
<1>7. EndedAreUsable
  BY <1>5 DEF EndedAreUsable
<1>8. FoundIsCounted
  <2>1. Counted(Ended) = {} /\ DOMAIN found = {}
    BY <1>1, <1>5 DEF Counted
  <2>2. Cardinality(DOMAIN found) = 0
    BY <2>1, FS_EmptySet
  <2> QED BY <2>1, <2>2 DEF FoundIsCounted
<1> QED BY <1>1, <1>4, <1>6, <1>7, <1>8 DEF Inv


-----------------------------------------------------------------------------
(* What HOST writes, read back.                                            *)

\* The events of an export, by their number.
Written(j) == <<6 * j - 5, 6 * j>>

LEMMA ExportRead ==
  ASSUME FormatAssumption, TypeOK, lines = BuildCalendar(exported)
  PROVE  LET g == GroupConsecutiveDates(exported)
             n == Cardinality(Starts(exported))
         IN
         /\ n \in Nat
         /\ Blocks = {Written(j) : j \in 1..n}
         /\ \A j \in 1..n : /\ RangeOf(Written(j)) = g[j]
                            /\ KeyOf(Written(j)) = <<g[j].startsOn, g[j].endsOn>>
                            /\ ~IsCancelled(Written(j))
<1> DEFINE n == Cardinality(Starts(exported))
           g == GroupConsecutiveDates(exported)
<1>1. exported \in SUBSET (1..LastNight)
  BY DEF TypeOK
<1>2. n \in Nat /\ \A j \in 1..n : g[j] = [startsOn |-> g[j].startsOn, endsOn |-> g[j].endsOn]
  BY <1>1, GroupsCover
<1>3. /\ Len(lines) = 6 * n
      /\ \A j \in 1..n :
           /\ lines[6 * j - 5] = Begin
           /\ lines[6 * j - 4] = Line("UID", <<g[j].startsOn, g[j].endsOn>>)
           /\ lines[6 * j - 3] = DateLine("DTSTART", g[j].startsOn)
           /\ lines[6 * j - 2] = DateLine("DTEND", g[j].endsOn)
           /\ lines[6 * j - 1] = Line("STATUS", <<"CONFIRMED">>)
           /\ lines[6 * j] = End
      /\ \A k \in 1..(6 * n) : \E j \in 1..n : k \in (6 * j - 5)..(6 * j)
  BY <1>1, CalendarLines
<1> HIDE DEF n, g
<1>4. ASSUME NEW j \in 1..n
      PROVE  /\ lines[6 * j - 5].name = "BEGIN:VEVENT" /\ lines[6 * j - 4].name = "UID"
             /\ lines[6 * j - 3].name = "DTSTART" /\ lines[6 * j - 2].name = "DTEND"
             /\ lines[6 * j - 1].name = "STATUS" /\ lines[6 * j].name = "END:VEVENT"
             /\ lines[6 * j - 4].text = <<g[j].startsOn, g[j].endsOn>>
             /\ lines[6 * j - 3].date = g[j].startsOn /\ lines[6 * j - 2].date = g[j].endsOn
             /\ lines[6 * j - 1].text = <<"CONFIRMED">>
  <2>1. /\ lines[6 * j - 5] = Begin
        /\ lines[6 * j - 4] = Line("UID", <<g[j].startsOn, g[j].endsOn>>)
        /\ lines[6 * j - 3] = DateLine("DTSTART", g[j].startsOn)
        /\ lines[6 * j - 2] = DateLine("DTEND", g[j].endsOn)
        /\ lines[6 * j - 1] = Line("STATUS", <<"CONFIRMED">>)
        /\ lines[6 * j] = End
    BY <1>3
  <2> QED BY <2>1 DEF Begin, End, Line, DateLine
<1>5. ASSUME NEW i \in 1..Len(lines)
      PROVE  /\ IsBegin(i) <=> \E j \in 1..n : i = 6 * j - 5
             /\ IsEnd(i) <=> \E j \in 1..n : i = 6 * j
  <2>1. PICK j \in 1..n : i \in (6 * j - 5)..(6 * j)
    BY <1>3
  <2>2. \/ i = 6 * j - 5 \/ i = 6 * j - 4 \/ i = 6 * j - 3 \/ i = 6 * j - 2 \/ i = 6 * j - 1
        \/ i = 6 * j
    BY <2>1
  <2>3. IsBegin(i) <=> i = 6 * j - 5
    BY <1>4, <2>2 DEF IsBegin
  <2>4. IsEnd(i) <=> i = 6 * j
    BY <1>4, <2>2 DEF IsEnd
  <2>5. \A l \in 1..n : (i = 6 * l - 5 => i = 6 * j - 5) /\ (i = 6 * l => i = 6 * j)
    BY <2>1
  <2> QED BY <2>3, <2>4, <2>5
<1>6. ASSUME NEW j \in 1..n
      PROVE  /\ 6 * j - 5 \in Marks /\ 6 * j \in Marks /\ IsBegin(6 * j - 5) /\ IsEnd(6 * j)
             /\ 6 * j - 5 < 6 * j /\ Written(j) \in Blocks
  <2>1. 6 * j - 5 \in 1..Len(lines) /\ 6 * j \in 1..Len(lines) /\ 6 * j - 5 < 6 * j
    BY <1>2, <1>3
  <2>2. /\ 6 * j - 5 \in Marks /\ 6 * j \in Marks /\ IsBegin(6 * j - 5) /\ IsEnd(6 * j)
    BY <1>4, <2>1, MarksOfFeed DEF IsBegin, IsEnd
  <2>3. ASSUME NEW i \in Marks, 6 * j - 5 < i, i < 6 * j PROVE FALSE
    <3>1. i \in 1..Len(lines)
      BY MarksOfFeed
    <3>2. \E l \in 1..n : i = 6 * l - 5 \/ i = 6 * l
      BY <1>5, <3>1 DEF Marks
    <3> QED BY <2>3, <3>2
  <2>4. Written(j)[1] = 6 * j - 5 /\ Written(j)[2] = 6 * j
    BY DEF Written
  <2>5. Written(j) \in Marks \X Marks
    BY <2>2 DEF Written
  <2> QED BY <2>1, <2>2, <2>3, <2>4, <2>5 DEF Blocks
<1>7. ASSUME NEW b \in Blocks PROVE \E j \in 1..n : b = Written(j)
  <2>1. b = <<b[1], b[2]>> /\ b[1] \in Marks /\ b[2] \in Marks /\ IsBegin(b[1]) /\ b[1] < b[2]
        /\ IsEnd(b[2]) /\ \A i \in Marks : ~(b[1] < i /\ i < b[2])
    BY Block
  <2>2. PICK j \in 1..n : b[1] = 6 * j - 5
    BY <1>5, <2>1, MarksOfFeed
  <2>3. PICK l \in 1..n : b[2] = 6 * l
    BY <1>5, <2>1, MarksOfFeed
  <2>4. 6 * j \in Marks /\ 6 * j - 5 < 6 * j
    BY <1>6
  <2>5. ~(6 * j < 6 * l)
    BY <2>1, <2>2, <2>3, <2>4
  <2>6. j = l
    BY <2>1, <2>2, <2>3, <2>5
  <2> QED BY <2>1, <2>2, <2>3, <2>6 DEF Written
<1>8. ASSUME NEW j \in 1..n
      PROVE  /\ RangeOf(Written(j)) = g[j]
             /\ KeyOf(Written(j)) = <<g[j].startsOn, g[j].endsOn>>
             /\ ~IsCancelled(Written(j))
  <2> PICK f \in Nat : f = 6 * j - 4
    OBVIOUS
  <2>1. Written(j)[1] + 1 = f /\ Written(j)[2] - 1 = f + 3
    BY DEF Written
  <2>2. /\ lines[f].name = "UID" /\ lines[f + 1].name = "DTSTART" /\ lines[f + 2].name = "DTEND"
        /\ lines[f + 3].name = "STATUS" /\ lines[f].text = <<g[j].startsOn, g[j].endsOn>>
        /\ lines[f + 1].date = g[j].startsOn /\ lines[f + 2].date = g[j].endsOn
        /\ lines[f + 3].text = <<"CONFIRMED">>
    <3>1. f + 1 = 6 * j - 3 /\ f + 2 = 6 * j - 2 /\ f + 3 = 6 * j - 1
      OBVIOUS
    <3> QED BY <1>4, <3>1
  <2>3. \A i \in f..(f + 3) : i = f \/ i = f + 1 \/ i = f + 2 \/ i = f + 3
    OBVIOUS
  <2>4. f \in f..(f + 3) /\ f + 1 \in f..(f + 3) /\ f + 2 \in f..(f + 3) /\ f + 3 \in f..(f + 3)
    OBVIOUS
  <2>5. LastLine(f, f + 3, "UID") = lines[f]
    <3> PICK i \in Nat, l \in Nat : i = f /\ l = f + 3
      OBVIOUS
    <3>1. f \in Nat /\ l \in Int /\ i \in f..l /\ lines[i].name = "UID"
      BY <2>2
    <3>2. \A m \in f..l : lines[m].name = "UID" => m <= i
      BY <2>2, <2>3
    <3>3. LastLine(f, l, "UID") = lines[i]
      BY ONLY <3>1, <3>2, LastIs, SMTT(30)
    <3> QED BY <3>3
  <2>6. LastLine(f, f + 3, "DTSTART") = lines[f + 1]
    <3> PICK i \in Nat, l \in Nat : i = f + 1 /\ l = f + 3
      OBVIOUS
    <3>1. f \in Nat /\ l \in Int /\ i \in f..l /\ lines[i].name = "DTSTART"
      BY <2>2
    <3>2. \A m \in f..l : lines[m].name = "DTSTART" => m <= i
      BY <2>2, <2>3
    <3>3. LastLine(f, l, "DTSTART") = lines[i]
      BY ONLY <3>1, <3>2, LastIs, SMTT(30)
    <3> QED BY <3>3
  <2>7. LastLine(f, f + 3, "DTEND") = lines[f + 2]
    <3> PICK i \in Nat, l \in Nat : i = f + 2 /\ l = f + 3
      OBVIOUS
    <3>1. f \in Nat /\ l \in Int /\ i \in f..l /\ lines[i].name = "DTEND"
      BY <2>2
    <3>2. \A m \in f..l : lines[m].name = "DTEND" => m <= i
      BY <2>2, <2>3
    <3>3. LastLine(f, l, "DTEND") = lines[i]
      BY ONLY <3>1, <3>2, LastIs, SMTT(30)
    <3> QED BY <3>3
  <2>8. LastLine(f, f + 3, "STATUS") = lines[f + 3]
    <3> PICK i \in Nat, l \in Nat : i = f + 3 /\ l = f + 3
      OBVIOUS
    <3>1. f \in Nat /\ l \in Int /\ i \in f..l /\ lines[i].name = "STATUS"
      BY <2>2
    <3>2. \A m \in f..l : lines[m].name = "STATUS" => m <= i
      BY <2>2, <2>3
    <3>3. LastLine(f, l, "STATUS") = lines[i]
      BY ONLY <3>1, <3>2, LastIs, SMTT(30)
    <3> QED BY <3>3
  <2>9. /\ Field(Written(j), "UID") = lines[f] /\ Field(Written(j), "DTSTART") = lines[f + 1]
        /\ Field(Written(j), "DTEND") = lines[f + 2] /\ Field(Written(j), "STATUS") = lines[f + 3]
    BY <2>1, <2>5, <2>6, <2>7, <2>8 DEF Field
  <2>10. <<"CONFIRMED">> # Cancelled
    BY DEF Cancelled
  <2>11. g[j] = [startsOn |-> g[j].startsOn, endsOn |-> g[j].endsOn]
    BY <1>2
  <2>12. RangeOf(Written(j)) = g[j]
    BY <2>2, <2>9, <2>11 DEF RangeOf
  <2>13. Field(Written(j), "RECURRENCE-ID") = Line("", NoText)
    <3>1. \A i \in f..(f + 3) : lines[i].name # "RECURRENCE-ID"
      BY <2>2, <2>3
    <3>2. Named(f, f + 3, "RECURRENCE-ID") = {}
      BY <3>1 DEF Named
    <3>3. LastLine(f, f + 3, "RECURRENCE-ID") = Line("", NoText)
      BY <3>2 DEF LastLine
    <3> PICK b \in {Written(j)} : b[1] + 1 = f /\ b[2] - 1 = f + 3
      BY <2>1
    <3>4. Field(b, "RECURRENCE-ID") = Line("", NoText)
      BY <3>3 DEF Field
    <3> QED BY <3>4
  <2>14. Field(Written(j), "RECURRENCE-ID").text = NoText
    <3>1. Line("", NoText).text = NoText
      BY DEF Line
    <3> QED BY <2>13, <3>1
  <2>15. KeyOf(Written(j)) = <<g[j].startsOn, g[j].endsOn>>
    BY <2>2, <2>9, <2>14 DEF KeyOf, Key
  <2>16. ~IsCancelled(Written(j))
    BY <2>2, <2>9, <2>10 DEF IsCancelled
  <2> QED BY <2>12, <2>15, <2>16
<1> QED BY <1>2, <1>6, <1>7, <1>8 DEF n, g


-----------------------------------------------------------------------------
(* What the parser keeps is what the feed says.                            *)

LEMMA InvUnderstood ==
  ASSUME FormatAssumption PROVE Inv => FeedIsUnderstood
<1> SUFFICES ASSUME Inv, parse = "parsed"
             PROVE  /\ Legible /\ Cardinality(Kept) <= MaxEvents
                    /\ {<<k, found[k]>> : k \in DOMAIN found} = {<<KeyOf(b), RangeOf(b)>> : b \in Kept}
                    /\ exported # {} => NightsIn({found[k] : k \in DOMAIN found}) = exported
  BY DEF Inv, FeedIsUnderstood
<1>1. /\ TypeOK /\ PendingIsRead /\ EndedAreUsable /\ FoundIsCounted /\ pos = Len(lines)
      /\ ~pending.open /\ envelope = "calendar" /\ (exported # {} => lines = BuildCalendar(exported))
  BY DEF Inv
<1>2. Ended = Blocks
  BY <1>1, Block DEF Ended
<1>3. Legible
  <2>1. \A i \in Marks : InBlock(i, Blocks)
    BY <1>1, <1>2, MarksOfFeed DEF PendingIsRead, MarkedUpTo
  <2> QED BY <1>1, <1>2, <2>1 DEF Legible, EndedAreUsable
<1>4. Kept \subseteq Counted(Blocks) /\ Counted(Blocks) \in SUBSET Blocks /\ Kept \in SUBSET Blocks
  BY DEF Kept, Counted
<1>5. /\ DOMAIN found = {KeyOf(b) : b \in Kept}
      /\ \A b \in Kept : found[KeyOf(b)] = RangeOf(b)
      /\ Cardinality(DOMAIN found) <= MaxEvents
  <2>1. {KeyOf(b) : b \in Kept} = {KeyOf(b) : b \in Counted(Blocks)}
    BY <1>1, KeptKeys
  <2> QED BY <1>1, <1>2, <2>1 DEF FoundIsCounted, Kept
<1>6. ASSUME NEW b \in Kept, NEW c \in Kept, KeyOf(b) = KeyOf(c) PROVE b = c
  <2>1. b[1] <= c[1] /\ c[1] <= b[1] /\ b \in Blocks /\ c \in Blocks
    BY <1>4, <1>6 DEF Kept
  <2>2. /\ b = <<b[1], b[2]>> /\ c = <<c[1], c[2]>> /\ b[1] \in Nat /\ c[1] \in Nat
        /\ b[2] \in Nat /\ c[2] \in Nat /\ b[2] \in Marks /\ c[2] \in Marks
        /\ b[1] < b[2] /\ c[1] < c[2]
        /\ \A i \in Marks : ~(b[1] < i /\ i < b[2]) /\ ~(c[1] < i /\ i < c[2])
    BY <1>1, <2>1, Block
  <2>3. b[1] = c[1]
    BY <2>1, <2>2
  <2>4. b[2] = c[2]
    BY <2>2, <2>3
  <2> QED BY <2>2, <2>3, <2>4
<1>7. Cardinality(Kept) <= MaxEvents
  <2> DEFINE keys == {KeyOf(b) : b \in Kept}
             key == [b \in Kept |-> KeyOf(b)]
  <2>1. IsFiniteSet(keys) /\ Cardinality(keys) \in Nat
    BY <1>1, <1>4, Finite
  <2>2. IsFiniteSet(Kept)
    BY <1>1, <1>4, Finite
  <2>3. key \in Injection(Kept, keys)
    BY <1>6 DEF Injection, IsInjective
  <2>4. Cardinality(Kept) <= Cardinality(keys) /\ Cardinality(Kept) \in Nat
    <3> HIDE DEF key, keys
    <3> QED BY <2>1, <2>2, <2>3, FS_Injection, FS_CardinalityType
  <2>5. Cardinality(keys) <= MaxEvents
    BY <1>5
  <2> HIDE DEF keys
  <2> QED BY <2>1, <2>4, <2>5 DEF FormatAssumption
<1>8. {<<k, found[k]>> : k \in DOMAIN found} = {<<KeyOf(b), RangeOf(b)>> : b \in Kept}
  BY <1>5
<1>9. ASSUME exported # {}
      PROVE  NightsIn({found[k] : k \in DOMAIN found}) = exported
  <2> DEFINE g == GroupConsecutiveDates(exported)
             n == Cardinality(Starts(exported))
  <2>1. /\ n \in Nat /\ Blocks = {Written(j) : j \in 1..n}
        /\ \A j \in 1..n : /\ RangeOf(Written(j)) = g[j]
                           /\ KeyOf(Written(j)) = <<g[j].startsOn, g[j].endsOn>>
                           /\ ~IsCancelled(Written(j))
    BY <1>1, <1>9, ExportRead
  <2>2. /\ \A i, j \in 1..n : g[i].startsOn = g[j].startsOn => i = j
        /\ NightsIn({g[i] : i \in 1..n}) = exported
    <3>1. exported \in SUBSET (1..LastNight)
      BY <1>1 DEF TypeOK
    <3> QED BY <3>1, GroupsCover
  <2> HIDE DEF g, n
  <2>3. Kept = Blocks
    <3>1. Counted(Blocks) = Blocks
      BY <2>1 DEF Counted
    <3>2. ASSUME NEW i \in 1..n, NEW j \in 1..n, KeyOf(Written(i)) = KeyOf(Written(j))
          PROVE  i = j
      <4>1. <<g[i].startsOn, g[i].endsOn>> = <<g[j].startsOn, g[j].endsOn>>
        BY <2>1, <3>2
      <4>2. g[i].startsOn = g[j].startsOn
        BY <4>1
      <4> QED BY <2>2, <4>2
    <3>3. ASSUME NEW b \in Blocks, NEW c \in Blocks, KeyOf(c) = KeyOf(b) PROVE c[1] <= b[1]
      <4>1. PICK i \in 1..n, j \in 1..n : b = Written(i) /\ c = Written(j)
        BY <2>1
      <4>2. i = j
        BY <3>2, <3>3, <4>1
      <4>3. b[1] \in Nat /\ b = c
        BY <1>1, <4>1, <4>2, Block
      <4> QED BY <4>3
    <3> QED BY <3>1, <3>3 DEF Kept
  <2>4. {found[k] : k \in DOMAIN found} = {RangeOf(b) : b \in Kept}
    BY <1>5
  <2>5. {RangeOf(b) : b \in Kept} = {g[i] : i \in 1..n}
    BY <2>1, <2>3
  <2> QED BY <2>2, <2>4, <2>5
<1> QED BY <1>3, <1>7, <1>8, <1>9

-----------------------------------------------------------------------------
(* The theorem.                                                            *)

(* A feed is refused only when some of it cannot be read or it has too     *)
(* many events, and is otherwise read as the last event of each            *)
(* identifier; HOST's own feed is read back as exactly its nights          *)
(* (ical.ts:200, calendarExport.ts:89).                                    *)
THEOREM FeedsAreUnderstood ==
  ASSUME FormatAssumption PROVE Spec => []FeedIsUnderstood
BY InvInit, InvStep, InvUnderstood, PTL DEF Spec
=============================================================================
