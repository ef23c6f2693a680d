---------------------------- MODULE EventStream ----------------------------
(***************************************************************************)
(* What a stream of server-sent events says, by the standard that the      *)
(* header names (SSEInfo.h:21) within the limits it lists: the events that *)
(* a reader of its characters has to find.  A line is known by the places  *)
(* it has in the text, and what a reader gets is the text at some of them. *)
(***************************************************************************)
EXTENDS Integers, Sequences, FiniteSets, SequencesExt

LineFeed == "\n"
CarriageReturn == "\r"
Space == " "
NUL == "\\0"

\* The k-th of a set of numbers, and the text at a set of places.
Nth(numbers, k) == CHOOSE i \in numbers : Cardinality({j \in numbers : j <= i}) = k
TextAt(s, places) == [k \in 1..Cardinality(places) |-> s[Nth(places, k)]]

\* Where the lines of s end: at \n, \r\n (at its \n) or \r.  What follows is no line yet.
LineEnds(s) ==
  {i \in DOMAIN s : \/ s[i] = LineFeed
                    \/ s[i] = CarriageReturn /\ (i = Len(s) \/ s[i + 1] # LineFeed)}

\* What is from first to last in s, as a line: a name, and after its first colon and at most
\* one space a value.
Colon(s, first, last) == Min({i \in first..last : s[i] = ":"} \cup {last + 1})
Line(s, first, last) ==
  LET colon == Colon(s, first, last)
  IN [first |-> first, last |-> last,
      name |-> TextAt(s, first..colon - 1),
      value |-> {i \in colon + 1..last : i = colon + 1 => s[i] # Space}]

Begin(s, end) == Max({0} \cup {i \in LineEnds(s) : i < end}) + 1
Pair(s, end) == s[end] = LineFeed /\ end > Begin(s, end) /\ s[end - 1] = CarriageReturn
Lines(s) == {Line(s, Begin(s, end), IF Pair(s, end) THEN end - 2 ELSE end - 1) : end \in LineEnds(s)}

Blank(line) == line.last < line.first

\* The lines before a place that follow the last blank one before it.
Since(lines, place) ==
  {l \in lines : l.first < place /\ \A b \in lines : Blank(b) /\ b.first < place => b.first < l.first}

Named(lines, name) == {l \in lines : l.name = <<name>>}

\* An id with a NUL is none.
Identifying(s, lines) == {l \in Named(lines, "id") : \A i \in l.value : s[i] # NUL}

LastValue(s, lines) ==
  TextAt(s, UNION {l.value : l \in {l \in lines : \A m \in lines : m.first <= l.first}})

\* The values, joined by line feeds, each in the place where the next line begins: also after
\* an empty value, so that data may begin with line feeds.
Data(s, lines) ==
  LET joints == {l.first : l \in {l \in lines : \E m \in lines : m.first < l.first}}
      joined == [i \in DOMAIN s |-> IF i \in joints THEN LineFeed ELSE s[i]]
  IN TextAt(joined, joints \cup UNION {l.value : l \in lines})

\* The event that ends at a place: the data and the event type since the last blank line,
\* and the last id of all.
Event(s, lines, place) ==
  [id |-> LastValue(s, Identifying(s, {l \in lines : l.first < place})),
   event |-> LastValue(s, Named(Since(lines, place), "event")),
   data |-> Data(s, Named(Since(lines, place), "data"))]

\* The places of the blank lines that end an event: those with data since the last one.
EventEnds(lines) ==
  {b.first : b \in {b \in lines : Blank(b) /\ Named(Since(lines, b.first), "data") # {}}}

Events(s) ==
  LET lines == Lines(s)
      ends == EventEnds(lines)
  IN [k \in 1..Cardinality(ends) |-> Event(s, lines, Nth(ends, k))]

\* Data without the line feeds it begins with, and events with no more than that.
Stripped(data) ==
  SubSeq(data, Min({i \in DOMAIN data : data[i] # LineFeed} \cup {Len(data) + 1}), Len(data))
Short(event) == [event EXCEPT !.data = Stripped(@)]
Shortened(events) == [k \in DOMAIN events |-> Short(events[k])]
=============================================================================
