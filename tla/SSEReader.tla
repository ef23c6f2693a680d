----------------------------- MODULE SSEReader -----------------------------
(***************************************************************************)
(* SSEInfo: the reader of server-sent events, one character at a time from *)
(* a streambuf that asks the connection for more when it runs out.  A      *)
(* caller reads events until the stream fails.                             *)
(***************************************************************************)
EXTENDS EventStream

CONSTANTS
  Chunks,         \* what the connection may deliver at a time; a field name is a character
  MaxChunks       \* bound: the number of chunks

\* What At says where the input ends; no character is that.
EndOfFile == "eof"

ASSUME ChunksAssumption == \A c \in Chunks : c \in Seq(STRING \ {EndOfFile}) /\ c # <<>>
ASSUME MaxChunksAssumption == MaxChunks \in Nat

VARIABLES
  input,      \* the characters the streambuf has been given
  chunks,     \* the number of chunks they came in
  closed,     \* the peer has closed the connection
  pos,        \* the position of the next character
  place,      \* what of readEvent is running, or the field whose value is read
  name,       \* readFieldName's name
  value,      \* the value of an id line
  next,       \* the event that is built
  haveData,   \* a data line was read
  published   \* the events the caller has got

vars == <<input, chunks, closed, pos, place, name, value, next, haveData, published>>

Fields == {"data", "event", "id", "skip"}

\* What an event may consist of: characters that were delivered, and the line feeds that
\* join its data.
Character == {LineFeed} \cup UNION {ToSet(c) : c \in Chunks}

NewEvent(id) == [id |-> id, event |-> <<>>, data |-> <<>>]
EventRecord == [id : Seq(Character), event : Seq(Character), data : Seq(Character)]

TypeOK ==
  /\ input \in Seq(Character) /\ chunks \in 0..MaxChunks /\ closed \in BOOLEAN
  /\ pos \in 1..Len(input) + 1
  /\ place \in {"name", "failed"} \cup Fields
  /\ name \in Seq(Character) /\ value \in Seq(Character)
  /\ next \in EventRecord /\ haveData \in BOOLEAN
  /\ published \in Seq(EventRecord)

Init ==
  /\ input = <<>> /\ chunks = 0 /\ closed = FALSE
  /\ pos = 1
  /\ place = "name"
  /\ name = <<>> /\ value = <<>>
  /\ next = NewEvent(<<>>) /\ haveData = FALSE
  /\ published = <<>>

----------------------------------------------------------------------------
(* The streambuf.                                                          *)

Known(p) == p <= Len(input) \/ closed
At(p) == IF p <= Len(input) THEN input[p] ELSE EndOfFile
Here == At(pos)

\* Slip: after any line end the next character is asked for.
LooksAhead ==
  IF Known(pos) /\ (Here \in {CarriageReturn, LineFeed} \/ (Here = ":" /\ place = "name" /\ name # <<>>))
  THEN pos + 1 ELSE pos

\* The characters that have to be there before the next step: after \r the one that may be
\* its \n, after a name's colon the one that may be its space.
Looks ==
  IF Known(pos) /\ (Here = CarriageReturn \/ (Here = ":" /\ place = "name" /\ name # <<>>))
  THEN pos + 1 ELSE pos

Waits == place # "failed" /\ ~Known(Looks)

\* underflow: the connection is read when, and only when, a character is asked for.
Arrive(c) ==
  /\ Waits
  /\ chunks < MaxChunks
  /\ input' = input \o c /\ chunks' = chunks + 1
  /\ UNCHANGED <<closed, pos, place, name, value, next, haveData, published>>

Closed ==
  /\ Waits
  /\ closed' = TRUE
  /\ UNCHANGED <<input, chunks, pos, place, name, value, next, haveData, published>>

\* A character, or a line end with its pair, is consumed.
Step == Known(Looks) /\ UNCHANGED <<input, chunks, closed>>
AtLineEnd == Here \in {LineFeed, CarriageReturn}

\* Slip: what follows \r is taken for its \n.
PairedAny == IF Here = CarriageReturn THEN 2 ELSE 1

Paired == IF Here = CarriageReturn /\ At(pos + 1) = LineFeed THEN 2 ELSE 1

----------------------------------------------------------------------------
(* readFieldName: a line begins, or its name goes on.                      *)

AtName == place = "name" /\ Step

NameGoesOn ==
  /\ AtName
  /\ Here \notin {LineFeed, CarriageReturn, ":", EndOfFile}
  /\ name' = Append(name, Here) /\ pos' = pos + 1
  /\ UNCHANGED <<place, value, next, haveData, published>>

\* Slip: at the end an empty name is a field too.
EndOfInputGoesOn ==
  /\ AtName
  /\ name = <<>> /\ Here = EndOfFile
  /\ place' = "skip"
  /\ UNCHANGED <<pos, name, value, next, haveData, published>>

\* The event that was begun is dropped.
EndOfInput ==
  /\ AtName
  /\ name = <<>> /\ Here = EndOfFile
  /\ place' = "failed"
  /\ UNCHANGED <<pos, name, value, next, haveData, published>>

\* Slip: the type of an event without data is left for the next one.
BlankLineKeepsType ==
  /\ AtName
  /\ name = <<>> /\ AtLineEnd
  /\ pos' = pos + Paired
  /\ IF haveData
     THEN published' = Append(published, next) /\ next' = NewEvent(next.id) /\ haveData' = FALSE
     ELSE UNCHANGED <<next, haveData, published>>
  /\ UNCHANGED <<place, name, value>>

\* An event with data is handed over, and the caller reads the next; the id is kept.
BlankLine ==
  /\ AtName
  /\ name = <<>> /\ AtLineEnd
  /\ pos' = pos + Paired
  /\ IF haveData
     THEN published' = Append(published, next) /\ next' = NewEvent(next.id) /\ haveData' = FALSE
     ELSE next' = [next EXCEPT !.event = <<>>] /\ UNCHANGED <<haveData, published>>
  /\ UNCHANGED <<place, name, value>>

Comment ==
  /\ AtName
  /\ name = <<>> /\ Here = ":"
  /\ place' = "skip" /\ pos' = pos + 1
  /\ UNCHANGED <<name, value, next, haveData, published>>

\* The name ends at a colon, one space after it included, at a line end or with the input.
Field ==
  /\ AtName
  /\ name # <<>> /\ Here \in {LineFeed, CarriageReturn, ":", EndOfFile}
  /\ pos' = pos + (IF Here # ":" THEN 0 ELSE IF At(pos + 1) = Space THEN 2 ELSE 1)
  /\ place' = IF Len(name) = 1 /\ name[1] \in {"data", "event", "id"} THEN name[1] ELSE "skip"
  /\ haveData' = (haveData \/ place' = "data")
  /\ next' = CASE place' = "data" /\ next.data # <<>> -> [next EXCEPT !.data = Append(@, LineFeed)]
               [] place' = "event" -> [next EXCEPT !.event = <<>>]
               [] OTHER -> next
  /\ name' = <<>> /\ value' = <<>>
  /\ UNCHANGED published

----------------------------------------------------------------------------
(* readLine and skipLine.                                                  *)

AtValue == place \in Fields /\ Step

ValueGoesOn ==
  /\ AtValue
  /\ ~AtLineEnd /\ Here # EndOfFile
  /\ pos' = pos + 1
  /\ next' = IF place \in {"data", "event"} THEN [next EXCEPT ![place] = Append(@, Here)] ELSE next
  /\ value' = IF place = "id" THEN Append(value, Here) ELSE value
  /\ UNCHANGED <<place, name, haveData, published>>

\* An id with a NUL is ignored.
EndOfLine ==
  /\ AtValue
  /\ AtLineEnd \/ Here = EndOfFile
  /\ pos' = pos + (IF AtLineEnd THEN Paired ELSE 0)
  /\ place' = "name"
  /\ next' = IF place = "id" /\ NUL \notin ToSet(value) THEN [next EXCEPT !.id = value] ELSE next
  /\ UNCHANGED <<name, value, haveData, published>>

\* The stream has failed: the caller stops.
Stopped == place = "failed" /\ UNCHANGED vars

ReadEvent ==
  \/ NameGoesOn \/ EndOfInput \/ BlankLine \/ Comment \/ Field
  \/ ValueGoesOn \/ EndOfLine

Next == (\E c \in Chunks : Arrive(c)) \/ Closed \/ ReadEvent \/ Stopped

Spec == Init /\ [][Next]_vars

\* The program goes on, and the peer closes at last.
FairSpec == Spec /\ WF_vars(ReadEvent) /\ WF_vars(Closed)

----------------------------------------------------------------------------
(* Properties.                                                             *)

\* At any time the caller has got exactly the events of what was read so far, with their
\* types, ids and data, as reading it by lines finds them (readEvent, operator>>): wherever
\* reads end and whichever line ends are mixed, none is early, late, lost or made up.  Line
\* feeds at the start of data are left to EventsAsStandard.
EventsAsRead == Shortened(published) = Shortened(Events(SubSeq(input, 1, pos - 1)))

\* They are exactly those of the standard: empty data lines, too, have their line feeds
\* (SSEInfo.h:21, whose lines 30-32 list the deliberate limitations).
EventsAsStandard == published = Events(SubSeq(input, 1, pos - 1))

\* The reader does not wait for the connection while it has an event for its caller.  A \r
\* at the end is the exception: its \n may come (consumePairedLF).
NothingWithheld ==
  Waits => LET settled == IF input # <<>> /\ input[Len(input)] = CarriageReturn THEN Len(input) - 1 ELSE Len(input)
           IN Len(Events(SubSeq(input, 1, settled))) = Len(published)

\* When the connection is closed the stream fails, wherever in a line or event that is, so
\* that a caller's loop over operator>> ends.
StreamEnds == closed ~> place = "failed"
=============================================================================
