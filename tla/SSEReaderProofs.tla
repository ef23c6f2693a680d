-------------------------- MODULE SSEReaderProofs --------------------------
(***************************************************************************)
(* SSEReader: in whatever pieces the characters come and wherever the      *)
(* connection ends, the reader stays within what it was given, and hands   *)
(* over the events that EventStream finds in what was read.                *)
(***************************************************************************)
EXTENDS SSEReader, EventStreamProofs

----------------------------------------------------------------------------
(* Characters and sequences.                                               *)

\* A set stands for Character below, so that sequences are over a set and no more.
LEMMA SeqParts ==
  ASSUME NEW C
  PROVE  /\ <<>> \in Seq(C)
         /\ \A s \in Seq(C), c \in C : Append(s, c) \in Seq(C)
         /\ \A s, t \in Seq(C) : s \o t \in Seq(C) /\ Len(s \o t) >= Len(s)
         /\ \A s \in Seq(C) : Len(s) \in Nat
  OBVIOUS

LEMMA Delivered ==
  ASSUME NEW c \in Chunks
  PROVE  c \in Seq(Character)
<1>1. c \in Seq(STRING \ {EndOfFile})
  BY ChunksAssumption
<1>2. \A i \in DOMAIN c : c[i] \in Character
  BY DEF Character, ToSet
<1>3. c \in [1..Len(c) -> Character] /\ Len(c) \in Nat
  BY <1>1, <1>2
<1>. QED
  BY <1>3

LEMMA JoiningFeed == LineFeed \in Character
  BY DEF Character

LEMMA MarksAreCharacters ==
  /\ LineFeed # EndOfFile /\ CarriageReturn # EndOfFile /\ ":" # EndOfFile
  BY Zenon DEF LineFeed, CarriageReturn, EndOfFile

LEMMA SpaceIsCharacter == Space # EndOfFile
  BY Zenon DEF Space, EndOfFile

\* Where the reader is, in numbers.
LEMMA Reading ==
  ASSUME TypeOK
  PROVE  /\ pos \in Nat /\ pos >= 1 /\ pos <= Len(input) + 1 /\ Len(input) \in Nat
         /\ Here # EndOfFile => pos <= Len(input) /\ Here \in Character
         /\ \A p \in Nat : p > Len(input) => At(p) = EndOfFile
<1>1. /\ input \in Seq(Character) /\ Len(input) \in Nat /\ pos \in 1..Len(input) + 1
  BY DEF TypeOK
<1>2. Here # EndOfFile => pos <= Len(input) /\ Here = input[pos]
  BY DEF Here, At
<1>3. pos <= Len(input) => input[pos] \in Character
  BY <1>1
<1>4. \A p \in Nat : p > Len(input) => At(p) = EndOfFile
  BY <1>1 DEF At
<1>. QED
  BY <1>1, <1>2, <1>3, <1>4

\* A pair of line ends, or a colon and its space, is within the input.
LEMMA PairWithin ==
  ASSUME TypeOK, NEW wide \in {1, 2}, Here # EndOfFile, wide = 2 => At(pos + 1) # EndOfFile
  PROVE  pos + wide \in 1..Len(input) + 1
<1>1. At(pos + 1) # EndOfFile => pos + 1 <= Len(input)
  BY Reading
<1>. QED
  BY <1>1, Reading

LEMMA PairedWithin ==
  ASSUME TypeOK, AtLineEnd
  PROVE  pos + Paired \in 1..Len(input) + 1
<1>1. Here # EndOfFile
  BY MarksAreCharacters DEF AtLineEnd
<1>2. Paired \in {1, 2} /\ (Paired = 2 => At(pos + 1) # EndOfFile)
  BY MarksAreCharacters DEF Paired
<1>. QED
  BY <1>1, <1>2, PairWithin

----------------------------------------------------------------------------
(* Events.                                                                 *)

LEMMA EventParts ==
  ASSUME NEW e \in EventRecord
  PROVE  /\ e.id \in Seq(Character) /\ e.event \in Seq(Character) /\ e.data \in Seq(Character)
         /\ NewEvent(e.id) \in EventRecord
         /\ \A x \in Seq(Character) :
              /\ [e EXCEPT !.id = x] \in EventRecord
              /\ [e EXCEPT !.event = x] \in EventRecord
              /\ [e EXCEPT !.data = x] \in EventRecord
<1>. DEFINE S == Seq(Character)
<1>1. <<>> \in S
  BY SeqParts
<1>. HIDE DEF S
<1>. QED
  BY <1>1 DEF EventRecord, NewEvent, S

----------------------------------------------------------------------------
(* The steps.                                                              *)

LEMMA InitialTypes == Init => TypeOK
<1>. SUFFICES ASSUME Init PROVE TypeOK
  OBVIOUS
<1>1. <<>> \in Seq(Character) /\ <<>> \in Seq(EventRecord) /\ Len(<<>>) = 0
  BY SeqParts
<1>2. NewEvent(<<>>) \in EventRecord
  BY <1>1 DEF NewEvent, EventRecord
<1>3. place \in {"name", "failed"} \cup Fields /\ haveData \in BOOLEAN /\ closed \in BOOLEAN
  BY DEF Init
<1>4. chunks \in 0..MaxChunks /\ pos \in 1..Len(input) + 1
  BY <1>1, MaxChunksAssumption DEF Init
<1>5. /\ input \in Seq(Character) /\ name \in Seq(Character) /\ value \in Seq(Character)
      /\ next \in EventRecord /\ published \in Seq(EventRecord)
  BY <1>1, <1>2 DEF Init
<1>. QED
  BY <1>3, <1>4, <1>5 DEF TypeOK

\* Everything but what readEvent changes.
Given == UNCHANGED <<input, chunks, closed>>

Built ==
  /\ name' \in Seq(Character) /\ value' \in Seq(Character)
  /\ next' \in EventRecord /\ haveData' \in BOOLEAN
  /\ published' \in Seq(EventRecord)

LEMMA ReadTypes ==
  ASSUME TypeOK, Given, Built,
         pos' \in 1..Len(input) + 1, place' \in {"name", "failed"} \cup Fields
  PROVE  TypeOK'
  BY DEF TypeOK, Given, Built

LEMMA NameTypes ==
  ASSUME TypeOK, NameGoesOn
  PROVE  TypeOK'
<1>1. Here \in Character /\ pos <= Len(input)
  BY Reading DEF NameGoesOn
<1>2. name' \in Seq(Character)
  BY <1>1, SeqParts DEF NameGoesOn, TypeOK
<1>3. pos' \in 1..Len(input) + 1
  BY <1>1, Reading DEF NameGoesOn
<1>4. Built
  BY <1>2 DEF NameGoesOn, TypeOK, Built
<1>. QED
  BY <1>3, <1>4, ReadTypes DEF NameGoesOn, AtName, Step, Given, TypeOK

LEMMA EndTypes ==
  ASSUME TypeOK, EndOfInput
  PROVE  TypeOK'
  BY ReadTypes DEF EndOfInput, AtName, Step, Given, Built, TypeOK

LEMMA CommentTypes ==
  ASSUME TypeOK, Comment
  PROVE  TypeOK'
<1>1. Here # EndOfFile
  BY MarksAreCharacters DEF Comment
<1>2. pos' \in 1..Len(input) + 1
  BY <1>1, Reading DEF Comment
<1>3. Built /\ Given /\ place' = "skip"
  BY DEF Comment, AtName, Step, Given, Built, TypeOK
<1>. QED
  BY <1>2, <1>3, ReadTypes DEF Fields

LEMMA BlankTypes ==
  ASSUME TypeOK, BlankLine
  PROVE  TypeOK'
<1>1. pos' \in 1..Len(input) + 1
  BY PairedWithin DEF BlankLine
<1>2. next \in EventRecord /\ published \in Seq(EventRecord) /\ <<>> \in Seq(Character)
  BY SeqParts DEF TypeOK
<1>3. /\ NewEvent(next.id) \in EventRecord /\ [next EXCEPT !.event = <<>>] \in EventRecord
      /\ Append(published, next) \in Seq(EventRecord)
  BY <1>2, EventParts, SeqParts
<1>4. next' \in EventRecord /\ haveData' \in BOOLEAN /\ published' \in Seq(EventRecord)
  BY <1>2, <1>3 DEF BlankLine, TypeOK
<1>5. Built /\ Given /\ place' = place
  BY <1>4 DEF BlankLine, AtName, Step, Given, Built, TypeOK
<1>. QED
  BY <1>1, <1>5, ReadTypes DEF TypeOK

LEMMA FieldTypes ==
  ASSUME TypeOK, Field
  PROVE  TypeOK'
<1>1. pos' \in 1..Len(input) + 1
  <2>1. CASE Here # ":"
    BY <2>1, Reading DEF Field
  <2>2. CASE Here = ":"
    <3>1. Here # EndOfFile
      BY <2>2, MarksAreCharacters
    <3>2. CASE At(pos + 1) = Space
      <4>1. pos' = pos + 2 /\ At(pos + 1) # EndOfFile
        BY Zenon, <2>2, <3>2, SpaceIsCharacter DEF Field
      <4>. QED
        BY <3>1, <4>1, PairWithin
    <3>3. CASE At(pos + 1) # Space
      <4>1. pos' = pos + 1
        BY <2>2, <3>3 DEF Field
      <4>. QED
        BY <3>1, <4>1, PairWithin
    <3>. QED
      BY <3>2, <3>3
  <2>. QED
    BY <2>1, <2>2
<1>2. place' \in Fields
  BY Zenon DEF Field, Fields
<1>3. next' \in EventRecord
  <2>1. next \in EventRecord /\ <<>> \in Seq(Character)
    BY SeqParts DEF TypeOK
  <2>2. /\ [next EXCEPT !.data = Append(next.data, LineFeed)] \in EventRecord
        /\ [next EXCEPT !.event = <<>>] \in EventRecord
    BY <2>1, EventParts, SeqParts, JoiningFeed
  <2>3. next' \in {next, [next EXCEPT !.data = Append(next.data, LineFeed)], [next EXCEPT !.event = <<>>]}
    BY Zenon DEF Field
  <2>. QED
    BY <2>1, <2>2, <2>3
<1>4. Built /\ Given
  BY <1>3, SeqParts DEF Field, AtName, Step, Given, Built, TypeOK
<1>. QED
  BY <1>1, <1>2, <1>4, ReadTypes

LEMMA ValueTypes ==
  ASSUME TypeOK, ValueGoesOn
  PROVE  TypeOK'
<1>1. Here \in Character /\ pos <= Len(input)
  BY Reading DEF ValueGoesOn
<1>2. pos' \in 1..Len(input) + 1
  BY <1>1, Reading DEF ValueGoesOn
<1>3. value' \in Seq(Character)
  BY <1>1, SeqParts DEF ValueGoesOn, TypeOK
<1>4. next' \in EventRecord
  <2>1. next \in EventRecord
    BY DEF TypeOK
  <2>2. /\ [next EXCEPT !.data = Append(next.data, Here)] \in EventRecord
        /\ [next EXCEPT !.event = Append(next.event, Here)] \in EventRecord
    BY <1>1, <2>1, EventParts, SeqParts
  <2>3. CASE place = "data"
    BY <2>2, <2>3 DEF ValueGoesOn
  <2>4. CASE place = "event"
    BY <2>2, <2>4 DEF ValueGoesOn
  <2>5. CASE place \notin {"data", "event"}
    BY <2>1, <2>5 DEF ValueGoesOn
  <2>. QED
    BY <2>3, <2>4, <2>5
<1>5. Built /\ Given /\ place' = place
  BY <1>3, <1>4 DEF ValueGoesOn, AtValue, Step, Given, Built, TypeOK
<1>. QED
  BY <1>2, <1>5, ReadTypes DEF TypeOK

LEMMA LineTypes ==
  ASSUME TypeOK, EndOfLine
  PROVE  TypeOK'
<1>1. pos' \in 1..Len(input) + 1
  <2>1. CASE AtLineEnd
    BY <2>1, PairedWithin DEF EndOfLine
  <2>2. CASE ~AtLineEnd
    BY <2>2, Reading DEF EndOfLine
  <2>. QED
    BY <2>1, <2>2
<1>2. next' \in EventRecord
  <2>1. next \in EventRecord /\ value \in Seq(Character)
    BY DEF TypeOK
  <2>2. [next EXCEPT !.id = value] \in EventRecord
    BY <2>1, EventParts
  <2>3. next' \in {next, [next EXCEPT !.id = value]}
    BY Zenon DEF EndOfLine
  <2>. QED
    BY <2>1, <2>2, <2>3
<1>3. Built /\ Given /\ place' = "name"
  BY Zenon, <1>2 DEF EndOfLine, AtValue, Step, Given, Built, TypeOK
<1>. QED
  BY <1>1, <1>3, ReadTypes

LEMMA ArriveTypes ==
  ASSUME TypeOK, NEW c \in Chunks, Arrive(c)
  PROVE  TypeOK'
<1>1. input' \in Seq(Character) /\ Len(input') >= Len(input) /\ Len(input') \in Nat
  BY Delivered, SeqParts DEF Arrive, TypeOK
<1>2. pos' \in 1..Len(input') + 1
  BY <1>1, Reading DEF Arrive
<1>3. chunks' \in 0..MaxChunks
  BY MaxChunksAssumption DEF Arrive, TypeOK
<1>. QED
  BY <1>1, <1>2, <1>3 DEF Arrive, TypeOK

LEMMA ClosedTypes ==
  ASSUME TypeOK, Closed
  PROVE  TypeOK'
  BY DEF Closed, TypeOK

LEMMA TypesKept ==
  ASSUME TypeOK, [Next]_vars
  PROVE  TypeOK'
<1>1. CASE \E c \in Chunks : Arrive(c)
  BY <1>1, ArriveTypes
<1>2. CASE Closed
  BY <1>2, ClosedTypes
<1>3. CASE ReadEvent
  BY <1>3, NameTypes, EndTypes, BlankTypes, CommentTypes, FieldTypes, ValueTypes, LineTypes
     DEF ReadEvent
<1>4. CASE Stopped \/ UNCHANGED vars
  BY <1>4 DEF Stopped, vars, TypeOK
<1>. QED
  BY <1>1, <1>2, <1>3, <1>4 DEF Next

\* The reader stays within what was delivered, and what it builds and hands over consists
\* of delivered characters and joining line feeds, in every state (readEvent).
THEOREM TypeCorrect == Spec => []TypeOK
<1>1. Init => TypeOK
  BY InitialTypes
<1>2. TypeOK /\ [Next]_vars => TypeOK'
  BY TypesKept
<1>. QED
  BY <1>1, <1>2, PTL DEF Spec

----------------------------------------------------------------------------
(* What has been read, as a text that goes on.                             *)

\* c follows s and ends no line.
Plain(t, s, c) == s \in Seq(Character) /\ c \in Character /\ c \notin {LineFeed, CarriageReturn} /\ t = Append(s, c)

LEMMA PlainSays ==
  ASSUME NEW s, NEW t, NEW c, Plain(t, s, c)
  PROVE  /\ s \in Seq(Character) /\ t \in Seq(Character) /\ Extends(t, s) /\ Len(t) = Len(s) + 1 /\ Len(s) \in Nat
         /\ Events(t) = Events(s) /\ LastId(t) = LastId(s)
         /\ Recent(t) = Recent(s) /\ Unended(t).first = Unended(s).first
         /\ \A e, some : Tells(e, some, t, Recent(s)) <=> Tells(e, some, s, Recent(s))
<1>1. s \in Seq(Character) /\ c \in Character /\ c \notin {LineFeed, CarriageReturn} /\ t = Append(s, c)
  BY DEF Plain
<1>2. Events(t) = Events(s)
  BY <1>1, JoiningFeed, EventsPlain
<1>3. t \in Seq(Character) /\ Extends(t, s) /\ Lines(t) = Lines(s)
  BY <1>1, PlainEnds, PlainLines
<1>4. Recent(t) = Recent(s) /\ Unended(t).first = Unended(s).first /\ Len(t) = Len(s) + 1
  BY <1>1, LineGoesOn
<1>5. LastId(t) = LastId(s)
  BY <1>1, <1>3, IdOn
<1>6. Past(Recent(s), Len(s)) /\ Len(s) \in Nat
  BY <1>1, LinesPast
<1>7. \A e, some : Tells(e, some, t, Recent(s)) <=> Tells(e, some, s, Recent(s))
  BY <1>1, <1>3, <1>6, JoiningFeed, TellsOn
<1>. QED
  BY <1>1, <1>2, <1>3, <1>4, <1>5, <1>6, <1>7

LEMMA BeginningOne ==
  ASSUME NEW C, NEW s \in Seq(C), NEW p \in 1..Len(s)
  PROVE  SubSeq(s, 1, p) = Append(SubSeq(s, 1, p - 1), s[p])
  OBVIOUS

LEMMA Beginning ==
  ASSUME NEW C, NEW s \in Seq(C), NEW p \in 1..Len(s) + 1
  PROVE  /\ SubSeq(s, 1, p - 1) \in Seq(C) /\ Len(SubSeq(s, 1, p - 1)) = p - 1
         /\ \A i \in 1..p - 1 : SubSeq(s, 1, p - 1)[i] = s[i]
<1>1. p - 1 \in 0..Len(s) /\ p - 1 \in Nat
  OBVIOUS
<1>. QED
  BY <1>1

Read == SubSeq(input, 1, pos - 1)

LEMMA ReadIs ==
  ASSUME TypeOK
  PROVE  /\ Read \in Seq(Character) /\ Len(Read) = pos - 1 /\ Len(Read) + 1 = pos
         /\ \A i \in 1..pos - 1 : Read[i] = input[i]
<1>1. input \in Seq(Character) /\ pos \in 1..Len(input) + 1 /\ Len(input) \in Nat
  BY DEF TypeOK
<1>. QED
  BY <1>1, Beginning DEF Read

\* One more character is read.
LEMMA ReadOne ==
  ASSUME TypeOK, Given, pos' = pos + 1, Here \notin {LineFeed, CarriageReturn, EndOfFile}
  PROVE  Plain(Read', Read, Here)
<1>1. input \in Seq(Character) /\ pos \in 1..Len(input) /\ Here = input[pos] /\ Here \in Character
  BY Reading DEF TypeOK, Here, At
<1>2. SubSeq(input, 1, pos) = Append(SubSeq(input, 1, pos - 1), input[pos])
  BY <1>1, BeginningOne
<1>3. Read' = SubSeq(input, 1, pos)
  BY <1>1 DEF Read, Given
<1>. QED
  BY <1>1, <1>2, <1>3, ReadIs DEF Plain, Read

\* A \r is read with its \n, and for sure.
Settled == pos > 1 /\ input[pos - 1] = CarriageReturn => Known(pos) /\ Here # LineFeed

LEMMA PlainSettled ==
  ASSUME TypeOK, Given, pos' = pos + 1, Here \notin {LineFeed, CarriageReturn, EndOfFile}
  PROVE  Settled'
<1>1. Here = input[pos] /\ Here # CarriageReturn /\ pos \in Nat
  BY Reading DEF TypeOK, Here, At
<1>2. input'[pos' - 1] = input[pos]
  BY <1>1 DEF Given
<1>. QED
  BY <1>1, <1>2 DEF Settled

LEMMA ReadLineEnd ==
  ASSUME TypeOK, Settled, AtLineEnd, Step, pos' = pos + Paired
  PROVE  Read' \in Seq(Character) /\ EndsLine(Read', Read) /\ Settled'
<1>. DEFINE s == Read
            t == Read'
            n == Len(Read)
<1>1. /\ input \in Seq(Character) /\ Len(input) \in Nat /\ pos \in 1..Len(input) /\ Here = input[pos]
      /\ n = pos - 1 /\ n \in Nat /\ s \in Seq(Character) /\ \A i \in 1..n : s[i] = input[i]
  <2>1. Here # EndOfFile
    BY MarksAreCharacters DEF AtLineEnd
  <2>. QED
    BY <2>1, Reading, ReadIs DEF TypeOK, Here, At
<1>2. pos' \in 1..Len(input) + 1 /\ input' = input /\ pos' = pos + Paired
  BY PairedWithin DEF Step
<1>3. t \in Seq(Character) /\ Len(t) = pos' - 1 /\ \A i \in 1..pos' - 1 : t[i] = input[i]
  <2>1. t = SubSeq(input, 1, pos' - 1)
    BY <1>2 DEF Read
  <2>. QED
    BY <1>1, <1>2, <2>1, Beginning
<1>. HIDE DEF s, t, n
<1>4. Paired \in {1, 2}
  BY DEF Paired
<1>5. Extends(t, s) /\ Len(t) = n + Paired /\ Len(s) = n
  <2>1. Len(t) = n + Paired /\ Len(s) = n
    BY <1>1, <1>2, <1>3, <1>4 DEF n, s
  <2>2. \A i \in 1..n : t[i] = s[i] /\ n <= Len(t)
    BY <1>1, <1>2, <1>3, <1>4
  <2>. QED
    BY <1>1, <2>1, <2>2 DEF Extends
<1>6. CASE Here = CarriageReturn /\ At(pos + 1) = LineFeed
  <2>1. Paired = 2
    BY <1>6 DEF Paired
  <2>2. pos + 1 <= Len(input) /\ input[pos + 1] = LineFeed
    BY <1>1, <1>6, MarksAreCharacters DEF At
  <2>3. Len(t) = n + 2 /\ Len(t) - 1 = pos /\ Len(t) = pos + 1 /\ Len(t) \in 1..pos' - 1 /\ pos \in 1..pos' - 1
    BY <1>1, <1>2, <1>5, <2>1
  <2>4. t[Len(t) - 1] = CarriageReturn /\ t[Len(t)] = LineFeed
    BY <1>1, <1>3, <1>6, <2>2, <2>3
  <2>5. EndsLine(t, s)
    BY <1>5, <2>3, <2>4 DEF EndsLine
  <2>6. Settled'
    <3>1. input'[pos' - 1] = LineFeed
      BY <1>1, <1>2, <2>1, <2>2
    <3>. QED
      BY <3>1, FeedIsNoReturn DEF Settled
  <2>. QED
    BY <1>3, <2>5, <2>6 DEF s, t
<1>7. CASE Here = CarriageReturn /\ At(pos + 1) # LineFeed
  <2>1. Paired = 1
    BY <1>7 DEF Paired
  <2>2. Len(t) = n + 1 /\ Len(t) = pos /\ pos \in 1..pos' - 1 /\ pos' = pos + 1
    BY <1>1, <1>2, <1>5, <2>1
  <2>3. t[Len(t)] = CarriageReturn
    BY <1>1, <1>3, <1>7, <2>2
  <2>4. EndsLine(t, s)
    BY <1>5, <2>2, <2>3 DEF EndsLine
  <2>5. Known(pos)
    BY <1>1 DEF Known
  <2>6. Known(pos + 1)
    BY <1>7, <2>5 DEF Step, Looks
  <2>7. Settled'
    BY <1>7, <2>2, <2>6 DEF Settled, Step, Known, Here, At
  <2>. QED
    BY <1>3, <2>4, <2>7 DEF s, t
<1>8. CASE Here # CarriageReturn
  <2>0. Here = LineFeed
    BY <1>8 DEF AtLineEnd
  <2>1. Paired = 1
    BY <1>8 DEF Paired
  <2>2. Len(t) = n + 1 /\ Len(t) = pos /\ pos \in 1..pos' - 1 /\ pos' = pos + 1
    BY <1>1, <1>2, <1>5, <2>1
  <2>3. t[Len(t)] = LineFeed
    BY <1>1, <1>3, <2>0, <2>2
  <2>4. n = 0 \/ s[n] # CarriageReturn
    <3>1. pos > 1 => input[pos - 1] # CarriageReturn
      BY <2>0 DEF Settled
    <3>. QED
      BY <1>1, <3>1
  <2>5. EndsLine(t, s)
    BY <1>5, <2>2, <2>3, <2>4 DEF EndsLine
  <2>6. Settled'
    <3>0. pos' - 1 = pos /\ input[pos] = LineFeed
      BY <1>1, <2>0, <2>2
    <3>1. input'[pos' - 1] = LineFeed
      BY <1>2, <3>0
    <3>. QED
      BY <3>1, FeedIsNoReturn DEF Settled
  <2>. QED
    BY <1>3, <2>5, <2>6 DEF s, t
<1>. QED
  BY <1>6, <1>7, <1>8

----------------------------------------------------------------------------
(* What the reader has got of the line and of the event that are going on. *)

InName == Middle(Read) = Len(Read) + 1 /\ name = Unended(Read).name

\* A line without a colon is over at once, and a space after a field's colon is read with it.
InValue ==
  /\ name = <<>>
  /\ ~Blank(Unended(Read))
  /\ place = Kind(Unended(Read).name)
  /\ Middle(Read) = Len(Read) + 1 => Here # EndOfFile /\ AtLineEnd
  /\ Middle(Read) = Len(Read) /\ Unended(Read).name # <<>> => Known(pos) /\ Here # Space
  /\ place = "id" => value = TextAt(Read, Unended(Read).value)

Following ==
  /\ place \in {"name"} \cup Fields
  /\ place = "name" => InName
  /\ place \in Fields => InValue

\* The lines that tell of the event, the one that is read included once its name is known.
Telling == IF place \in Fields THEN Recent(Read) \cup {Unended(Read)} ELSE Recent(Read)

Building == next.id = LastId(Read) /\ Tells(next, haveData, Read, Telling)

\* After the end of the input no more is read, and what was begun is left.
AtEnd == closed /\ pos = Len(input) + 1

\* What the caller has got: the events, their data without the line feeds it begins with.
Handed == published = Shortened(Events(Read))

IInv == TypeOK /\ Settled /\ Handed /\ (AtEnd \/ (Following /\ Building))

LEMMA EventWhole ==
  ASSUME NEW e \in EventRecord
  PROVE  Whole(e)
  BY DEF EventRecord, Whole

LEMMA FieldsAre ==
  "name" \notin Fields /\ "failed" \notin Fields /\ "failed" # "name" /\ Fields = {"data", "event", "id", "skip"}
  BY DEF Fields

LEMMA NameRead ==
  ASSUME TypeOK, Handed, Following, Building, NameGoesOn
  PROVE  Settled' /\ Handed' /\ Following' /\ Building'
<1>. DEFINE s == Read
            t == Read'
            c == Here
<1>1. Plain(t, s, c) /\ Settled' /\ c # ":"
  BY ReadOne, PlainSettled DEF NameGoesOn, AtName, Step, Given
<1>2. place = "name" /\ place' = "name"
  BY DEF NameGoesOn, AtName
<1>3. name' = Append(name, c) /\ next' = next /\ haveData' = haveData /\ published' = published
  BY DEF NameGoesOn
<1>4. Middle(s) = Len(s) + 1 /\ name = Unended(s).name
  BY <1>2 DEF Following, InName
<1>5. published = Shortened(Events(s)) /\ next.id = LastId(s) /\ Tells(next, haveData, s, Recent(s))
  BY <1>2, FieldsAre DEF Handed, Building, Telling, Read
<1>. HIDE DEF s, t, c
<1>6. Middle(t) = Len(t) + 1 /\ Unended(t).name = Append(Unended(s).name, c)
  <2>1. s \in Seq(Character) /\ c \in Character /\ c \notin {LineFeed, CarriageReturn, ":"} /\ t = Append(s, c)
    BY <1>1 DEF Plain
  <2>2. Middle(t) = Len(s) + 2 /\ Unended(t).name = Append(Unended(s).name, c)
    BY <1>4, <2>1, NameGrown
  <2>3. Len(t) = Len(s) + 1 /\ Len(s) \in Nat
    BY <1>1, PlainSays
  <2>. QED
    BY <2>2, <2>3
<1>7. Events(t) = Events(s) /\ LastId(t) = LastId(s) /\ Recent(t) = Recent(s) /\ Tells(next, haveData, t, Recent(s))
  BY <1>1, <1>5, PlainSays
<1>8. InName'
  BY <1>3, <1>4, <1>6 DEF InName, t
<1>9. Following'
  BY <1>2, <1>8, FieldsAre DEF Following
<1>10. Handed'
  BY <1>3, <1>5, <1>7 DEF Handed, Read, t
<1>11. Building'
  <2>1. Telling' = Recent(t)
    BY <1>2, FieldsAre DEF Telling, t
  <2>2. next'.id = LastId(t) /\ Tells(next', haveData', t, Recent(t))
    BY <1>3, <1>5, <1>7
  <2>. QED
    BY <2>1, <2>2 DEF Building, t
<1>. QED
  BY <1>1, <1>9, <1>10, <1>11

\* The first colon ends the name.
LEMMA ColonRead ==
  ASSUME NEW s, NEW t, Plain(t, s, ":"), Middle(s) = Len(s) + 1
  PROVE  /\ Middle(t) = Len(t) /\ Unended(t).name = Unended(s).name /\ Unended(t).value = {}
         /\ Len(t) = Len(s) + 1 /\ Len(s) \in Nat /\ ~Blank(Unended(t))
<1>1. s \in Seq(Character) /\ ":" \in Character /\ ":" \notin {LineFeed, CarriageReturn} /\ t = Append(s, ":")
  BY DEF Plain
<1>2. t \in Seq(Character) /\ Len(t) = Len(s) + 1 /\ Len(s) \in Nat /\ Unended(t).first = Unended(s).first
  BY PlainSays
<1>3. Unended(t).name = Unended(s).name
  BY <1>1, NameSame
<1>4. Middle(t) = Len(s) + 1
  <2>1. ~(Middle(s) <= Len(s))
    BY <1>2
  <2>. QED
    BY <1>1, <2>1, MiddleGoesOn
<1>5. Unended(t).value = {}
  <2>1. Middle(t) >= Len(t)
    BY <1>2, <1>4
  <2>. QED
    BY <1>2, <2>1, NoValueYet
<1>6. ~Blank(Unended(t))
  <2>1. Middle(t) \in Unended(t).first..Len(t) + 1 /\ Unended(t).first \in Int /\ Unended(t).last = Len(t)
    BY <1>2, UnendedMeans, UnendedPlaced, LinesPast
  <2>. QED
    BY <1>2, <1>4, <2>1 DEF Blank
<1>. QED
  BY <1>2, <1>3, <1>4, <1>5, <1>6

LEMMA CommentRead ==
  ASSUME TypeOK, Handed, Following, Building, Comment
  PROVE  Settled' /\ Handed' /\ Following' /\ Building'
<1>. DEFINE s == Read
            t == Read'
<1>0. ":" \notin {LineFeed, CarriageReturn, EndOfFile}
  BY MarksAreCharacters DEF LineFeed, CarriageReturn
<1>1. Plain(t, s, ":") /\ Settled'
  BY <1>0, ReadOne, PlainSettled DEF Comment, AtName, Step, Given
<1>2. place = "name" /\ place' = "skip" /\ name = <<>>
  BY DEF Comment, AtName
<1>3. name' = name /\ next' = next /\ haveData' = haveData /\ published' = published
  BY DEF Comment
<1>4. Middle(s) = Len(s) + 1 /\ name = Unended(s).name
  BY <1>2 DEF Following, InName
<1>5. published = Shortened(Events(s)) /\ next.id = LastId(s) /\ Tells(next, haveData, s, Recent(s))
  BY <1>2, FieldsAre DEF Handed, Building, Telling, Read
<1>. HIDE DEF s, t
<1>6. /\ Middle(t) = Len(t) /\ Unended(t).name = <<>>
      /\ Len(t) = Len(s) + 1 /\ Len(s) \in Nat /\ ~Blank(Unended(t))
  BY <1>1, <1>2, <1>4, ColonRead
<1>7. Events(t) = Events(s) /\ LastId(t) = LastId(s) /\ Recent(t) = Recent(s) /\ Tells(next, haveData, t, Recent(s))
  BY <1>1, <1>5, PlainSays
<1>8. InValue'
  <2>1. Kind(Unended(t).name) = "skip"
    BY <1>6, KindIs, SeqParts
  <2>2. Middle(t) # Len(t) + 1
    BY <1>6
  <2>. QED
    BY <1>2, <1>3, <1>6, <2>1, <2>2 DEF InValue, t
<1>9. Following'
  BY <1>2, <1>8, FieldsAre DEF Following
<1>10. Handed'
  BY <1>3, <1>5, <1>7 DEF Handed, Read, t
<1>11. Building'
  <2>1. Telling' = Recent(t) \cup {Unended(t)}
    BY <1>2, FieldsAre DEF Telling, t
  <2>2. Unended(t).name \notin {<<"event">>, <<"data">>}
    BY <1>6
  <2>3. Tells(next', haveData', t, Recent(t) \cup {Unended(t)})
    BY <1>3, <1>7, <2>2, TellsOther
  <2>4. next'.id = LastId(t)
    BY <1>3, <1>5, <1>7
  <2>. QED
    BY <2>1, <2>3, <2>4 DEF Building, t
<1>. QED
  BY <1>1, <1>9, <1>10, <1>11

\* A blank line hands over an event with data, and what was begun without data is gone.
LEMMA BlankRead ==
  ASSUME TypeOK, Settled, Handed, Following, Building, BlankLine
  PROVE  Settled' /\ Handed' /\ Following' /\ Building'
<1>. DEFINE s == Read
            t == Read'
            u == Unended(s)
<1>1. t \in Seq(Character) /\ EndsLine(t, s) /\ Settled' /\ s \in Seq(Character)
  BY ReadLineEnd, ReadIs DEF BlankLine, AtName
<1>2. place = "name" /\ place' = "name" /\ name = <<>> /\ name' = <<>>
  BY DEF BlankLine, AtName
<1>3. next \in EventRecord /\ Whole(next) /\ haveData \in BOOLEAN
  BY EventWhole DEF TypeOK
<1>4. Middle(s) = Len(s) + 1 /\ name = u.name
  BY <1>2 DEF Following, InName
<1>5. published = Shortened(Events(s)) /\ next.id = LastId(s) /\ Tells(next, haveData, s, Recent(s))
  BY <1>2, FieldsAre DEF Handed, Building, Telling, Read
<1>. HIDE DEF s, t
<1>6. Blank(u) /\ (Due(s) <=> haveData)
  <2>1. Blank(u)
    BY <1>1, <1>2, <1>4, BlankIs
  <2>2. haveData <=> Named(Recent(s), "data") # {}
    BY <1>5 DEF Tells
  <2>. QED
    BY <2>1, <2>2 DEF Due
<1>7. Recent(t) = {} /\ Fresh(t) /\ LastId(t) = LastId(s)
  <2>1. ~Identifies(s, u)
    BY <1>2, <1>4 DEF Identifies
  <2>2. LastId(t) = LastId(s)
    BY <1>1, <2>1, IdEnded
  <2>3. Recent(t) = {} /\ Fresh(t)
    BY <1>1, <1>6, RecentEnded
  <2>. QED
    BY <2>2, <2>3
<1>8. Shortened(Events(t)) = IF haveData THEN Append(published, next) ELSE published
  <2>. DEFINE e == Event(s, Lines(s), u.first)
  <2>1. Events(t) = IF Due(s) THEN Append(Events(s), e) ELSE Events(s)
    BY <1>1, JoiningFeed, EventsEnded
  <2>2. Short(e) = next
    <3>1. next = [id |-> next.id, event |-> next.event, data |-> next.data]
      BY <1>3 DEF Whole
    <3>. QED
      BY <1>1, <1>5, <3>1, EventDue
  <2>. HIDE DEF e
  <2>3. PICK D : Events(s) \in Seq(D) /\ e \in D
    <3>1. PICK D : Events(s) \in Seq(D)
      BY <1>1, EventsLength
    <3>2. Events(s) \in Seq(D \cup {e})
      BY <3>1
    <3>. QED
      BY <3>2
  <2>4. Shortened(Append(Events(s), e)) = Append(Shortened(Events(s)), Short(e))
    BY <2>3, ShortenedMore
  <2>. QED
    BY <1>5, <1>6, <2>1, <2>2, <2>4
<1>9. Handed'
  <2>1. published' = IF haveData THEN Append(published, next) ELSE published
    BY DEF BlankLine
  <2>. QED
    BY <1>8, <2>1 DEF Handed, Read, t
<1>10. Following'
  <2>1. InName'
    BY <1>2, <1>7 DEF Fresh, InName, t
  <2>. QED
    BY <1>2, <2>1, FieldsAre DEF Following
<1>11. Building'
  <2>1. Telling' = {}
    BY <1>2, <1>7, FieldsAre DEF Telling, t
  <2>2. LastValue(t, {}) = <<>> /\ Stripped(Data(t, {})) = <<>> /\ LastValue(s, {}) = <<>> /\ Stripped(Data(s, {})) = <<>>
    BY LastValueOfNone, StrippedNone
  <2>3. next'.id = next.id /\ next'.event = <<>> /\ next'.data = <<>> /\ haveData' = FALSE
    <3>1. CASE haveData
      BY <3>1 DEF BlankLine, NewEvent
    <3>2. CASE ~haveData
      <4>1. next' = [next EXCEPT !.event = <<>>] /\ haveData' = FALSE
        BY <1>3, <3>2 DEF BlankLine
      <4>2. next'.id = next.id /\ next'.event = <<>> /\ next'.data = next.data
        BY <1>3, <4>1, Changed
      <4>3. next.data = <<>>
        BY <1>5, <2>2, <3>2 DEF Tells
      <4>. QED
        BY <4>1, <4>2, <4>3
    <3>. QED
      BY <3>1, <3>2
  <2>4. Named({}, "data") = {} /\ Named({}, "event") = {}
    BY DEF Named
  <2>5. Tells(next', haveData', t, {})
    BY <2>2, <2>3, <2>4 DEF Tells
  <2>6. next'.id = LastId(t)
    BY <1>5, <1>7, <2>3
  <2>. QED
    BY <2>1, <2>5, <2>6 DEF Building, t
<1>. QED
  BY <1>1, <1>9, <1>10, <1>11

----------------------------------------------------------------------------
(* A field.                                                                *)

LEMMA ReadMarks == ":" \notin {LineFeed, CarriageReturn, EndOfFile} /\ {LineFeed, CarriageReturn} \cap {":"} = {}
  BY MarksAreCharacters DEF LineFeed, CarriageReturn

\* The space after the colon is no part of the value.
AtColon(s) == Middle(s) = Len(s)

LEMMA SpaceRead ==
  ASSUME NEW s, NEW t, Plain(t, s, Space), AtColon(s)
  PROVE  /\ Middle(t) = Len(t) - 1 /\ Unended(t).name = Unended(s).name /\ Unended(t).value = {}
         /\ Len(t) \in Nat /\ ~Blank(Unended(t))
<1>. DEFINE n == Len(s)
            m == Middle(s)
<1>1. s \in Seq(Character) /\ Space \in Character /\ Space \notin {LineFeed, CarriageReturn} /\ t = Append(s, Space)
  BY DEF Plain
<1>2. t \in Seq(Character) /\ Len(t) = n + 1 /\ n \in Nat /\ t[n + 1] = Space /\ m = n
  BY <1>1 DEF AtColon
<1>. HIDE DEF n
<1>3. m <= n
  BY <1>2
<1>4. Middle(t) = m /\ Unended(t).name = Unended(s).name
  BY <1>1, <1>3, MiddleGoesOn, NameSame DEF n
<1>. HIDE DEF m
<1>5. Unended(t).value = {}
  <2>1. Unended(t).value = {i \in Middle(t) + 1..Len(t) : i = Middle(t) + 1 => t[i] # Space}
    BY <1>2, UnendedMeans
  <2>2. \A i \in Middle(t) + 1..Len(t) : i = Middle(t) + 1 /\ t[i] = Space
    BY <1>2, <1>4
  <2>. QED
    BY <2>1, <2>2
<1>6. ~Blank(Unended(t))
  <2>1. Middle(t) \in Unended(t).first..Len(t) + 1 /\ Unended(t).first \in Int /\ Unended(t).last = Len(t)
    BY <1>2, UnendedMeans, UnendedPlaced, LinesPast
  <2>. QED
    BY <1>2, <1>4, <2>1 DEF Blank
<1>. QED
  BY <1>2, <1>4, <1>5, <1>6

\* A colon and its space are read at once.
ColonSpace == Here = ":" /\ At(pos + 1) = Space /\ pos' = pos + 2 /\ Given

LEMMA ReadTwo ==
  ASSUME TypeOK, ColonSpace
  PROVE  Settled' /\ \E c : Plain(c, Read, ":") /\ Plain(Read', c, Space)
<1>1. input \in Seq(Character) /\ Len(input) \in Nat /\ pos \in 1..Len(input) /\ input[pos] = ":"
  <2>1. Here # EndOfFile
    BY MarksAreCharacters DEF ColonSpace
  <2>. QED
    BY <2>1, Reading DEF TypeOK, Here, At, ColonSpace
<1>2. pos + 1 \in 1..Len(input) /\ input[pos + 1] = Space
  <2>1. At(pos + 1) = Space
    BY DEF ColonSpace
  <2>2. pos + 1 <= Len(input)
    BY <2>1, SpaceIsCharacter DEF At
  <2>. QED
    BY <1>1, <2>1, <2>2 DEF At
<1>3. SubSeq(input, 1, pos) = Append(Read, ":")
  <2>1. SubSeq(input, 1, pos) = Append(SubSeq(input, 1, pos - 1), input[pos])
    BY <1>1, BeginningOne
  <2>. QED
    BY <1>1, <2>1 DEF Read
<1>4. input' = input /\ pos' - 1 = pos + 1
  BY <1>1 DEF ColonSpace, Given
<1>5. Read' = Append(SubSeq(input, 1, pos), Space)
  <2>1. SubSeq(input, 1, pos + 1) = Append(SubSeq(input, 1, pos + 1 - 1), input[pos + 1])
    BY <1>1, <1>2, BeginningOne
  <2>2. pos + 1 - 1 = pos
    BY <1>1
  <2>3. Read' = SubSeq(input, 1, pos + 1)
    BY <1>4 DEF Read
  <2>. QED
    BY <1>2, <2>1, <2>2, <2>3
<1>6. ":" \in Character /\ Space \in Character
  <2>1. input[pos] \in Character /\ input[pos + 1] \in Character
    BY <1>1, <1>2
  <2>. QED
    BY <1>1, <1>2, <2>1
<1>7. ":" \notin {LineFeed, CarriageReturn} /\ Space \notin {LineFeed, CarriageReturn}
  BY Zenon, ReadMarks DEF Space, LineFeed, CarriageReturn
<1>8. Read \in Seq(Character) /\ SubSeq(input, 1, pos) \in Seq(Character)
  <2>1. Read \in Seq(Character)
    BY ReadIs
  <2>. QED
    BY <1>3, <1>6, <2>1, SeqParts
<1>9. Plain(SubSeq(input, 1, pos), Read, ":") /\ Plain(Read', SubSeq(input, 1, pos), Space)
  BY <1>3, <1>5, <1>6, <1>7, <1>8 DEF Plain
<1>10. Settled'
  <2>1. input'[pos' - 1] = Space
    BY <1>2, <1>4
  <2>. QED
    BY <1>7, <2>1 DEF Settled
<1>. QED
  BY <1>9, <1>10

\* The line tells of the event from its name on.
LEMMA FieldTells ==
  ASSUME NEW t \in Seq(Character), Unended(t).value = {}, ~Blank(Unended(t)), Unended(t).name \in Seq(Character),
         NEW e \in EventRecord, NEW some \in BOOLEAN, Tells(e, some, t, Recent(t))
  PROVE  Tells(Opens(e, Kind(Unended(t).name)), some \/ Kind(Unended(t).name) = "data", t,
               Recent(t) \cup {Unended(t)})
<1>. DEFINE u == Unended(t)
            K == Recent(t)
<1>1. /\ Past(K, Len(t)) /\ \A l \in K : l.first < u.first /\ l.last < u.first
      /\ u.first \in 1..Len(t) + 1
  BY LinesPast
<1>2. u.last = Len(t) /\ Len(t) \in Nat
  BY UnendedPlaced
<1>3. Lettered(u, Character) /\ Whole(e)
  BY EventWhole DEF Lettered
<1>4. Opened(u, K, Len(t))
  <2>1. u.first \in 1..Len(t)
    BY <1>1, <1>2 DEF Blank
  <2>. QED
    BY <1>1, <2>1 DEF Opened
<1>. HIDE DEF u, K
<1>5. Tells(e, some, t, K)
  BY DEF K
<1>6. Tells(Opens(e, Kind(u.name)), some \/ Kind(u.name) = "data", t, K \cup {u})
  BY <1>1, <1>3, <1>4, <1>5, JoiningFeed, TellsOpened
<1>. QED
  BY <1>6 DEF u, K

LEMMA OpensId ==
  ASSUME NEW e, Whole(e), NEW kind
  PROVE  Opens(e, kind).id = e.id
<1>1. \/ Opens(e, kind) = e
      \/ Opens(e, kind) = [e EXCEPT !.data = Append(e.data, LineFeed)]
      \/ Opens(e, kind) = [e EXCEPT !.event = <<>>]
  BY Zenon DEF Opens
<1>2. [e EXCEPT !.data = Append(e.data, LineFeed)].id = e.id /\ [e EXCEPT !.event = <<>>].id = e.id
  BY Changed
<1>. QED
  BY Zenon, <1>1, <1>2

LEMMA HereEnds ==
  ASSUME TypeOK, Here = EndOfFile
  PROVE  pos = Len(input) + 1
<1>1. EndOfFile \notin Character
  <2>1. \A c \in Chunks : EndOfFile \notin ToSet(c)
    <3>. SUFFICES ASSUME NEW c \in Chunks PROVE EndOfFile \notin ToSet(c)
      OBVIOUS
    <3>1. c \in Seq(STRING \ {EndOfFile})
      BY ChunksAssumption
    <3>2. \A i \in DOMAIN c : c[i] # EndOfFile
      BY <3>1
    <3>. QED
      BY <3>2 DEF ToSet
  <2>. QED
    BY <2>1, MarksAreCharacters DEF Character
<1>2. input \in Seq(Character) /\ pos \in 1..Len(input) + 1 /\ Len(input) \in Nat
  BY DEF TypeOK
<1>3. pos <= Len(input) => input[pos] # EndOfFile
  BY <1>1, <1>2
<1>. QED
  BY <1>2, <1>3 DEF Here, At

LEMMA FieldRead ==
  ASSUME TypeOK, Settled, Handed, Following, Building, Field, ~AtEnd
  PROVE  Settled' /\ Handed' /\ Following' /\ Building'
<1>. DEFINE s == Read
            t == Read'
            v == Unended(t)
<1>1. /\ place = "name" /\ name # <<>> /\ name \in Seq(Character)
      /\ next \in EventRecord /\ haveData \in BOOLEAN /\ s \in Seq(Character) /\ Len(s) \in Nat
  BY ReadIs DEF Field, AtName, TypeOK
<1>2. /\ place' = Kind(name) /\ name' = <<>> /\ value' = <<>> /\ published' = published
      /\ haveData' = (haveData \/ place' = "data") /\ next' = Opens(next, place')
      /\ Given
  BY Zenon DEF Field, AtName, Step, Given, Kind, Opens
<1>3. Middle(s) = Len(s) + 1 /\ name = Unended(s).name
  BY <1>1 DEF Following, InName
<1>4. published = Shortened(Events(s)) /\ next.id = LastId(s) /\ Tells(next, haveData, s, Recent(s))
  BY <1>1, FieldsAre DEF Handed, Building, Telling, Read
<1>5. Here # EndOfFile
  <2>1. Here = EndOfFile => pos = Len(input) + 1
    BY HereEnds
  <2>2. Here = EndOfFile => Looks = pos
    BY MarksAreCharacters DEF Looks
  <2>3. Known(Looks)
    BY DEF Field, AtName, Step
  <2>4. Here = EndOfFile => closed
    BY <2>1, <2>2, <2>3, Reading DEF Known
  <2>. QED
    BY <2>1, <2>4 DEF AtEnd
<1>. DEFINE Said ==
              /\ Settled' /\ t \in Seq(Character)
              /\ Events(t) = Events(s) /\ LastId(t) = LastId(s)
              /\ Tells(next, haveData, t, Recent(t))
              /\ v.value = {} /\ ~Blank(v) /\ v.name = name
              /\ Middle(t) = Len(t) + 1 => (Here # EndOfFile /\ AtLineEnd)'
              /\ Middle(t) = Len(t) => (Known(pos) /\ Here # Space)'
<1>a. Here \in {LineFeed, CarriageReturn, ":"} /\ Step
  <2>1. Here \in {LineFeed, CarriageReturn, ":", EndOfFile} /\ Step
    BY Zenon DEF Field, AtName
  <2>. QED
    BY <1>5, <2>1
<1>6. ASSUME Here \in {LineFeed, CarriageReturn}
      PROVE  Said
  <2>1. pos' = pos
    <3>1. Here # ":"
      BY <1>6, ReadMarks
    <3>2. pos' = pos + 0
      BY Zenon, <3>1 DEF Field
    <3>. QED
      BY <3>2, Reading
  <2>2. t = s /\ Settled'
    BY <1>2, <2>1 DEF Read, Given, Settled, Known, Here, At
  <2>3. (Here # EndOfFile /\ AtLineEnd)'
    BY <1>2, <1>5, <1>6, <2>1 DEF Given, AtLineEnd, Here, At
  <2>. HIDE DEF s, t
  <2>4. Unended(s).value = {}
    <3>1. Middle(s) >= Len(s)
      BY <1>1, <1>3
    <3>. QED
      BY <1>1, <3>1, NoValueYet
  <2>5. ~Blank(Unended(s))
    BY <1>1, <1>3, BlankIs
  <2>6. Middle(t) # Len(t)
    BY <1>1, <1>3, <2>2
  <2>. QED
    BY <1>1, <1>3, <1>4, <2>2, <2>3, <2>4, <2>5, <2>6
<1>7. ASSUME Here = ":", At(pos + 1) # Space
      PROVE  Said
  <2>1. pos' = pos + 1
    BY Zenon, <1>7 DEF Field
  <2>2. Plain(t, s, ":") /\ Settled'
    BY <1>2, <1>7, <2>1, ReadMarks, ReadOne, PlainSettled
  <2>3. (Known(pos) /\ Here # Space)'
    <3>1. Known(pos)
      BY <1>5, Reading DEF Known
    <3>2. Known(pos + 1)
      BY <1>1, <1>7, <1>a, <3>1 DEF Step, Looks
    <3>. QED
      BY <1>2, <1>7, <2>1, <3>2 DEF Given, Known, Here, At
  <2>. HIDE DEF s, t
  <2>4. t \in Seq(Character) /\ Events(t) = Events(s) /\ LastId(t) = LastId(s) /\ Tells(next, haveData, t, Recent(t))
    BY <1>4, <2>2, PlainSays
  <2>5. Middle(t) = Len(t) /\ v.name = name /\ v.value = {} /\ ~Blank(v) /\ Middle(t) # Len(t) + 1
    <3>1. Len(t) \in Nat
      BY <2>4
    <3>2. Middle(t) = Len(t) /\ v.name = name /\ v.value = {} /\ ~Blank(v)
      BY <1>3, <2>2, ColonRead
    <3>. QED
      BY <3>1, <3>2
  <2>. QED
    BY <2>2, <2>3, <2>4, <2>5
<1>8. ASSUME Here = ":", At(pos + 1) = Space
      PROVE  Said
  <2>1. pos' = pos + 2
    BY Zenon, <1>8 DEF Field
  <2>a. ColonSpace
    BY <1>2, <1>8, <2>1 DEF ColonSpace
  <2>2. PICK c : Plain(c, s, ":") /\ Plain(t, c, Space)
    BY <2>a, ReadTwo
  <2>3. Settled'
    BY <2>a, ReadTwo
  <2>. HIDE DEF s, t
  <2>4. /\ Events(c) = Events(s) /\ LastId(c) = LastId(s) /\ Tells(next, haveData, c, Recent(c))
    BY <1>4, <2>2, PlainSays
  <2>5. t \in Seq(Character) /\ Events(t) = Events(c) /\ LastId(t) = LastId(c) /\ Tells(next, haveData, t, Recent(t))
    BY <2>2, <2>4, PlainSays
  <2>6. Middle(t) = Len(t) - 1 /\ Len(t) \in Nat /\ v.name = name /\ v.value = {} /\ ~Blank(v)
    <3>1. AtColon(c) /\ Unended(c).name = name
      BY <1>3, <2>2, ColonRead DEF AtColon
    <3>. QED
      BY <2>2, <3>1, SpaceRead
  <2>7. Middle(t) # Len(t) /\ Middle(t) # Len(t) + 1
    BY <2>6
  <2>. QED
    BY <2>3, <2>4, <2>5, <2>6, <2>7
<1>9. Said
  <2>. HIDE DEF Said
  <2>. QED
    BY <1>6, <1>7, <1>8, <1>a
<1>. HIDE DEF s, t
<1>10. place' \in Fields /\ place' # "name"
  BY <1>1, <1>2, KindIs, FieldsAre
<1>11. Following'
  <2>1. TextAt(t, {}) = <<>>
    BY TextOfNone
  <2>2. InValue'
    BY <1>2, <1>9, <2>1 DEF InValue, t
  <2>. QED
    BY <1>10, <2>2 DEF Following
<1>12. Handed'
  BY <1>2, <1>4, <1>9 DEF Handed, Read, t
<1>13. Building'
  <2>1. v.name = name /\ v.value = {} /\ ~Blank(v) /\ Tells(next, haveData, t, Recent(t)) /\ t \in Seq(Character)
    BY <1>9
  <2>2. Tells(Opens(next, Kind(name)), haveData \/ Kind(name) = "data", t, Recent(t) \cup {v})
    BY <1>1, <2>1, FieldTells
  <2>3. Tells(next', haveData', t, Recent(t) \cup {v})
    BY <1>2, <2>2
  <2>4. next'.id = next.id
    BY <1>1, <1>2, EventWhole, OpensId
  <2>. QED
    BY <1>4, <1>9, <1>10, <2>3, <2>4 DEF Building, Telling, t
<1>. QED
  BY <1>9, <1>11, <1>12, <1>13

----------------------------------------------------------------------------
(* A value, and the end of its line.                                       *)

GoesOn(t, s, c) == Plain(t, s, c) /\ Unended(s).name \in Seq(Character) /\ ~Blank(Unended(s))

\* A named line tells one more character.
LEMMA ValueTells ==
  ASSUME NEW s, NEW t, NEW c, GoesOn(t, s, c), Valued(s, c),
         NEW e \in EventRecord, NEW some, Tells(e, some, s, Recent(s) \cup {Unended(s)})
  PROVE  /\ Tells(Grows(e, Kind(Unended(s).name), c), some, t, Recent(t) \cup {Unended(t)})
         /\ TextAt(t, Unended(t).value) = Append(TextAt(s, Unended(s).value), c)
<1>. DEFINE u == Unended(s)
            v == Unended(t)
            K == Recent(s)
<1>1. s \in Seq(Character) /\ c \in Character /\ c \notin {LineFeed, CarriageReturn} /\ t = Append(s, c)
  BY DEF GoesOn, Plain
<1>2. Recent(t) = K /\ v.first = u.first /\ Len(s) \in Nat
  BY PlainSays DEF GoesOn
<1>3. v.value = u.value \cup {Len(s) + 1}
  BY <1>1, ValueGrown
<1>4. v.name = u.name
  BY <1>1, NameSame DEF Valued
<1>5. Past(K, Len(s)) /\ ComesAfter(u, K) /\ u.first \in 1..Len(s) + 1
  BY <1>1, LinesPast
<1>6. Placed(u, Len(s)) /\ u.last = Len(s)
  BY <1>1, UnendedPlaced
<1>7. u.name \in Seq(Character) /\ ~Blank(u)
  BY DEF GoesOn
<1>. HIDE DEF u, v, K
<1>8. u.first \in 1..Len(s)
  BY <1>2, <1>5, <1>6, <1>7 DEF Blank
<1>9. ValueMore(v, u, K, Len(s))
  BY <1>2, <1>3, <1>5, <1>6, <1>8 DEF ValueMore, Grown, Past
<1>10. Lettered(u, Character) /\ Lettered(v, Character) /\ NameKept(v, u)
  BY <1>4, <1>7 DEF Lettered, NameKept
<1>11. Whole(e) /\ Tells(e, some, s, K \cup {u})
  BY EventWhole DEF K, u
<1>12. Tells(Grows(e, Kind(u.name), c), some, Append(s, c), K \cup {v})
  BY <1>1, <1>5, <1>9, <1>10, <1>11, JoiningFeed, TellsGrown
<1>13. TextAt(t, v.value) = Append(TextAt(s, u.value), c)
  <2>1. u.value \in SUBSET (1..Len(s))
    BY <1>2, <1>6 DEF Placed
  <2>2. TextAt(Append(s, c), u.value \cup {Len(s) + 1}) = Append(TextAt(s, u.value), c)
    BY <1>1, <2>1, TextGrown
  <2>. QED
    BY Zenon, <1>1, <1>3, <2>2
<1>14. Tells(Grows(e, Kind(u.name), c), some, t, Recent(t) \cup {v})
  BY Zenon, <1>1, <1>2, <1>12
<1>. QED
  BY <1>13, <1>14 DEF u, v

\* A comment tells nothing.
LEMMA CommentTells ==
  ASSUME NEW s, NEW t, NEW c, Plain(t, s, c), Unended(s).name = <<>>, Unended(t).name = <<>>,
         NEW e, NEW some, Tells(e, some, s, Recent(s) \cup {Unended(s)})
  PROVE  Tells(e, some, t, Recent(t) \cup {Unended(t)})
<1>1. Unended(s).name \notin {<<"event">>, <<"data">>} /\ Unended(t).name \notin {<<"event">>, <<"data">>}
  OBVIOUS
<1>2. Tells(e, some, s, Recent(s))
  BY <1>1, TellsOther
<1>3. Tells(e, some, t, Recent(t))
  BY <1>2, PlainSays
<1>. QED
  BY <1>1, <1>3, TellsOther

\* What a value's line says of it, wherever it is in that.
LEMMA InLine ==
  ASSUME TypeOK, Following, place \in Fields
  PROVE  /\ InValue /\ Read \in Seq(Character) /\ Len(Read) \in Nat
         /\ Unended(Read).name \in Seq(Character)
         /\ Middle(Read) \in Int /\ Middle(Read) <= Len(Read) + 1
<1>1. Read \in Seq(Character)
  BY ReadIs
<1>2. Placed(Unended(Read), Len(Read)) /\ Len(Read) \in Nat
  BY <1>1, UnendedPlaced
<1>3. /\ Middle(Read) \in Unended(Read).first..Len(Read) + 1
      /\ Unended(Read).name = TextAt(Read, Unended(Read).first..Middle(Read) - 1)
  BY <1>1, UnendedMeans
<1>4. Middle(Read) \in Int /\ Middle(Read) <= Len(Read) + 1 /\ Unended(Read).first \in 1..Len(Read) + 1
  BY <1>2, <1>3 DEF Placed
<1>. DEFINE P == Unended(Read).first..Middle(Read) - 1
<1>5. P \in SUBSET (1..Len(Read))
  BY <1>2, <1>4
<1>. HIDE DEF P
<1>6. TextAt(Read, P) \in Seq(Character)
  BY <1>1, <1>5, TextType
<1>. QED
  BY <1>1, <1>2, <1>3, <1>4, <1>6 DEF P, Following

LEMMA GrowsId ==
  ASSUME NEW e, Whole(e), NEW kind, NEW c
  PROVE  Grows(e, kind, c).id = e.id
<1>1. CASE kind = "data"
  <2>1. Grows(e, kind, c) = [e EXCEPT !.data = Append(e.data, c)]
    BY <1>1 DEF Grows
  <2>. QED
    BY <2>1, Changed
<1>2. CASE kind = "event"
  <2>1. Grows(e, kind, c) = [e EXCEPT !.event = Append(e.event, c)]
    BY <1>2 DEF Grows
  <2>. QED
    BY <2>1, Changed
<1>3. CASE kind \notin {"data", "event"}
  BY <1>3 DEF Grows
<1>. QED
  BY <1>1, <1>2, <1>3

LEMMA ValueRead ==
  ASSUME TypeOK, Handed, Following, Building, ValueGoesOn
  PROVE  Settled' /\ Handed' /\ Following' /\ Building'
<1>. DEFINE s == Read
            t == Read'
            c == Here
            u == Unended(s)
            v == Unended(t)
<1>1. /\ Plain(t, s, c) /\ Settled'
  BY ReadOne, PlainSettled DEF ValueGoesOn, AtValue, Step, Given, AtLineEnd
<1>2. place \in Fields /\ place' = place
  BY DEF ValueGoesOn, AtValue
<1>3. /\ name' = name /\ haveData' = haveData /\ published' = published
      /\ next' = Grows(next, place, c)
      /\ value' = IF place = "id" THEN Append(value, c) ELSE value
      /\ ~AtLineEnd
  BY Zenon DEF ValueGoesOn, Grows
<1>4. /\ name = <<>> /\ ~Blank(u) /\ place = Kind(u.name) /\ s \in Seq(Character) /\ Len(s) \in Nat
      /\ u.name \in Seq(Character) /\ Middle(s) \in Int /\ Middle(s) <= Len(s) + 1
      /\ Middle(s) # Len(s) + 1
      /\ Middle(s) = Len(s) /\ u.name # <<>> => c # Space
      /\ place = "id" => value = TextAt(s, u.value)
  BY <1>2, <1>3, InLine DEF InValue
<1>5. /\ published = Shortened(Events(s)) /\ next.id = LastId(s) /\ next \in EventRecord
      /\ Tells(next, haveData, s, Recent(s) \cup {u})
  BY <1>2 DEF Handed, Building, Telling, Read, TypeOK
<1>. HIDE DEF s, t, c
<1>6. Middle(s) <= Len(s)
  BY <1>4
<1>7. c \in Character /\ c \notin {LineFeed, CarriageReturn} /\ t = Append(s, c)
  BY <1>1 DEF Plain
<1>8. Middle(t) = Middle(s) /\ v.name = u.name
  BY <1>4, <1>6, <1>7, MiddleGoesOn, NameSame
<1>9. Len(t) = Len(s) + 1 /\ Events(t) = Events(s) /\ LastId(t) = LastId(s) /\ v.first = u.first
  BY <1>1, PlainSays
<1>10. ~Blank(v)
  <2>1. t \in Seq(Character)
    BY <1>1, PlainSays
  <2>2. u.last = Len(s) /\ v.last = Len(t) /\ u.first \in Int
    BY <1>4, <2>1, UnendedPlaced, LinesPast
  <2>. HIDE DEF u, v
  <2>. QED
    BY <1>4, <1>9, <2>2 DEF Blank
<1>11. /\ Tells(next', haveData, t, Recent(t) \cup {v})
       /\ place = "id" => value' = TextAt(t, v.value)
  <2>1. CASE u.name = <<>>
    <3>1. place = "skip"
      BY <1>4, <2>1, KindIs
    <3>2. next' = next /\ place # "id"
      BY <1>3, <3>1 DEF Grows
    <3>3. Tells(next, haveData, t, Recent(t) \cup {v})
      BY <1>1, <1>5, <1>8, <2>1, CommentTells
    <3>. QED
      BY <3>2, <3>3
  <2>2. CASE u.name # <<>>
    <3>1. Valued(s, c)
      BY <1>4, <1>6, <2>2 DEF Valued
    <3>2. GoesOn(t, s, c)
      BY <1>1, <1>4 DEF GoesOn
    <3>3. /\ Tells(Grows(next, Kind(u.name), c), haveData, t, Recent(t) \cup {v})
          /\ TextAt(t, v.value) = Append(TextAt(s, u.value), c)
      BY <1>5, <3>1, <3>2, ValueTells
    <3>. QED
      BY <1>3, <1>4, <3>3
  <2>. QED
    BY <2>1, <2>2
<1>12. next'.id = next.id
  BY <1>3, <1>5, EventWhole, GrowsId
<1>13. Following'
  <2>1. Middle(t) # Len(t) + 1 /\ Middle(t) # Len(t)
    BY <1>4, <1>6, <1>8, <1>9
  <2>2. InValue'
    BY <1>2, <1>3, <1>4, <1>8, <1>10, <1>11, <2>1 DEF InValue, t
  <2>. QED
    BY <1>2, <2>2, FieldsAre DEF Following
<1>14. Handed'
  BY <1>3, <1>5, <1>9 DEF Handed, Read, t
<1>15. Building'
  BY <1>2, <1>3, <1>5, <1>9, <1>11, <1>12 DEF Building, Telling, t
<1>. QED
  BY <1>1, <1>13, <1>14, <1>15

LEMMA IdentifiesIs ==
  ASSUME NEW C, NEW s \in Seq(C), NEW u, Placed(u, Len(s))
  PROVE  Identifies(s, u) <=> u.name = <<"id">> /\ NUL \notin ToSet(TextAt(s, u.value))
<1>1. Len(s) \in Nat /\ u.value \in SUBSET (1..Len(s))
  BY DEF Placed
<1>2. NUL \in ToSet(TextAt(s, u.value)) <=> \E i \in u.value : s[i] = NUL
  BY <1>1, TextHas
<1>. QED
  BY <1>2 DEF Identifies

\* A line that ends is one more of the event's, and an id is known.
LEMMA LineRead ==
  ASSUME TypeOK, Settled, Handed, Following, Building, EndOfLine, ~AtEnd
  PROVE  Settled' /\ Handed' /\ Following' /\ Building'
<1>. DEFINE s == Read
            t == Read'
            u == Unended(s)
<1>1. AtLineEnd
  <2>1. Here = EndOfFile => pos = Len(input) + 1
    BY HereEnds
  <2>2. Here = EndOfFile => Looks = pos
    BY MarksAreCharacters DEF Looks
  <2>3. Known(Looks)
    BY DEF EndOfLine, AtValue, Step
  <2>4. Here # EndOfFile
    BY <2>1, <2>2, <2>3, Reading DEF Known, AtEnd
  <2>. QED
    BY <2>4 DEF EndOfLine
<1>2. pos' = pos + Paired /\ Step
  BY <1>1 DEF EndOfLine, AtValue
<1>3. t \in Seq(Character) /\ EndsLine(t, s) /\ Settled' /\ Extends(t, s)
  BY <1>1, <1>2, ReadLineEnd DEF EndsLine
<1>4. place \in Fields /\ place' = "name" /\ name' = name /\ haveData' = haveData /\ published' = published
  BY DEF EndOfLine, AtValue
<1>5. /\ name = <<>> /\ ~Blank(u) /\ place = Kind(u.name) /\ s \in Seq(Character) /\ Len(s) \in Nat
      /\ u.name \in Seq(Character) /\ (place = "id" => value = TextAt(s, u.value))
  BY <1>4, InLine DEF InValue
<1>6. /\ published = Shortened(Events(s)) /\ next.id = LastId(s) /\ next \in EventRecord /\ Whole(next)
      /\ Tells(next, haveData, s, Recent(s) \cup {u})
  BY <1>4, EventWhole DEF Handed, Building, Telling, Read, TypeOK
<1>7. Placed(u, Len(s)) /\ u.last = Len(s)
  BY <1>5, UnendedPlaced
<1>. HIDE DEF s, t, u
<1>8. Recent(t) = Recent(s) \cup {u} /\ Fresh(t)
  BY <1>3, <1>5, RecentEnded DEF u
<1>9. Events(t) = Events(s)
  <2>1. ~Due(s)
    BY <1>5 DEF Due, u
  <2>. QED
    BY <1>3, <1>5, <2>1, JoiningFeed, EventsEnded
<1>10. Tells(next, haveData, t, Recent(t))
  <2>1. Past(Recent(s) \cup {u}, Len(s))
    <3>1. Past(Recent(s), Len(s))
      BY <1>5, LinesPast
    <3>2. u.first <= Len(s)
      BY <1>5, <1>7 DEF Blank, Placed
    <3>. QED
      BY <1>7, <3>1, <3>2 DEF Past, AllPlaced
  <2>2. Tells(next, haveData, t, Recent(s) \cup {u})
    BY <1>3, <1>5, <1>6, <2>1, JoiningFeed, TellsOn
  <2>. QED
    BY <1>8, <2>2
<1>11. /\ next' = IF place = "id" /\ NUL \notin ToSet(value) THEN [next EXCEPT !.id = value] ELSE next
  BY DEF EndOfLine
<1>12. Identifies(s, u) <=> place = "id" /\ NUL \notin ToSet(value)
  <2>1. place = "id" <=> u.name = <<"id">>
    BY <1>5, KindIs
  <2>2. Identifies(s, u) <=> u.name = <<"id">> /\ NUL \notin ToSet(TextAt(s, u.value))
    BY <1>5, <1>7, IdentifiesIs
  <2>. QED
    BY <1>5, <2>1, <2>2
<1>13. LastId(t) = IF Identifies(s, u) THEN TextAt(s, u.value) ELSE LastId(s)
  BY <1>3, <1>5, IdEnded DEF u
<1>14. next'.id = LastId(t) /\ next'.event = next.event /\ next'.data = next.data
  <2>1. CASE Identifies(s, u)
    <3>1. next' = [next EXCEPT !.id = value]
      BY <1>11, <1>12, <2>1
    <3>2. next'.id = value /\ next'.event = next.event /\ next'.data = next.data
      BY <1>6, <3>1, Changed
    <3>. QED
      BY <1>5, <1>12, <1>13, <2>1, <3>2
  <2>2. CASE ~Identifies(s, u)
    BY <1>6, <1>11, <1>12, <1>13, <2>2
  <2>. QED
    BY <2>1, <2>2
<1>15. Following'
  <2>1. InName'
    BY <1>4, <1>5, <1>8 DEF Fresh, InName, t
  <2>. QED
    BY <1>4, <2>1, FieldsAre DEF Following
<1>16. Handed'
  BY <1>4, <1>6, <1>9 DEF Handed, Read, t
<1>17. Building'
  <2>1. Telling' = Recent(t)
    BY <1>4, FieldsAre DEF Telling, t
  <2>2. Tells(next', haveData', t, Recent(t))
    BY <1>4, <1>10, <1>14 DEF Tells
  <2>. QED
    BY <1>14, <2>1, <2>2 DEF Building, t
<1>. QED
  BY <1>3, <1>15, <1>16, <1>17

----------------------------------------------------------------------------
(* What comes from the connection, and its end.                            *)

\* What is not read yet changes nothing that has been.
LEMMA MoreKept ==
  ASSUME NEW C, NEW s \in Seq(C), NEW c \in Seq(C), NEW p \in 1..Len(s) + 1
  PROVE  SubSeq(s \o c, 1, p - 1) = SubSeq(s, 1, p - 1)
<1>1. s \o c \in Seq(C) /\ Len(s) \in Nat /\ Len(s) <= Len(s \o c) /\ \A i \in 1..Len(s) : (s \o c)[i] = s[i]
  OBVIOUS
<1>. DEFINE t == s \o c
<1>. HIDE DEF t
<1>2. t \in Seq(C) /\ p \in 1..Len(t) + 1 /\ Len(t) \in Nat /\ \A i \in 1..Len(s) : t[i] = s[i]
  BY <1>1 DEF t
<1>. DEFINE a == SubSeq(s, 1, p - 1)
            b == SubSeq(t, 1, p - 1)
<1>3. /\ a \in Seq(C) /\ b \in Seq(C) /\ Len(a) = p - 1 /\ Len(b) = p - 1
      /\ \A i \in 1..p - 1 : a[i] = s[i] /\ b[i] = t[i]
  BY <1>2, Beginning
<1>4. \A i \in 1..p - 1 : a[i] = b[i]
  BY <1>2, <1>3
<1>. HIDE DEF a, b
<1>5. a = b
  BY <1>3, <1>4
<1>. QED
  BY <1>5 DEF a, b, t

\* The connection is asked only for what is not known.
LEMMA ArriveKeeps ==
  ASSUME TypeOK, NEW c \in Chunks, Arrive(c)
  PROVE  /\ Read' = Read /\ ~closed /\ pos' = pos
         /\ Known(pos) => Known(pos)' /\ Here' = Here
<1>1. input \in Seq(Character) /\ c \in Seq(Character) /\ pos \in 1..Len(input) + 1 /\ Len(input) \in Nat
  BY Delivered DEF TypeOK
<1>2. input' = input \o c /\ pos' = pos /\ ~closed /\ closed' = closed
  BY DEF Arrive, Waits, Known
<1>3. Read' = Read
  BY <1>1, <1>2, MoreKept DEF Read
<1>4. Len(input) <= Len(input') /\ \A i \in 1..Len(input) : input'[i] = input[i]
  BY <1>1, <1>2
<1>5. Known(pos) => pos <= Len(input) /\ pos <= Len(input') /\ pos \in 1..Len(input)
  BY <1>1, <1>2, <1>4 DEF Known
<1>6. Known(pos) => Known(pos)' /\ Here' = Here
  BY <1>2, <1>4, <1>5 DEF Known, Here, At
<1>. QED
  BY <1>2, <1>3, <1>6

LEMMA ClosedKeeps ==
  ASSUME Closed
  PROVE  Read' = Read /\ ~closed /\ pos' = pos /\ Here' = Here /\ (Known(pos) => Known(pos)')
  BY DEF Closed, Waits, Known, Read, Here, At

\* Nothing of what the invariant says is changed by what comes.
Kept ==
  /\ pos' = pos /\ Read' = Read /\ (Known(pos) => Known(pos)' /\ Here' = Here)
  /\ pos > 1 => input'[pos - 1] = input[pos - 1]
  /\ UNCHANGED <<place, name, value, next, haveData, published>>

LEMMA KeptGoesOn ==
  ASSUME TypeOK, Kept
  PROVE  /\ Settled => Settled'
         /\ Handed => Handed'
         /\ Following => Following'
         /\ Building => Building'
<1>1. Settled => Settled'
  BY DEF Kept, Settled
<1>2. Handed => Handed'
  BY DEF Kept, Handed, Read
<1>3. Building => Building'
  BY DEF Kept, Building, Telling
<1>4. ASSUME Following
      PROVE  Following'
  <2>1. InName => InName'
    BY DEF Kept, InName
  <2>2. InValue => InValue'
    <3>1. AtLineEnd /\ Here # EndOfFile => Known(pos)
      BY Reading DEF Known
    <3>2. Known(pos) => (AtLineEnd <=> AtLineEnd')
      BY DEF Kept, AtLineEnd
    <3>. QED
      BY <3>1, <3>2 DEF Kept, InValue
  <2>. QED
    BY <1>4, <2>1, <2>2 DEF Kept, Following
<1>. QED
  BY <1>1, <1>2, <1>3, <1>4

LEMMA ComingKept ==
  ASSUME TypeOK, (\E c \in Chunks : Arrive(c)) \/ Closed
  PROVE  Kept /\ ~closed
<1>1. ASSUME NEW c \in Chunks, Arrive(c)
      PROVE  Kept /\ ~closed
  <2>1. pos > 1 => input'[pos - 1] = input[pos - 1]
    <3>1. input \in Seq(Character) /\ c \in Seq(Character) /\ pos \in 1..Len(input) + 1 /\ Len(input) \in Nat
      BY Delivered DEF TypeOK
    <3>2. \A i \in 1..Len(input) : (input \o c)[i] = input[i]
      BY <3>1
    <3>3. input' = input \o c
      BY <1>1 DEF Arrive
    <3>. QED
      BY <3>1, <3>2, <3>3
  <2>. QED
    BY <1>1, <2>1, ArriveKeeps DEF Kept, Arrive
<1>2. CASE Closed
  <2>1. input' = input /\ UNCHANGED <<place, name, value, next, haveData, published>>
    BY <1>2 DEF Closed
  <2>. QED
    BY <1>2, <2>1, ClosedKeeps DEF Kept
<1>. QED
  BY <1>1, <1>2

\* At the end the reader reads no more and hands over no more.
LEMMA EndStays ==
  ASSUME TypeOK, AtEnd, [Next]_vars
  PROVE  AtEnd' /\ input' = input /\ pos' = pos /\ published' = published
<1>1. Here = EndOfFile /\ closed /\ pos = Len(input) + 1
  BY Reading DEF AtEnd, Here, At
<1>2. LineFeed # EndOfFile /\ CarriageReturn # EndOfFile /\ ":" # EndOfFile
  BY MarksAreCharacters
<1>3. ~AtLineEnd
  BY <1>1, <1>2 DEF AtLineEnd
<1>4. UNCHANGED <<input, closed, pos, published>>
  <2>1. ~Waits
    BY <1>1 DEF Waits, Known
  <2>2. ~(\E c \in Chunks : Arrive(c)) /\ ~Closed
    BY <2>1 DEF Arrive, Closed
  <2>3. ~NameGoesOn /\ ~BlankLine /\ ~Comment /\ ~ValueGoesOn
    BY <1>1, <1>2, <1>3 DEF NameGoesOn, BlankLine, Comment, ValueGoesOn
  <2>4. pos \in Nat
    BY Reading
  <2>5. Field => UNCHANGED <<input, closed, pos, published>>
    <3>. SUFFICES ASSUME Field PROVE UNCHANGED <<input, closed, pos, published>>
      OBVIOUS
    <3>1. pos' = pos + 0
      BY Zenon, <1>1, <1>2 DEF Field
    <3>2. UNCHANGED <<input, closed, published>>
      BY Zenon DEF Field, AtName, Step
    <3>. QED
      BY <2>4, <3>1, <3>2
  <2>6. EndOfLine => UNCHANGED <<input, closed, pos, published>>
    BY <1>3, <2>4 DEF EndOfLine, AtValue, Step
  <2>7. EndOfInput => UNCHANGED <<input, closed, pos, published>>
    BY DEF EndOfInput, AtName, Step
  <2>8. Stopped \/ UNCHANGED vars => UNCHANGED <<input, closed, pos, published>>
    BY DEF Stopped, vars
  <2>. QED
    BY Zenon, <2>2, <2>3, <2>5, <2>6, <2>7, <2>8 DEF Next, ReadEvent
<1>. QED
  BY <1>1, <1>4 DEF AtEnd

----------------------------------------------------------------------------
(* The invariant.                                                          *)

LEMMA InitialRead == Init => IInv
<1>. SUFFICES ASSUME Init PROVE IInv
  OBVIOUS
<1>1. TypeOK
  BY InitialTypes
<1>2. Read = <<>>
  <2>1. input = <<>> /\ pos - 1 = 0
    BY DEF Init
  <2>. QED
    BY <2>1 DEF Read
<1>3. Settled
  BY DEF Init, Settled
<1>. DEFINE s == Read
<1>4. Events(s) = <<>> /\ LastId(s) = <<>> /\ Fresh(s) /\ Recent(s) = {}
  BY <1>2, ReadOfNone
<1>5. Handed
  <2>1. Shortened(<<>>) = <<>>
    BY DEF Shortened
  <2>. QED
    BY <1>4, <2>1 DEF Handed, Init
<1>. HIDE DEF s
<1>6. place = "name" /\ name = <<>>
  BY DEF Init
<1>7. Following
  <2>1. InName
    BY <1>4, <1>6 DEF Fresh, InName, s
  <2>. QED
    BY <1>6, <2>1, FieldsAre DEF Following
<1>8. Building
  <2>1. Telling = {}
    BY <1>4, <1>6, FieldsAre DEF Telling, s
  <2>2. next.id = <<>> /\ next.event = <<>> /\ next.data = <<>> /\ haveData = FALSE
    BY DEF Init, NewEvent
  <2>3. LastValue(s, {}) = <<>> /\ Stripped(Data(s, {})) = <<>> /\ Named({}, "data") = {} /\ Named({}, "event") = {}
    BY LastValueOfNone, StrippedNone DEF Named
  <2>4. Tells(next, haveData, s, {})
    BY <2>2, <2>3 DEF Tells
  <2>. QED
    BY <1>4, <2>1, <2>2, <2>4 DEF Building, s
<1>. QED
  BY <1>1, <1>3, <1>5, <1>7, <1>8 DEF IInv

\* The input ends where nothing is left to read, which is at the end.
LEMMA EndKnown ==
  ASSUME TypeOK, EndOfInput
  PROVE  AtEnd
<1>1. Here = EndOfFile /\ Known(Looks)
  BY DEF EndOfInput, AtName, Step
<1>2. pos = Len(input) + 1
  BY <1>1, HereEnds
<1>3. Looks = pos
  BY <1>1, MarksAreCharacters DEF Looks
<1>. QED
  BY <1>1, <1>2, <1>3, Reading DEF AtEnd, Known

LEMMA GoesOnRead ==
  ASSUME TypeOK, Settled, Handed, Following, Building, ~AtEnd, [Next]_vars
  PROVE  Settled' /\ Handed' /\ Following' /\ Building'
<1>1. CASE (\E c \in Chunks : Arrive(c)) \/ Closed
  BY <1>1, ComingKept, KeptGoesOn
<1>2. CASE NameGoesOn
  BY <1>2, NameRead
<1>3. CASE EndOfInput
  BY <1>3, EndKnown
<1>4. CASE BlankLine
  BY <1>4, BlankRead
<1>5. CASE Comment
  BY <1>5, CommentRead
<1>6. CASE Field
  BY <1>6, FieldRead
<1>7. CASE ValueGoesOn
  BY <1>7, ValueRead
<1>8. CASE EndOfLine
  BY <1>8, LineRead
<1>9. CASE Stopped \/ UNCHANGED vars
  <2>1. UNCHANGED vars
    BY <1>9 DEF Stopped
  <2>2. Kept
    BY <2>1 DEF vars, Kept, Read, Known, Here, At
  <2>. QED
    BY <2>2, KeptGoesOn
<1>. QED
  BY <1>1, <1>2, <1>3, <1>4, <1>5, <1>6, <1>7, <1>8, <1>9 DEF Next, ReadEvent

LEMMA EndedRead ==
  ASSUME TypeOK, Settled, Handed, AtEnd, [Next]_vars
  PROVE  Settled' /\ Handed' /\ AtEnd'
<1>1. AtEnd' /\ input' = input /\ pos' = pos /\ published' = published
  BY EndStays
<1>2. Handed'
  BY <1>1 DEF Handed, Read
<1>3. closed /\ closed'
  BY <1>1 DEF AtEnd
<1>4. Settled'
  BY <1>1, <1>3 DEF Settled, Known, Here, At
<1>. QED
  BY <1>1, <1>2, <1>4

\* In every state the reader has of the line and the event that are going on what the
\* characters before its place say of them, until it has met the end (readEvent).
THEOREM Inductive == Spec => []IInv
<1>1. Init => IInv
  BY InitialRead
<1>2. IInv /\ [Next]_vars => IInv'
  <2>. SUFFICES ASSUME IInv, [Next]_vars PROVE IInv'
    OBVIOUS
  <2>1. TypeOK /\ Settled /\ Handed /\ (AtEnd \/ (Following /\ Building))
    BY DEF IInv
  <2>2. TypeOK'
    BY <2>1, TypesKept
  <2>3. CASE AtEnd
    BY <2>1, <2>2, <2>3, EndedRead DEF IInv
  <2>4. CASE ~AtEnd
    BY <2>1, <2>2, <2>4, GoesOnRead DEF IInv
  <2>. QED
    BY <2>3, <2>4
<1>. QED
  BY <1>1, <1>2, PTL DEF Spec

\* At any time the caller has got exactly the events of what was read so far: wherever
\* reads end and whichever line ends are mixed, none is early, late, lost or made up
\* (readEvent, operator>>).
THEOREM EventsRead == Spec => []EventsAsRead
<1>1. ASSUME IInv
      PROVE  EventsAsRead
  <2>. DEFINE q == Events(Read)
  <2>1. published = Shortened(q)
    BY <1>1 DEF IInv, Handed
  <2>2. \A k \in DOMAIN q : Whole(q[k]) /\ q[k].data \in Seq(Character)
    BY <1>1, ReadIs, EventsWhole, JoiningFeed DEF IInv
  <2>. HIDE DEF q
  <2>3. Shortened(Shortened(q)) = Shortened(q)
    BY <2>2, ShortenedTwice
  <2>. QED
    BY <2>1, <2>3 DEF EventsAsRead, Read, q
<1>. QED
  BY <1>1, Inductive, PTL

----------------------------------------------------------------------------
(* Nothing is withheld.                                                    *)

\* A text to its end, and what it is without its last character.
LEMMA WholeText ==
  ASSUME NEW C, NEW s \in Seq(C)
  PROVE  SubSeq(s, 1, Len(s)) = s /\ Len(s) \in Nat
  OBVIOUS

\* When the reader waits it has read all but at most one character, and that one ends no line
\* unless it is a \r.
LEMMA WaitsWhere ==
  ASSUME TypeOK, Waits
  PROVE  /\ ~closed
         /\ \/ pos = Len(input) + 1
            \/ pos = Len(input) /\ input[pos] \in {CarriageReturn, ":"} /\ pos \in 1..Len(input)
<1>1. ~closed /\ ~(Looks <= Len(input))
  BY DEF Waits, Known
<1>2. pos \in 1..Len(input) + 1 /\ Len(input) \in Nat
  BY DEF TypeOK
<1>3. CASE Looks = pos
  BY <1>1, <1>2, <1>3
<1>4. CASE Looks # pos
  <2>1. Looks = pos + 1 /\ Known(pos) /\ Here \in {CarriageReturn, ":"}
    BY <1>4 DEF Looks
  <2>2. pos <= Len(input)
    BY <1>1, <2>1 DEF Known
  <2>. QED
    BY <1>1, <1>2, <2>1, <2>2 DEF Here, At
<1>. QED
  BY <1>3, <1>4

LEMMA NoneHeld == IInv => NothingWithheld
<1>. SUFFICES ASSUME IInv, Waits
              PROVE  LET settled == IF input # <<>> /\ input[Len(input)] = CarriageReturn THEN Len(input) - 1 ELSE Len(input)
                     IN Len(Events(SubSeq(input, 1, settled))) = Len(published)
  BY DEF NothingWithheld
<1>. DEFINE settled == IF input # <<>> /\ input[Len(input)] = CarriageReturn THEN Len(input) - 1 ELSE Len(input)
<1>1. /\ TypeOK /\ Settled /\ Len(published) = Len(Events(SubSeq(input, 1, pos - 1)))
      /\ input \in Seq(Character) /\ pos \in 1..Len(input) + 1 /\ Len(input) \in Nat
  <2>1. TypeOK
    BY DEF IInv
  <2>2. Len(Shortened(Events(Read))) = Len(Events(Read))
    BY <2>1, ReadIs, EventsLength, ShortenedLength
  <2>. QED
    BY <2>2 DEF IInv, Handed, Read, TypeOK
<1>2. /\ ~closed
      /\ \/ pos = Len(input) + 1
         \/ pos = Len(input) /\ input[pos] \in {CarriageReturn, ":"} /\ pos \in 1..Len(input)
  BY <1>1, WaitsWhere
<1>3. Len(Events(SubSeq(input, 1, settled))) = Len(published)
  <2>1. CASE pos = Len(input) + 1
    <3>1. ~(pos > 1 /\ input[pos - 1] = CarriageReturn)
      BY <1>1, <1>2, <2>1 DEF Settled, Known
    <3>2. input # <<>> => pos > 1 /\ pos - 1 = Len(input)
      BY <1>1, <2>1
    <3>3. settled = pos - 1
      BY <1>1, <2>1, <3>1, <3>2
    <3>. QED
      BY <1>1, <3>3
  <2>2. CASE pos = Len(input) /\ input[pos] = CarriageReturn /\ pos \in 1..Len(input)
    <3>1. settled = pos - 1
      BY <1>1, <2>2
    <3>. QED
      BY <1>1, <3>1
  <2>3. CASE pos = Len(input) /\ input[pos] = ":" /\ pos \in 1..Len(input)
    <3>1. settled = pos
      BY <2>3, ReadMarks
    <3>2. SubSeq(input, 1, pos) = Append(SubSeq(input, 1, pos - 1), ":")
      BY <1>1, <2>3, BeginningOne
    <3>3. SubSeq(input, 1, pos - 1) \in Seq(Character) /\ ":" \in Character /\ ":" \notin {LineFeed, CarriageReturn}
      BY <1>1, <2>3, Beginning, ReadMarks
    <3>. DEFINE s == SubSeq(input, 1, pos - 1)
                t == SubSeq(input, 1, pos)
    <3>4. Plain(t, s, ":")
      BY <3>2, <3>3 DEF Plain
    <3>5. Events(t) = Events(s)
      BY <3>4, PlainSays
    <3>. QED
      BY <1>1, <3>1, <3>5
  <2>. QED
    BY <1>2, <2>1, <2>2, <2>3
<1>. QED
  BY <1>3

\* The reader does not wait for the connection while it has an event for its caller,
\* however the events were cut into pieces (readFieldName, consumePairedLF).
THEOREM NothingHeld == Spec => []NothingWithheld
BY NoneHeld, Inductive, PTL
=============================================================================
